# TLA+ models of VTN Coordinator

## The system

VTN Coordinator (`src/coordinator`) orchestrates several SDN controllers. It is
a set of daemons that talk over the IPC framework of the PFC core:

| part | source | what it does |
|---|---|---|
| TC | `modules/tc` | transaction coordinator: sessions, locks, commit, audit, failover |
| tclib | `modules/tclib` | the library through which every other daemon hears TC |
| UPLL | `modules/upll` | logical networks; names the controllers a transaction involves |
| UPPL | `modules/uppl` | physical networks and controllers |
| drivers | `modules/vtndrvintf`, `odcdriver`, `vtncacheutil` | one daemon for each type of controller |
| dal, capa, alarm, dataflow, restjsonutil | `modules/*` | database access, capability tables, alarms, REST |
| usess | `modules/usess` | user sessions; tells TC when one ends |
| launcher, clstat | `modules/launcher`, `modules/clstat` | start the daemons, make the node active or standby |
| PFC core | `core/` | modules, IPC, task queues, timers, threads |
| Java and web API | `java/` | REST requests into IPC requests |

VTN Manager (`src/manager`) and the applications are bundles of the
OpenDaylight controller, a system of their own. The whole tree has about a
million lines. The core of the coordinator's correctness is TC: everything that
changes a configuration passes through its locks, its two-phase commit and its
recovery row. Below it is UPLL, which keeps candidate, running and startup
configuration in one database and serves TC and the clients concurrently; and
below both the PFC core, on whose task queues and thread pools every daemon
runs. `PROJECT.json` lists every part and what is modelled of it.

A client that wants to change the configuration acquires the *configuration
mode* (one session at a time, by `config_id`), edits the candidate
configuration in UPLL and UPPL, and commits it. TC takes its write lock, runs
the two-phase commit over UPLL, UPPL and the drivers, and gives the lock back.
Audits, saves, clears and changes of auto-save take the same write lock; read
sessions share the read lock. When the node becomes active TC redoes what the
recovery row in its database names.

## Modules

| module | models | state |
|---|---|---|
| `TcLock` | `tc_lock.cc`, `tc_module_data.hh` | the fields of `TcLock` and `TcReadWriteLock`, and the driver audit's place in its wait loop |
| `TcOperations` | `tc_module.cc`, `tc_unc_states.cc`, `tc_*_operations.cc` | `thread`: the phase of the operation each IPC thread runs; `handler_state`, `handler_pc`: the state handler |
| `TcConfigQueue` | `tc_config_operations.cc` | the queue, the availability flag and where each timed request is |
| `TcLib` | `tclib_module.cc` | `oper_state_` and `audit_in_progress_` of each daemon |
| `TcTransaction` | `tcmsg*.cc`, `Execute` of the operations, `tc_db_handler.cc`, `tc_startup_operations.cc` | the message under way and its recipients, the recovery row, what was handled |
| `TransactionCommit` | what a transaction of TC promises | the state of each participant, who is involved, the answer |
| `UpllConfig` | `config_mgr.cc`, `tx_mgr.cc`, `config_lock.cc`, `tclib_intf_impl.cc` of UPLL | the configurations as committed and as the shared connection sees them, the locks, batch, timer, dirty flag, TC's operation |
| `UpllDbConn` | `dbconn_mgr.cc`, `dbconn_mgr.hh` of UPLL | shared and read-only connections, the pool, its semaphore, the stale list |
| `PfcTaskQueue` | `taskq.c` of the PFC core | one queue, its tasks, dispatchers, the reserve thread, the callers |
| `PfcThreadPool` | `tpool.c`, `thread.c` of the PFC core | one pool, its physical threads, the logical threads, manager, reaper, destroyer |
| `TcLockProofs`, `TcThreadProofs`, `TcOperationsProofs` | | theorems about `TcOperations` |
| `TcConfigQueueProofs`, `TransactionCommitProofs`, `UpllDbConnProofs` | | theorems about the module each is named after |
| `UpllConfigProofs`, `UpllDataProofs` | | theorems about `UpllConfig` |
| `MCTcOperations`, `MCTcConfigQueue`, `MCTcTransaction`, `MCUpllConfig`, `MCUpllDbConn`, `MCPfcTaskQueue`, `MCPfcThreadPool` | | instances for TLC |

**TcLock.** A method that runs under the mutex of the lock table is one step.
The exception is the driver audit, which polls for SETUP_COMPLETE with the mutex
held (`audit_pc = "spin"`, and `MutexFree` is then false for everybody else) and
sleeps on a condition variable with the mutex released. Counts are unsigned and
`RW_OWNER_WRLOCKED` is the largest value, as in the code; `UINT32_MAX` is a
constant.

**TcOperations.** `Dispatch` is cut where the mutex is free: `Validate`
(HandleArgs), `TcGetExclusion`, `...ReleaseExclusion`, and so on. Execute takes
time and changes nothing here. A failing Execute releases the exclusion like a
successful one. `TcReleaseSession` is cut between its question and what it then
does. A plain CONFIG_ACQUIRE looks at the queue of timed requests, which is
always empty without such requests; `TcConfigQueue` has them.

**TcConfigQueue.** TC is ACT, and each session has a thread of its own. Between
letting go of the queue and sleeping there is a state of its own
(`before_wait`), for a signal sent there is lost. Any notification may fail and
any sleep may end without a signal (`woken`). `release_failed` is a history
variable: a release has freed the lock table, failed to notify the daemons and
left the flag as it was, and no release has succeeded since. The branch for
`IsStateChangedToSby` is left out: the flag is only ever set to false.

**TcLib and TcTransaction.** One operation of TC at a time, as `OneWriter`
justifies; every exchange with a daemon is a step with three outcomes: success,
failure, or an IPC error, after which the daemon may or may not have handled the
message. `TcLib` decides whether a message is in sequence and what is remembered
after it. `tc.todo` is the rest of the code's `notifyorder_`, `tc.acked` its
`abort_on_fail_`. `handled` and `ended` are history variables. `cut` is the
operation that a crash interrupted while the row named it; a cold start,
which loads the startup configuration and does not look at the row, sets it back.
Two things touch the row beside the operation that wrote it: the response of an
operation that has already released the lock (`responses`, at most `MaxLate` of
them when the next operation begins), and a save that auto-save makes superfluous
(`SaveWithAutoSave`), which clears it without any lock at any time.

**TransactionCommit.** The abstract specification: participants work, prepare,
commit or abort; nobody commits before everyone involved has prepared, nobody
aborts after somebody has committed, and the client hears of success only when
all have committed. `TcTransaction` implements it (`ImplementsCommit`): a daemon
has prepared when it has handled its vote, committed when it has handled its
global commit, aborted when it has handled an abort; the answer is the result of TC's operation. Some steps
of TC are two abstract ones at a time, as when the last acknowledgement is lost:
the daemon commits and the client is told of a failure.

**UpllConfig.** The contents of a configuration are an element of `Configs`,
`Empty` or `Mixed`; what the code does with them is copying, comparing, and
failing half way. `view` is what the one shared database connection sees and
`db` what is committed. A commit or a rollback on that connection is one for
everybody, and the locks of `ConfigLock` are all that keeps requests apart:
UPLL compares the session and configuration numbers of a request, but these stay
valid while TC commits, aborts or saves, and a save may come from any session.
So the client that has the configuration mode edits, reads, opens and closes
batches, imports and merges, and beside it, at any moment, run the batch timer, TC
with its transactions, audits, saves, aborts and clears, and the clients without
the mode (`Askers`), which read and ask for the dirty state. A request
takes its locks one at a time in the order of the code. `written` is the
`write_count_` of the connection, which decides whether a failed edit rolls back
the batch; `pending` is a history variable, the edits answered with success since
the connection was last committed or rolled back. TC's side is a sequence
of handler calls that each may fail (`CommitNext`, `AuditNext`, `Proceed`); a
failure in the second phase leaves UPLL's library inside the transaction
(`tc.stuck`), as in `TcLib`, and no further transaction or audit starts.

**UpllDbConn.** A `DbConn` is an address that may be freed and allocated again.
Every function is one step under `conn_mutex_`, but taking a read-only
connection first waits for the semaphore. `TerminateAndInitializeDbConns` may
come at any time, with either value of `active`: new shared connections are made
or there are none. The error paths of the callers that never return a connection
are there as well (`LeakRwConn`).

**PfcTaskQueue.** A step is what a thread does under the mutex of the queue
until it waits or unlocks. A woken thread and one whose wait timed out must take
the mutex again and may find the queue changed. Thread creation may fail, in
which case the queue asks the reserve thread. Tasks are one-shot; the pool
behind the queue is the set `Dispatchers`. `ended`, `destructed` and `early` are
history variables: the tasks that have ended, that were destructed, and those
that a flush reported as done before they were.

**PfcThreadPool.** A step is what a thread does under the lock of the pool, or
of a thread or job alone. The manager's queue, the free list, the timed lock of
a free thread during shutdown and the reference count of the pool are as in the
code. A job is freed in a step of its own, after the one that unlocks it
(`ThreadFreeJob`, `JoinFreeJob`); in between its id is still registered and a call
of join or detach may find and lock it. Calls that are refused or have nothing to
do are `Visit` and `Leave`.

## What is checked

| run | question | distinct states |
|---|---|---|
| `tc_exclusive` | all operations, two sessions and threads, exclusive locks: mutual exclusion, counts, configuration session, wake-up, stop | 599,875 (25 s) |
| `tc_simultaneous` | `simultaneous_read_write_allowed` with management readers | 44,745 |
| `tc_fair` | notifications and state transitions end | 134,951 |
| `tc_queue` | three sessions, failing notifications, spurious wake-ups, timeouts of every kind: queue, flag and order of timed requests | 57,247 |
| `tc_transaction` | implements `TransactionCommit`; clean end, sequence, failover | 656,829 (40 s) |
| `upll_config` | requests of a client, of TC and of the batch timer that overlap over one database transaction: no circular wait, half-written configurations are left alone, the loss of acknowledged edits is bounded, a batch has a timer, a transaction takes back its marks | 2,677,468 (2 min) |
| `upll_dbconn` | three threads on five connections while the node changes its state | 144,671 (90 s) |
| `pfc_taskq` | two dispatchers, two callers, three tasks, the reserve thread: concurrency, flush, destructors, no stranded task | 912,362 (2 min) |
| `pfc_tpool` | two threads and two jobs, manager, reaper, joiners, refused callers, destroyer | 884,862 (50 s) |

Three runs show where the code does something else than its comments say; each has
an entry under `findings`.

| run | what TLC finds |
|---|---|
| `tc_queue_stranded` | a signal sent just before a request sleeps is lost: the mode is free and the request sleeps on |
| `upll_dirty_flag` | the dirty flag is cleared by a comparison with edits of a batch that is later rolled back |
| `upll_save_lost` | a read of the candidate rolls back the shared connection between the copy of running to startup and the commit of the save, which then stores nothing and reports success |

Further configurations are kept for reading. Each names one property that TLC
finds violated, that is, a promise the code does not keep:

| configuration (module) | property | what TLC finds |
|---|---|---|
| `TcManagementReader` (`MCTcOperations`) | `ManagementReadersExcludeWriter` | a refused second read of DB_MGMT or LAUNCHER lets a writer in beside the first |
| `TcReleaseOther` (`MCTcOperations`) | `ReleasesOwnSession` | ending one session can release the configuration session of another |
| `TcAuditSpin` (`MCTcOperations`) | `TransitionEnds` | after a failed SETUP_COMPLETE the driver audit polls for ever with the mutex held |
| `TcAuditAddon` (`MCTcTransaction`) | `InSequence` | AUDIT_TRANS_END goes to drivers that got no AUDIT_TRANS_START |
| `TcRecoveryRow` (`MCTcTransaction`) | `RowNamesOperation` | a save that auto-save makes superfluous clears the row of a running operation |
| `UpllRoSlots` (`MCUpllDbConn`) | `RoSlotsReturn` | slots of the read-only semaphore are lost when a connection cannot be opened |
| `PfcTaskQueueDestroy` (`MCPfcTaskQueue`) | `DestroyerIsWoken` | a joiner that times out leaves without signalling the destroyer that waits for it |
| `PfcJobFreed` (`MCPfcThreadPool`) | `JobFreedUnused` | a job is freed while a refused join or detach, which found it by its id after the unlock, has it locked |

**Bounds.** Two sessions and two threads are the least with which one operation
can come between two steps of another; the driver audit and the state handler
are further processes. Three sessions are the least with which a queue of two
waits behind an owner. `UINT32_MAX` is 4 or 5, so that configuration numbers
wrap and reader counts stay below the mark of the writer. In `tc_transaction`
two drivers give a vote after another's vote; `MaxFaults = 1` lets one exchange
or database write fail anywhere, `MaxCrashes = 2` lets the failover crash too
(`MaxRestarts = 1`: no operation begins after the second crash, only the failover),
and `MaxFailoverInstance = 2` reaches ACT_FAIL. `MaxLate` is the number of
operations that have released the lock but not yet cleared the row when the next
one begins; it is 1, so that a late response meets the row of another operation.

In `upll_config` two configurations are enough to tell an old from a new
content; a limit of 2 edits makes a batch commit by itself. TC runs one operation
(`MaxOperations = 1`, in `MCUpllConfig`) beside any number of requests of the
client and of the timer, and nothing has been saved at the start: a second
operation meets the same requests in the same states but for what a system
failure has left, and multiplies the states. There is one armed timer at a
time (`MaxTimers = 1`), and no client beside the one with the configuration mode
(`Askers = {}`), which makes every request that they can. The theorems hold for
any number of operations, timers and clients. In `upll_dbconn` five addresses serve two shared, two
read-only and one stale connection; two faults are a change of state and a
broken connection, or two changes. In `pfc_taskq` three tasks are one running,
one queued and one refused by the limit of the queue. In `pfc_tpool` the pool
may have both threads, keeps one of them free, and the two jobs can meet on one
thread. `LockTimesOut` is off: the expiry of the timed lock of a free thread
takes the thread out of the free list without telling it to quit.

**Symmetry** of sessions and threads is used in safety runs only; DB_MGMT and
LAUNCHER are not permuted.

**Deadlock** is checked in `upll_config`: its requests never end, and whoever
waits is waited for by nobody in a circle. It is not checked elsewhere: TC really
stops after STOP or in ACT_FAIL, a destroyed queue or pool is the end of it,
and the bounds on tasks, jobs, crashes and faults end a behaviour.

**Fairness.** A thread that runs an operation goes on (`SF` for steps that need
the mutex, which others take again and again: PFC mutexes are pthread mutexes
and every holder lets go, so a blocked thread gets it eventually; the one holder
that does not is the subject of `TcAuditSpin.cfg`, where the step is not enabled
and `SF` promises nothing). The driver audit needs `WF` only, for its own loop.
Requests, state events and crashes are never assumed to happen. This is the
fairness of `TcOperations`; the other modules state none. In particular an
operation of `TcTransaction` ends only if every exchange returns, and the sessions
of commit and audit have no timeout: that would be an assumption about the
daemons, and nothing in the code.

## What is proved

`TcOperationsProofs` proves, for any sets of sessions and threads, any
`UINT32_MAX` large enough, and both lock modes, that `TcOperations` satisfies
`TypeOK`, `ReaderCount`, `ReadersExcludeWriter`, `OneWriter`,
`CandidateOwnsConfig`, `TransitionNeverWaits`, `NothingGrantedAfterStop`,
`CandidateKeepsConfig` and `ManagementFlagsExcludeWriter`; and `NoMissedWakeUp`
without simultaneous locks. The assumptions are `TcLockAssumption` and
`TcOperationsAssumption`; the important one is that there are fewer sessions
than the count can hold. `TypeOK` includes that the configuration number of a
session that has the mode is not zero, which the daemons take for none.

None of these is inductive by itself. The invariant `IInv` of `TcLockProofs` has
five parts:

- `TypeOK`;
- `HandlerOrder`: what the state of the lock table is at each point of
  HandleStart, HandleAct and HandleStop, in particular that nobody holds the
  write lock before HandleAct has made the node ACT;
- `Owners`: the counts against the sets they count;
- `Config`: the configuration session against the writer;
- `Writers`: the thread that executes a write operation against the writer's
  session and operation in the lock table.

`TcLockProofs` shows for each method of the lock table that it preserves the
parts about the lock table (`ClientLockStep`, `HandlerLockStep`).
`TcThreadProofs` shows that every step of a thread is such a method and
preserves `Writers`. `TcOperationsProofs` puts them together (`Invariance`).

`TcConfigQueueProofs` proves for any set of sessions and any timeouts, with
failing notifications and spurious wake-ups, `QueueHoldsWaiters`,
`FreeModeIsAvailable` and `EarlierRequestsFirst`. What the last two except (a
release that could not be notified; timeout zero and spurious wake-ups) is among
the known limits below. The assumptions on the constants are `TcLockAssumption` and `TcConfigQueueAssumption`. The invariant has,
besides types and `QueueHoldsWaiters`:

- `Order`: which kind of request may be where;
- `Notified`: the session in the lock table is that of the one request whose
  notification is pending, and the table is taken unless it is a release. This
  is why `SetUnavailable`, outside the mutex of the queue, does no harm;
- `Available`: while the flag is behind the lock table there is a release that
  is going to set it;
- `SignalledIsFirst`: a request that need not wait any longer heads the queue.

Two lemmas say what erasing one element of a sequence without repetitions leaves
(`EraseIndex`, `EraseProperties`).

`UpllDbConnProofs` proves for any numbers of threads and connections and any
limit (`DbConnAssumption`) that `UpllDbConn` satisfies `TypeOK`,
`RoConnNotShared`, `LivesWhileUsed` and `WithinRoLimit`. The counters of the code
are decremented unconditionally, so the proof is about what they count:

- `Apart`: a connection is a current read-write one, a stale one or a read-only
  one, never two of these;
- `Homes`: what a thread holds is where its kind of connection belongs;
- `RwCounts`: a read-write connection counts at least its users, more when a use
  was leaked, and a stale one is in use: the return that deletes it is that of
  its only user;
- `RoCounts`: a read-only connection has no user and counts zero, or has one and
  counts one.

`TransactionCommitProofs` proves of the abstract transaction that it is atomic
and that its answer is true (`CommitIsAtomic`); that `TcTransaction` implements
it is checked by TLC.

`UpllConfigProofs` and `UpllDataProofs` prove every invariant that `upll_config`
checks, from `ConfigAssumption` (the contents are told apart, the limits are not
zero, the clients without the mode are not one of the other threads), for any
contents, batch limit, number of armed timers and set `Askers`. The invariant is
built in layers:

- `Typed`, `RoleInv` and `LockInv` (`InvHolds`): which thread may be at which step
  of which request, what TC may call next, that a lock held for writing has one
  holder, and which locks a request has or still wants at each step;
- for `NoCircularWait`, that what a thread waits for comes, in the order of the
  locks, after all that it has (`WaitsHigher`). Whoever waits in a circle would
  lead to a waiter for a higher lock, and so on past the last of the six locks,
  whatever the number of threads;
- `TimerInv` and `MarkInv`: that the timer the batch counts on is one of those
  armed, and that a commit begins unmarked;
- `WritersIsolated` follows from `LockInv`: whoever has written a part of the
  candidate or of running holds the candidate for writing, and every step that
  closes the connection, but for those of a save and the two clears, holds it too;
- `PendingInv`, for `AcknowledgedIsDurable` and `LossIsBounded`: each edit that is
  answered and not committed has been counted by the batch. Every step of a
  request closes the connection, writes over it, leaves it alone or counts an edit
  (`Effect`), and the batch counter is reset without a commit only where nothing
  is left uncommitted.

Only model-checked: everything about `TcLib`, `TcTransaction` and its refinement
of `TransactionCommit`, `PfcTaskQueue` and `PfcThreadPool`, and all liveness,
which is out of reach of the prover. `DirtyFlagSound` and `SaveCopiesRunning` of
`UpllConfig` do not hold (`upll_dirty_flag`, `upll_save_lost`). Some of these modules state a
`TypeOK` that no run lists: it documents the state.

## Known limits of the code that no run keeps

They follow from the modules; where the property exists, changing one constant
of a configuration shows it.

- A timed request with timeout zero looks at the flag only and overtakes the
  queue, and so does one that `pthread_cond_wait` wakes without a signal.
  `EarlierRequestsFirst` excepts both.
- A release whose notification fails frees the session but does not set the flag,
  and nobody who waits is signalled before the next release. `FreeModeIsAvailable`
  and `NoStrandedRequest` except this.
- `NoMissedWakeUp` fails with `Simultaneous = TRUE` and management sessions.
- The availability flag may be set after another session has taken the mode, and
  a request without a time limit may then be refused.
- A session marked too late (`ReleaseSessionMark` after `CheckMarkedSession`)
  keeps the configuration mode.
- After a fatal error TC sends no TRANS_END: the libraries stay where they were
  and refuse the next transaction. A driver always fails to abort, so a vote
  that fails after a driver accepted ends like this. `CleanEnd` and `InSequence`
  except what follows a fatal error.
- A failed global commit leaves its row; the next operation overwrites it.
- The recovery row of an operation may be cleared while it runs, by a superfluous
  save or by the late response of another (`TcRecoveryRow.cfg`). After a crash
  nothing is then redone: `FailoverRedoes` is about what the row names at the crash.
- A save, a clear of startup and a clear of the import do not lock the candidate.
  Their close commits or drops what another request has half written
  (`WritersIsolated` excepts them), and a read of the candidate drops what they
  have written (`upll_save_lost`).
- An edit that passed the check of its session waits for the lock of the candidate
  and is written after a commit has sent its differences: it enters running
  without having been sent to a controller (`config_mgr.cc:775`).
- A job may be freed while a join or detach that is refused has it locked
  (`PfcJobFreed.cfg`).
- A timed request that waits when the node stops is not woken: nothing sets the
  flag it looks at (`tc_config_operations.cc:561`).
- A waiting driver audit keeps readers out but not other writers, and may wait
  for ever behind them (`tc_lock.cc:268`).
- After a system failure in the second phase UPLL takes no further transaction,
  and the handlers of path faults wait for the semaphore that only a driver
  result posts. `MarksAreTakenBack` excepts this case.
- An audit of UPLL whose end fails in the database stays marked, and the next
  audit of another controller is refused (`tx_mgr.cc:784`).
- When the timer ends a batch and its commit fails, no client is told
  (`config_mgr.cc:2298`).
- `IsKeyInUse` waits for a read-only connection with the batch mutex held
  (`config_mgr.cc:1861`); `UpllConfig` and `UpllDbConn` are not composed.
- Detaching a thread that is being joined does nothing; when the joiner then
  times out, nobody frees the job (`thread.c:453`). `JobFreedOnce` says only that
  a job is not freed twice.
- With `LockTimesOut = TRUE` a shutdown leaves a free thread asleep that is in no
  list (`tpool.c:625`).
- The library of the daemons takes the auto-save mutex and that of the
  transaction services in both orders (`tclib_module.cc:2293, 2351, 2567`); only
  TC's exclusion keeps the calls apart.

## What is not modelled

Of TC: payload (error lists, key trees, controller lists, `trans_result_`),
parsing of requests, checks of session and configuration numbers by tclib, the
writing of responses beyond what they do to the recovery row, tc.conf, alarms,
ODBC, the change of the auto-save setting and the concurrent services of tclib.

Of UPLL: the key trees. `momgr_impl.cc`, `vtn_momgr.cc` and their siblings are
more than half of UPLL's lines and one class per key type, sequential code whose
state is the contents of SQL tables; the phases of `tx_mgr.cc` that call them
appear as steps that succeed, fail or fail half way. Shutting down, becoming
standby and the alarm handlers' own work are left out of `UpllConfig`.

Of the PFC core: the registry of several task queues and pools, timers, IPC,
configuration files, logging.

The managed objects of UPLL and UPPL, the controller driver, the data access
layer, the APIs and VTN Manager are sequential, data bound or pure I/O; the
reasons stand beside each in `PROJECT.json`.

In numbers: the definitions stand for about 10,900 source lines: two fifths of
`modules/tc` and `modules/tclib`, three fifths of `taskq.c`, `tpool.c`,
`tx_mgr.cc` and more of `dbconn_mgr.cc`, a third of `config_mgr.cc`, and a few
percent of the whole tree. The rest of the tree is mostly data: key type
classes, SQL binding, JSON and REST translation, whose states TLC cannot
enumerate and whose steps have no concurrency, so that a model of them would be
a transcript.

## Plan

1. `TcLock`, `TcOperations`, their proofs: done.
2. `TcConfigQueue`, `TransactionCommit`, their proofs; `TcLib`, `TcTransaction`:
   done.
3. `UpllDbConn`, `UpllConfig` and their proofs, `PfcTaskQueue`, `PfcThreadPool`:
   done.
4. tclib's concurrent services (`sess_`, the request counter, the auto-save
   mutex) and TC's auto-save operation.
5. `UpllConfig` with `UpllDbConn`, and the change of UPLL to standby.
6. UPPL's transaction requests, the drivers' transaction handler, cluster
   status, launcher, the timer of the PFC core.
