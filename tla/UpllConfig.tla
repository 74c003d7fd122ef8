----------------------------- MODULE UpllConfig -----------------------------
(***************************************************************************)
(* The configuration and transaction manager of UPLL                       *)
(* (modules/upll/config_mgr.cc, tx_mgr.cc, config_lock.cc) on an active    *)
(* node, with the handlers through which TC drives it                      *)
(* (tclib_intf_impl.cc).                                                   *)
(*                                                                         *)
(* The candidate, running, startup and import configurations live in one   *)
(* database and are read and written over ONE shared connection, so that   *)
(* all of them are in one database transaction: a commit or a rollback by  *)
(* any thread commits or drops the writes of every thread.  What keeps     *)
(* them apart are the reader-writer locks of ConfigLock, one for each      *)
(* configuration, and in batch mode the rule that edits stay uncommitted   *)
(* until a limit, the end of the batch or another operation commits them.  *)
(*                                                                         *)
(* view is what the connection sees, db what is committed: at a crash view *)
(* is lost and db is what the next process finds.  The contents of a       *)
(* configuration are abstract: one of Configs, Empty, or Mixed when only   *)
(* part of a change has been written.                                      *)
(*                                                                         *)
(* A thread runs one request at a time: it takes the locks of the request  *)
(* one by one, then takes the steps of its body.  Nothing but these locks  *)
(* keeps requests apart: ValidSession only compares the numbers of the     *)
(* request, which stay valid while TC commits, aborts or saves, and a save *)
(* may come from any session.  Sections under                              *)
(* batch_mutex_lock_, commit_mutex_lock_ and the like never wait for       *)
(* anything and are part of the step that contains them.                   *)
(***************************************************************************)
EXTENDS Integers

CONSTANTS
    Configs,      \* complete configurations
    Empty,        \* no configuration
    Mixed,        \* part of one configuration and part of another
    CommitLimit,  \* batch_commit_limit_
    MaxTimers,    \* bound on the batch timers armed at a time
    Askers        \* clients without the configuration mode, which only read

ASSUME ConfigAssumption ==
    /\ Empty \notin Configs /\ Mixed \notin Configs /\ Empty # Mixed
    /\ CommitLimit \in Nat \ {0} /\ MaxTimers \in Nat \ {0}
    /\ Askers \cap {"user", "tc", "timer"} = {}

\* The client that holds the configuration mode, TC, the thread of the batch
\* timer, and the clients that only read.
Threads == {"user", "tc", "timer"} \cup Askers

VARIABLES
    db,        \* the committed contents of each configuration
    view,      \* their contents as the shared connection sees them
    written,   \* write_count_ > 0 of the shared connection
    pending,   \* edits answered with success since it was last committed or rolled back
    th,        \* what each thread does: [op, pc, want, ok]
    held,      \* the locks of each thread
    batch,     \* batch_mode_in_progress_, batch_op_cnt_; is the timer known lost
    timer,     \* armed batch timers; does batch_timeout_id_ name one of them
    dirty,     \* candidate_dirty_qc_ and candidate_dirty_qc_initialized_
    import,    \* import_in_progress_
    commit,    \* commit_in_progress_
    audit,     \* audit_in_progress_
    alarms,    \* is the path fault semaphore at zero
    tc         \* TC's operation and the handler it calls next

data == <<db, view, written, pending>>
flags == <<batch, timer, dirty, import, commit, audit, alarms>>
vars == <<data, th, held, flags, tc>>

----------------------------------------------------------------------------
(* Locks *)

\* What an import, possibly renamed, has read from a controller.
Imported == "imported"

Datatypes == {"CAND", "RUN", "START", "IMPORT"}

\* import_mutex_lock_, which is always taken first, then the configuration locks
\* in the order of upll_keytype_datatype_t (UPLL_DT_AUDIT is the largest).
LockNames == Datatypes \cup {"MUTEX", "AUDIT"}
Rank == [l \in LockNames |->
    CASE l = "MUTEX" -> 0 [] l = "CAND" -> 1 [] l = "RUN" -> 2
      [] l = "START" -> 3 [] l = "IMPORT" -> 4 [] l = "AUDIT" -> 5]

R(dt) == [on |-> dt, mode |-> "R"]
W(dt) == [on |-> dt, mode |-> "W"]

\* The mutant of First: the locks are taken in any order.
FirstAny(locks) == locks

\* ConfigLock::Lock sorts its arguments: which of them is taken first.
First(locks) == {l \in locks : \A k \in locks : Rank[l.on] <= Rank[k.on]}

NoLock == [l \in LockNames |-> "-"]

Free(t, l) == \A u \in Threads \ {t} :
    IF l.mode = "R" THEN held[u][l.on] # "W" ELSE held[u][l.on] = "-"

\* Take the next lock of a request.
Lock(t) ==
    /\ \E l \in First(th[t].want) :
          /\ Free(t, l)
          /\ held' = [held EXCEPT ![t][l.on] = l.mode]
          /\ th' = [th EXCEPT ![t].want = @ \ {l}]
    /\ UNCHANGED <<data, flags, tc>>

\* The locks of each request.
AllWrite == {W("CAND"), W("RUN"), W("IMPORT"), W("START")}
\* The mutant of EditLocks: the candidate is locked as if it were only read.
EditLocksShared == {R("CAND"), R("RUN")}
EditLocks == {W("CAND"), R("RUN")}
RenameLocks == {W("IMPORT"), R("CAND")}
DirtyLocks == {R("CAND"), R("RUN")}
BatchEndLocks == {W("CAND"), R("RUN"), R("IMPORT"), R("START")}
ImportLocks == {W("IMPORT"), R("CAND"), R("RUN")}
MergeLocks(mode) == {[on |-> "IMPORT", mode |-> mode], W("CAND"), R("RUN")}
TxStartLocks == {W("CAND"), R("RUN")}
TxVoteLocks == {R("CAND"), R("RUN")}
TxEndLocks == {W("CAND"), W("RUN")}
SaveLocks == {W("START"), R("RUN")}
AuditStartLocks == {W("AUDIT"), R("RUN")}
AuditTxLocks == {R("AUDIT"), R("RUN")}

----------------------------------------------------------------------------
(* The course of a request *)

Idle == [op |-> "idle", pc |-> "idle", want |-> {}, ok |-> TRUE]

At(t, pc) == th[t].pc = pc /\ th[t].want = {}

\* Start a request, or go on with the next part of one.
Go(t, op, pc, locks) ==
    th' = [th EXCEPT ![t] =
             [op |-> op, pc |-> pc, want |-> locks, ok |-> TRUE]]

Begin(t, op, pc, locks) ==
    /\ Go(t, op, pc, locks)
    /\ UNCHANGED held

\* The next step of the body; ok remembers whether the request still succeeds.
Step(t, pc, ok) ==
    /\ th' = [th EXCEPT ![t].pc = pc, ![t].ok = ok]
    /\ UNCHANGED held

Release(t) == held' = [held EXCEPT ![t] = NoLock]

\* What TC does after a handler returned: it goes on, or, as this or another daemon
\* failed, ends the transaction.  A failure in the second phase, or of an abort or
\* an end, is fatal: TC answers TC_SYSTEM_FAILURE and sends UPLL nothing more.
CommitNext(op, ok) ==
    CASE op = "TX_START" -> IF ok THEN {"TX_VOTE", "TX_END", "FATAL"} ELSE {"none"}
      [] op = "TX_VOTE" -> {"TX_END", "FATAL"} \cup (IF ok THEN {"TX_VOTE_RESULT"} ELSE {})
      [] op = "TX_VOTE_RESULT" -> {"TX_END", "FATAL"} \cup (IF ok THEN {"TX_GLOBAL"} ELSE {})
      [] op = "TX_GLOBAL" -> {"FATAL"} \cup (IF ok THEN {"TX_RESULT"} ELSE {})
      [] op = "TX_RESULT" -> {"FATAL"} \cup (IF ok THEN {"TX_END"} ELSE {})
      [] OTHER -> {"none"}

\* After a simplified start TC goes straight to the end of the audit.
AuditNext(op, ok) ==
    CASE op = "AUDIT_START" -> IF ok THEN {"AUDIT_TX_START", "AUDIT_END", "FATAL"} ELSE {"none"}
      [] op = "AUDIT_TX_START" ->
            {"AUDIT_END", "FATAL"} \cup (IF ok THEN {"AUDIT_VOTE_RESULT"} ELSE {})
      [] op = "AUDIT_VOTE_RESULT" ->
            {"AUDIT_END", "FATAL"} \cup (IF ok THEN {"AUDIT_GLOBAL"} ELSE {})
      [] op = "AUDIT_GLOBAL" -> {"FATAL"} \cup (IF ok THEN {"AUDIT_RESULT"} ELSE {})
      [] op = "AUDIT_RESULT" -> {"FATAL"} \cup (IF ok THEN {"AUDIT_END"} ELSE {})
      [] OTHER -> {"none"}

\* stuck: UPLL's TC library, left inside a transaction, refuses to start another.
Proceed(op, ok) ==
    \E next \in IF tc.oper = "AUDIT" THEN AuditNext(op, ok) ELSE CommitNext(op, ok) :
       tc' = IF next \in {"none", "FATAL"}
             THEN [oper |-> "none", next |-> "none", stuck |-> tc.stuck \/ next = "FATAL"]
             ELSE [tc EXCEPT !.next = next]

\* The end of a request: every lock is released.
End(t, ok) ==
    /\ th' = [th EXCEPT ![t] = Idle]
    /\ Release(t)
    /\ IF t = "tc" THEN Proceed(th[t].op, ok) ELSE UNCHANGED tc

\* DalTxClose of the shared connection, for whoever has written over it.  A commit
\* that the database refuses leaves write_count_ alone, but the next edit resets it
\* and the locks of a request whose commit may be refused keep edits out.
Close(success) ==
    /\ IF success THEN db' = view /\ view' = view
                  ELSE view' = db /\ db' = db
    /\ written' = FALSE /\ pending' = 0

\* A change of one configuration that is written, or fails half-way.
Write(dt, content, ok) ==
    /\ view' = [view EXCEPT ![dt] = IF ok THEN content ELSE Mixed]
    /\ written' = TRUE
    /\ UNCHANGED <<db, pending>>

\* The client with the configuration mode sends one request at a time to UPLL.
UserFree == th["user"].op = "idle"
TcFree == th["tc"].op = "idle" /\ tc.oper = "none"

----------------------------------------------------------------------------
(* Edits and reads of the candidate: KtServiceHandler *)

\* CREATE, UPDATE or DELETE on the candidate, RENAME on the import configuration.
EditStart ==
    /\ UserFree
    /\ \/ Begin("user", "EDIT", "edit", EditLocks)
       \/ import /\ Begin("user", "RENAME", "edit", RenameLocks)
    /\ UNCHANGED <<data, flags, tc>>

\* The managed object writes the change, fails before it has written anything, or
\* fails after some writes.  KtServiceHandler resets write_count_ before it.
EditWrite(t) ==
    /\ At(t, "edit")
    /\ LET dt == IF th[t].op = "EDIT" THEN "CAND" ELSE "IMPORT"
       IN \/ /\ \E c \in IF dt = "CAND" THEN Configs ELSE {Imported} : Write(dt, c, TRUE)
             /\ Step(t, "edit_close", TRUE)
          \/ Write(dt, Mixed, FALSE) /\ Step(t, "edit_close", FALSE)
          \/ /\ written' = FALSE /\ UNCHANGED <<db, view, pending>>
             /\ Step(t, "edit_close", FALSE)
    /\ UNCHANGED <<flags, tc>>

\* The mutant of LimitReached: the batch is committed one edit too late.
LimitPassed == batch.cnt >= CommitLimit

\* ++batch_op_cnt_ >= batch_commit_limit_
LimitReached == batch.cnt + 1 >= CommitLimit

\* Outside batch mode the edit is committed or rolled back.  In batch mode a
\* failed edit rolls back the whole batch if the connection has written since the
\* edit began; any other is counted, and the batch is committed when the limit is
\* reached.  A commit that the database refuses (~stored) drops what it should have
\* stored.
EditClose(t) ==
    /\ At(t, "edit_close")
    /\ \E stored \in BOOLEAN :
          LET rollback == ~th[t].ok /\ (~batch.on \/ written)
              closes == rollback \/ ~batch.on \/ LimitReached
              success == ~rollback /\ stored
          IN /\ IF closes THEN Close(success)
                ELSE /\ pending' = IF th[t].ok THEN pending + 1 ELSE pending
                     /\ UNCHANGED <<db, view, written>>
             /\ batch' = [batch EXCEPT !.cnt =
                            IF ~batch.on \/ rollback THEN @ ELSE IF LimitReached THEN 0 ELSE @ + 1]
             /\ dirty' = [dirty EXCEPT !.qc = @ \/ /\ th[t].ok /\ th[t].op = "EDIT"
                                                   /\ closes => success]
    /\ End(t, th[t].ok)
    /\ UNCHANGED <<timer, import, commit, audit, alarms>>

\* A read of the candidate uses the shared connection too.
ReadStart(t) ==
    /\ t \in {"user"} \cup Askers /\ th[t].op = "idle"
    /\ Begin(t, "READ", "read", {R("CAND")})
    /\ UNCHANGED <<data, flags, tc>>

Read(t) ==
    /\ At(t, "read")
    /\ IF batch.on THEN UNCHANGED data ELSE Close(FALSE)
    /\ End(t, TRUE)
    /\ UNCHANGED flags

----------------------------------------------------------------------------
(* Is the candidate dirty? *)

DirtyNow == dirty.qc /\ view["CAND"] # view["RUN"]
DirtyChecked == IF dirty.qc THEN [qc |-> DirtyNow, init |-> TRUE] ELSE dirty

\* IsCandidateDirtyNoLock compares the configurations unless the flag is already
\* clear; ok is the result of the comparison as a database operation.
IsCandidateDirtyNoLock(ok) ==
    /\ dirty' = IF ok THEN DirtyChecked ELSE dirty
    /\ IF dirty.qc /\ ~batch.on THEN Close(FALSE) ELSE UNCHANGED data

\* IsCandidateDirtyShallow answers from the flag once it has been initialised;
\* any client may ask, with or without a session.
DirtyStart(t) ==
    /\ ~dirty.init
    /\ t \in {"user"} \cup Askers /\ th[t].op = "idle"
    /\ Begin(t, "DIRTY", "dirty", DirtyLocks)
    /\ UNCHANGED <<data, flags, tc>>

IsCandidateDirty(t) ==
    /\ At(t, "dirty")
    /\ \E ok \in BOOLEAN : IsCandidateDirtyNoLock(ok) /\ End(t, ok)
    /\ UNCHANGED <<batch, timer, import, commit, audit, alarms>>

----------------------------------------------------------------------------
(* Batch mode *)

\* RegisterBatchTimeoutCB: a new timer, named by batch_timeout_id_.
Armed(tm) == [armed |-> tm.armed + 1, mine |-> TRUE]

\* batch_timer_->cancel(batch_timeout_id_)
Cancelled(tm) == [armed |-> IF tm.mine THEN tm.armed - 1 ELSE tm.armed, mine |-> FALSE]

\* OnBatchStart; a second start commits what the batch has collected.
OnBatchStart ==
    /\ UserFree
    /\ \/ /\ ~batch.on /\ timer.armed < MaxTimers
          /\ batch' = [on |-> TRUE, cnt |-> 0, lost |-> FALSE]
          /\ timer' = Armed(timer)
          /\ UNCHANGED <<th, held>>
       \/ /\ batch.on
          /\ Begin("user", "BATCH_START", "db_commit", AllWrite)
          /\ UNCHANGED <<batch, timer>>
    /\ UNCHANGED <<data, dirty, import, commit, audit, alarms, tc>>

\* The mutant of OnBatchAlive: the timer is not armed again.
BatchAliveCancels ==
    /\ UserFree /\ batch.on
    /\ timer' = Cancelled(timer)
    /\ UNCHANGED <<data, th, held, batch, dirty, import, commit, audit, alarms, tc>>

\* OnBatchAlive re-arms the timer; when that fails the caller gets an error and
\* the batch has no timer any more.
OnBatchAlive ==
    /\ UserFree /\ batch.on
    /\ \/ timer' = Armed(Cancelled(timer)) /\ batch' = [batch EXCEPT !.lost = FALSE]
       \/ timer' = Cancelled(timer) /\ batch' = [batch EXCEPT !.lost = TRUE]
    /\ timer'.armed <= MaxTimers
    /\ UNCHANGED <<data, th, held, dirty, import, commit, audit, alarms, tc>>

BatchEndStart ==
    /\ UserFree
    /\ Begin("user", "BATCH_END", "batch_end", BatchEndLocks)
    /\ UNCHANGED <<data, flags, tc>>

\* A batch timer expires: batch_timeout_taskq_ runs the callback.
BatchTimeOut ==
    /\ th["timer"].op = "idle" /\ timer.armed > 0
    /\ \/ timer.mine /\ timer' = [armed |-> timer.armed - 1, mine |-> FALSE]
       \/ /\ timer.armed > IF timer.mine THEN 1 ELSE 0
          /\ timer' = [timer EXCEPT !.armed = @ - 1]
    /\ Begin("timer", "BATCH_END", "batch_end", BatchEndLocks)
    /\ UNCHANGED <<data, batch, dirty, import, commit, audit, alarms, tc>>

\* OnBatchEnd, for the user and for the timer: it commits in any case, and cancels
\* the timer unless it is the timer.
OnBatchEnd(t) ==
    /\ At(t, "batch_end")
    /\ batch' = [batch EXCEPT !.on = FALSE, !.lost = FALSE]
    /\ timer' = IF ~batch.on THEN timer
                ELSE IF t = "timer" THEN [timer EXCEPT !.mine = FALSE]
                ELSE Cancelled(timer)
    /\ \E stored \in BOOLEAN : Close(stored)
    /\ End(t, TRUE)
    /\ UNCHANGED <<dirty, import, commit, audit, alarms>>

----------------------------------------------------------------------------
(* DbCommitIfInBatchMode, with which most other operations begin *)

\* What each of them does next, and under which locks.
AfterDbCommit(op) ==
    CASE op = "IMPORT" -> <<"import_enter", {W("MUTEX")}>>
      [] op = "MERGE" -> <<"merge_enter", {W("MUTEX")}>>
      [] op = "CLEAR_IMPORT" -> <<"clear_import", {W("IMPORT")}>>
      [] op = "TX_START" -> <<"tx_start", TxStartLocks>>
      [] op = "SAVE" -> <<"clear_startup", SaveLocks>>
      [] op = "CLEAR_STARTUP" -> <<"clear_startup", {W("START")}>>
      [] op = "ABORT" -> <<"copy_cand", EditLocks>>

\* The mutant of Fail: the handler leaves the end to TC.
FailWithoutEnd(t) == End(t, FALSE)

\* A failed start of a transaction or of an audit is ended by its handler, which
\* TC does not do then.
Fail(t) ==
    \/ /\ \/ th[t].op = "TX_START" /\ Go(t, "TX_START", "tx_end", TxEndLocks)
          \/ th[t].op = "AUDIT_START" /\ Go(t, "AUDIT_START", "audit_end", {W("AUDIT")})
       /\ Release(t)
       /\ UNCHANGED tc
    \/ th[t].op \notin {"TX_START", "AUDIT_START"} /\ End(t, FALSE)

\* All the locks but import_mutex_lock_ are released before the operation goes on.
DbCommitIfInBatchMode(t) ==
    /\ At(t, "db_commit")
    /\ \/ /\ IF batch.on THEN Close(TRUE) ELSE UNCHANGED data
          /\ IF th[t].op = "BATCH_START" THEN End(t, TRUE)
             ELSE LET after == AfterDbCommit(th[t].op)
                  IN /\ Go(t, th[t].op, after[1], after[2])
                     /\ held' = [held EXCEPT ![t] = [NoLock EXCEPT !["MUTEX"] = held[t]["MUTEX"]]]
                     /\ UNCHANGED tc
       \/ batch.on /\ Close(FALSE) /\ Fail(t)
    /\ UNCHANGED flags

----------------------------------------------------------------------------
(* Import, merge and clear *)

ImportStart ==
    /\ UserFree
    /\ \/ \E op \in {"IMPORT", "MERGE"} : Begin("user", op, "db_commit", AllWrite)
       \/ Begin("user", "CLEAR_IMPORT", "clear_enter", {W("MUTEX")})
    /\ UNCHANGED <<data, flags, tc>>

\* Under import_mutex_lock_: a new import needs that none is in progress, a merge
\* and a clear that one is.  A merge locks the import configuration for reading or
\* for writing, after the type of the import.
ImportEnter(t) ==
    /\ \/ At(t, "import_enter") /\ ~import /\ Begin(t, "IMPORT", "validate", ImportLocks)
       \/ /\ At(t, "merge_enter") /\ import
          /\ \E mode \in {"R", "W"} : Begin(t, "MERGE", "validate", MergeLocks(mode))
       \/ At(t, "clear_enter") /\ import /\ Begin(t, "CLEAR_IMPORT", "db_commit", AllWrite)
    /\ UNCHANGED <<data, flags, tc>>

ImportRefused(t) ==
    /\ \/ At(t, "import_enter") /\ import
       \/ (At(t, "merge_enter") \/ At(t, "clear_enter")) /\ ~import
    /\ End(t, FALSE)
    /\ UNCHANGED <<data, flags>>

\* ValidateImport: several checks that ask others, then the candidate must be clean.
\* A merge that is refused rolls its transaction back.
ValidateImport(t) ==
    /\ At(t, "validate")
    /\ \/ /\ IsCandidateDirtyNoLock(TRUE) /\ ~DirtyNow
          /\ Step(t, "import_write", TRUE)
          /\ import' = TRUE
          /\ UNCHANGED tc
       \/ /\ IF th[t].op = "MERGE"
             THEN Close(FALSE) /\ dirty' \in {dirty, DirtyChecked}
             ELSE IsCandidateDirtyNoLock(TRUE) \/ UNCHANGED <<data, dirty>>
          /\ End(t, FALSE)
          /\ UNCHANGED import
    /\ UNCHANGED <<batch, timer, commit, audit, alarms>>

\* ImportCtrlrConfig, or MergeValidate, MergeImportToCandidate and PurgeCandidate.
ImportWrite(t) ==
    /\ At(t, "import_write")
    /\ \/ /\ th[t].op = "IMPORT"
          /\ \E ok \in BOOLEAN : Write("IMPORT", Imported, ok) /\ Step(t, "import_close", ok)
       \/ /\ th[t].op = "MERGE"
          /\ \/ \E c \in Configs : Write("CAND", c, TRUE) /\ Step(t, "import_close", TRUE)
             \/ Write("CAND", Mixed, FALSE) /\ Step(t, "import_close", FALSE)
    /\ UNCHANGED <<flags, tc>>

\* The mutant of ImportClose: a failed import returns without the rollback.
ImportCloseOnSuccess(t) ==
    /\ At(t, "import_close")
    /\ IF th[t].ok THEN Close(TRUE) ELSE UNCHANGED data
    /\ import' = (th[t].op = "MERGE" \/ th[t].ok)
    /\ dirty' = [dirty EXCEPT !.qc = @ \/ (th[t].op = "MERGE" /\ th[t].ok)]
    /\ End(t, th[t].ok)
    /\ UNCHANGED <<batch, timer, commit, audit, alarms>>

\* DalTxClose at the end of an import or a merge.
ImportClose(t) ==
    /\ At(t, "import_close")
    /\ Close(th[t].ok)
    /\ import' = (th[t].op = "MERGE" \/ th[t].ok)
    /\ dirty' = [dirty EXCEPT !.qc = @ \/ (th[t].op = "MERGE" /\ th[t].ok)]
    /\ End(t, th[t].ok)
    /\ UNCHANGED <<batch, timer, commit, audit, alarms>>

\* ClearImport: ImportClear of every key type, then the commit.
ClearImport(t) ==
    /\ \/ /\ At(t, "clear_import")
          /\ \E ok \in BOOLEAN : Write("IMPORT", Empty, ok) /\ Step(t, "clear_close", ok)
          /\ UNCHANGED <<import, tc>>
       \/ /\ At(t, "clear_close")
          /\ Close(th[t].ok)
          /\ import' = ~th[t].ok
          /\ End(t, th[t].ok)
    /\ UNCHANGED <<batch, timer, dirty, commit, audit, alarms>>

----------------------------------------------------------------------------
(* Operations of TC *)

\* TC passes on a commit or an abort of the session that has the configuration mode,
\* or a save or a clear of any session, whatever requests UPLL is serving, or audits
\* a controller.
TcStart ==
    /\ TcFree
    /\ \/ \E op \in {"SAVE", "CLEAR_STARTUP", "ABORT"} :
             /\ tc' = [tc EXCEPT !.oper = op]
             /\ Begin("tc", op, "db_commit", AllWrite)
       \/ \E op \in {"COMMIT", "AUDIT"} :
             /\ ~tc.stuck
             /\ tc' = [tc EXCEPT !.oper = op,
                                !.next = IF op = "COMMIT" THEN "TX_START" ELSE "AUDIT_START"]
             /\ UNCHANGED <<th, held>>
    /\ UNCHANGED <<data, flags>>

\* TC calls the next handler of its transaction.
Calls(op) == th["tc"].op = "idle" /\ tc.next = op

\* OnTxStart marks the commit and commits the batch; a commit that is still marked
\* makes it fail, and HandleCommitTransactionStart ends that one.
OnTxStart ==
    /\ Calls("TX_START")
    /\ commit' = TRUE
    /\ IF commit THEN Begin("tc", "TX_START", "tx_end", TxEndLocks)
                 ELSE Begin("tc", "TX_START", "db_commit", AllWrite)
    /\ UNCHANGED <<data, batch, timer, dirty, import, audit, alarms, tc>>

\* It then sends the differences of candidate and running to the controllers.  A
\* missing driver is an error that rolls back but that TC is not told of.
TxUpdateController(t) ==
    /\ At(t, "tx_start")
    /\ \/ \E sent \in BOOLEAN : Close(sent) /\ End(t, TRUE)
       \/ Close(FALSE) /\ Fail(t)
    /\ UNCHANGED flags

OnTxVoteStart ==
    /\ \E op \in {"TX_VOTE", "TX_VOTE_RESULT"} :
          Calls(op) /\ Begin("tc", op, "tx_vote", TxVoteLocks)
    /\ UNCHANGED <<data, flags, tc>>

\* OnTxVote, and OnTxVoteCtrlrStatus after which the path fault semaphore is posted.
OnTxVote(t) ==
    /\ At(t, "tx_vote")
    /\ \E ok \in BOOLEAN : Close(ok) /\ End(t, ok)
    /\ alarms' = (alarms /\ th[t].op = "TX_VOTE")
    /\ UNCHANGED <<batch, timer, dirty, import, commit, audit>>

\* HandleCommitGlobalCommit and HandleAuditGlobalCommit hold path fault alarms up,
\* then return the controllers, or fail.
GlobalCommit ==
    /\ Calls("TX_GLOBAL") \/ Calls("AUDIT_GLOBAL")
    /\ alarms' = TRUE
    /\ \E ok \in BOOLEAN : Proceed(tc.next, ok)
    /\ UNCHANGED <<data, th, held, batch, timer, dirty, import, commit, audit>>

OnTxResultStart ==
    /\ Calls("TX_RESULT")
    /\ Begin("tc", "TX_RESULT", "copy_run", TxEndLocks)
    /\ UNCHANGED <<data, flags, tc>>

\* TxCopyCandidateToRunning of every key type.
TxCopyCandidateToRunning(t) ==
    /\ At(t, "copy_run")
    /\ \E ok \in BOOLEAN : Write("RUN", view["CAND"], ok) /\ Step(t, "tx_result", ok)
    /\ UNCHANGED <<flags, tc>>

\* OnTxCommitCtrlrStatus closes, the candidate is then clean, and
\* HandleCommitDriverResult lets path fault alarms go on.
OnTxCommitCtrlrStatus(t) ==
    /\ At(t, "tx_result")
    /\ Close(th[t].ok)
    /\ dirty' = IF th[t].ok THEN [qc |-> FALSE, init |-> TRUE] ELSE dirty
    /\ alarms' = FALSE
    /\ End(t, th[t].ok)
    /\ UNCHANGED <<batch, timer, import, commit, audit>>

OnTxEndStart ==
    /\ Calls("TX_END")
    /\ Begin("tc", "TX_END", "tx_end", TxEndLocks)
    /\ UNCHANGED <<data, flags, tc>>

\* OnTxEnd forgets the commit whether or not its database operations succeed.
OnTxEnd(t) ==
    /\ At(t, "tx_end")
    /\ \E ok \in BOOLEAN : Close(ok)
    /\ commit' = FALSE
    /\ End(t, FALSE)
    /\ UNCHANGED <<batch, timer, dirty, import, audit, alarms>>

----------------------------------------------------------------------------
(* Save, clear and abort *)

\* ClearConfiguration or ClearStartup of every key type.
ClearStartup(t) ==
    /\ At(t, "clear_startup")
    /\ \/ /\ Write("START", Empty, TRUE)
          /\ Step(t, IF th[t].op = "SAVE" THEN "copy_startup" ELSE "startup_close", TRUE)
          /\ UNCHANGED tc
       \/ Close(FALSE) /\ End(t, FALSE)
    /\ UNCHANGED flags

\* CopyRunningToStartup inserts the rows of running: a startup configuration that
\* has not been cleared becomes a mixture.
CopyRunningToStartup(t) ==
    /\ At(t, "copy_startup")
    /\ \E ok \in BOOLEAN :
          /\ Write("START", view["RUN"], ok /\ view["START"] = Empty)
          /\ Step(t, "startup_close", ok)
    /\ UNCHANGED <<flags, tc>>

\* OnSaveRunningConfig and OnClearStartupConfig end with the commit.
StartupClose(t) ==
    /\ At(t, "startup_close")
    /\ Close(th[t].ok)
    /\ End(t, th[t].ok)
    /\ UNCHANGED flags

\* OnAbortCandidateConfig deletes, creates and updates rows of the candidate, then
\* closes; the candidate is clean after it.
CopyRunningToCandidate(t) ==
    /\ At(t, "copy_cand")
    /\ \/ Write("CAND", Mixed, FALSE) /\ Step(t, "copy_cand_rest", TRUE) /\ UNCHANGED tc
       \/ Close(FALSE) /\ End(t, FALSE)
    /\ UNCHANGED flags

OnAbortCandidateConfig(t) ==
    /\ At(t, "copy_cand_rest")
    /\ \/ /\ view' = [view EXCEPT !["CAND"] = IF @ = Mixed THEN view["RUN"] ELSE Mixed]
          /\ db' = view'
          /\ written' = FALSE /\ pending' = 0
          /\ dirty' = [qc |-> FALSE, init |-> TRUE]
          /\ End(t, TRUE)
       \/ Close(FALSE) /\ End(t, FALSE) /\ UNCHANGED dirty
    /\ UNCHANGED <<batch, timer, import, commit, audit, alarms>>

----------------------------------------------------------------------------
(* Audits, which have a database connection of their own *)

\* OnAuditStart.  An audit that is still marked makes it fail; HandleAuditStart
\* then ends that one if it is of the same controller.  A simplified audit does
\* not read the controller's configuration.
OnAuditStart ==
    /\ Calls("AUDIT_START")
    /\ audit' = TRUE
    /\ \/ audit /\ Begin("tc", "AUDIT_START", "audit_end", {W("AUDIT")}) /\ UNCHANGED tc
       \/ audit /\ Proceed("AUDIT_START", FALSE) /\ UNCHANGED <<th, held>>
       \/ ~audit /\ Begin("tc", "AUDIT_START", "audit_db", AuditStartLocks) /\ UNCHANGED tc
       \/ ~audit /\ Proceed("AUDIT_START", TRUE) /\ UNCHANGED <<th, held>>
    /\ UNCHANGED <<data, batch, timer, dirty, import, commit, alarms>>

\* OnAuditTxStart, OnAuditTxVoteCtrlrStatus, OnAuditTxCommitCtrlrStatus, OnAuditEnd.
AuditCall ==
    /\ \/ \E op \in {"AUDIT_TX_START", "AUDIT_VOTE_RESULT", "AUDIT_RESULT"} :
             Calls(op) /\ Begin("tc", op, "audit_db", AuditTxLocks)
       \/ Calls("AUDIT_END") /\ Begin("tc", "AUDIT_END", "audit_end", {W("AUDIT")})
    /\ UNCHANGED <<data, flags, tc>>

AuditDb(t) ==
    /\ At(t, "audit_db")
    /\ End(t, TRUE) \/ Fail(t)
    /\ alarms' = (alarms /\ th[t].op \notin {"AUDIT_VOTE_RESULT", "AUDIT_RESULT"})
    /\ UNCHANGED <<data, batch, timer, dirty, import, commit, audit>>

\* OnAuditEnd returns before it forgets the audit when the database fails.
OnAuditEnd(t) ==
    /\ At(t, "audit_end")
    /\ audit' \in BOOLEAN
    /\ End(t, FALSE)
    /\ UNCHANGED <<data, batch, timer, dirty, import, commit, alarms>>

----------------------------------------------------------------------------
(* Specification *)

\* A node that has just become active: the candidate may differ from running, and
\* the dirty flag is not initialised.  An audit stays marked if OnAuditEnd fails there.
Init ==
    /\ db \in [Datatypes -> Configs \cup {Empty}]
    /\ db["IMPORT"] = Empty /\ {db["CAND"], db["RUN"]} \subseteq Configs
    /\ view = db /\ written = FALSE /\ pending = 0
    /\ th = [t \in Threads |-> Idle]
    /\ held = [t \in Threads |-> NoLock]
    /\ batch = [on |-> FALSE, cnt |-> 0, lost |-> FALSE]
    /\ timer = [armed |-> 0, mine |-> FALSE]
    /\ dirty = [qc |-> TRUE, init |-> FALSE]
    /\ import = FALSE /\ commit = FALSE /\ audit \in BOOLEAN /\ alarms = FALSE
    /\ tc = [oper |-> "none", next |-> "none", stuck |-> FALSE]

Start ==
    \/ EditStart \/ OnBatchStart \/ OnBatchAlive \/ BatchEndStart
    \/ BatchTimeOut \/ ImportStart \/ TcStart \/ OnTxStart \/ OnTxVoteStart
    \/ GlobalCommit \/ OnTxResultStart \/ OnTxEndStart \/ OnAuditStart \/ AuditCall
    \/ \E t \in Threads : ReadStart(t) \/ DirtyStart(t)

Body(t) ==
    \/ EditWrite(t) \/ EditClose(t) \/ Read(t) \/ IsCandidateDirty(t) \/ OnBatchEnd(t)
    \/ DbCommitIfInBatchMode(t) \/ ImportEnter(t) \/ ImportRefused(t)
    \/ ValidateImport(t) \/ ImportWrite(t) \/ ImportClose(t) \/ ClearImport(t)
    \/ TxUpdateController(t) \/ OnTxVote(t) \/ TxCopyCandidateToRunning(t)
    \/ OnTxCommitCtrlrStatus(t) \/ OnTxEnd(t) \/ ClearStartup(t)
    \/ CopyRunningToStartup(t) \/ StartupClose(t) \/ CopyRunningToCandidate(t)
    \/ OnAbortCandidateConfig(t) \/ AuditDb(t) \/ OnAuditEnd(t)

Busy == {t \in Threads : th[t].op # "idle"}

Next == Start \/ \E t \in Busy : IF th[t].want # {} THEN Lock(t) ELSE Body(t)

Spec == Init /\ [][Next]_vars

----------------------------------------------------------------------------
(* Properties *)

Content == Configs \cup {Empty, Mixed, Imported}

\* The variables have their types, and the batch counter stays below the limit at
\* which EditClose commits and resets it.
TypeOK ==
    /\ db \in [Datatypes -> Content] /\ view \in [Datatypes -> Content]
    /\ \A t \in Threads : held[t] \in [LockNames -> {"-", "R", "W"}] /\ th[t].ok \in BOOLEAN
    /\ batch \in [on : BOOLEAN, cnt : 0..(CommitLimit - 1), lost : BOOLEAN]
    /\ timer \in [armed : 0..MaxTimers, mine : BOOLEAN]
    /\ dirty \in [qc : BOOLEAN, init : BOOLEAN]
    /\ {import, commit, audit, alarms} \subseteq BOOLEAN
    /\ written \in BOOLEAN /\ pending \in Nat

Waiting == {t \in Threads : th[t].want # {}}

\* t waits for a lock that u holds.
WaitsFor(t, u) ==
    /\ t # u
    /\ \E l \in First(th[t].want) :
          IF l.mode = "R" THEN held[u][l.on] = "W" ELSE held[u][l.on] # "-"

\* No threads wait for the locks of each other in a circle: ConfigLock takes locks
\* "always ... in the same order", whatever the request, the batch timer included.
NoCircularWait ==
    ~\E S \in (SUBSET Waiting) \ {{}} : \A t \in S : \E u \in S : WaitsFor(t, u)

\* t has written a part of candidate or running that it has yet to commit or drop.
HalfWritten(t) ==
    /\ th[t].op \in {"EDIT", "MERGE", "ABORT", "TX_RESULT"}
    /\ th[t].pc \in {"edit_close", "import_close", "copy_cand_rest", "tx_result"}

\* u is about to commit or to roll back the shared connection.
Closing(u) ==
    \E pc \in {"edit_close", "read", "dirty", "batch_end", "db_commit", "validate",
               "import_close", "clear_close", "tx_start", "tx_vote", "tx_result", "tx_end",
               "clear_startup", "startup_close", "copy_cand", "copy_cand_rest"} : At(u, pc)

\* The locks of the candidate make up for the shared connection: what a request has
\* written of candidate or running is not committed half done, and not dropped, by
\* another request that reads or writes one of these, the batch timer and the phases
\* of a commit included.  Only a save, a clear of startup and a clear of the import,
\* which do not lock the candidate, can do that.
WritersIsolated ==
    \A t, u \in Threads :
       t # u /\ HalfWritten(t) /\ Closing(u) =>
          th[u].op \in {"SAVE", "CLEAR_STARTUP", "CLEAR_IMPORT"}

\* Edits that were answered with success and are not committed are fewer than
\* batch_commit_limit_, and there are none outside batch mode: so many are lost at
\* most when the process dies, a later edit of the batch fails, or any other request
\* rolls back the shared connection.
LossIsBounded == pending <= IF batch.on THEN CommitLimit - 1 ELSE 0

\* "Copying Running configuration to Startup": what a save is about to commit and to
\* report as saved is the running configuration.
SaveCopiesRunning ==
    \A t \in Threads : th[t].op = "SAVE" /\ th[t].pc = "startup_close" /\ th[t].ok =>
       view["START"] = view["RUN"]

\* Writes are uncommitted only in batch mode or while the request that made them is
\* under way: what was acknowledged outside batch mode survives a crash, and leaving
\* batch mode, by request or by the timer, commits the batch.
AcknowledgedIsDurable ==
    view # db =>
       \/ batch.on
       \/ \E t \in Threads : th[t].pc \in
             {"edit_close", "import_close", "clear_close", "tx_result",
              "copy_startup", "startup_close", "copy_cand_rest"}

\* A batch always ends: in batch mode a timer is armed or its callback is under way,
\* unless the client was told that its timer could not be armed again.
BatchHasTimer ==
    batch.on /\ ~batch.lost => timer.armed > 0 \/ th["timer"].op # "idle"

\* What a transaction marks in UPLL it takes back, unless TC gave it up with a system
\* failure: a commit is in progress only while TC runs one, so that no later one is
\* refused with "Another commit is in progress", and path fault alarms wait only
\* between a global commit and its result.
MarksAreTakenBack ==
    tc.stuck \/ /\ commit => tc.oper = "COMMIT"
                /\ alarms => tc.next \in {"TX_RESULT", "AUDIT_RESULT"}

\* "Checks if candidate configuration is not same as running configuration": once no
\* change is being written, a clear dirty flag means that the two are the same.
DirtyFlagSound ==
    dirty.qc \/ view["CAND"] = view["RUN"]
             \/ \E t \in Threads : th[t].pc \in {"edit_close", "import_close", "tx_result", "copy_cand_rest"}
=============================================================================
