------------------------------- MODULE TcLock -------------------------------
(***************************************************************************)
(* The lock table of the Transaction Coordinator: tc_lock.cc and the       *)
(* structures of tc_module_data.hh.                                        *)
(*                                                                         *)
(* Every method of TcLock runs under one global mutex (rw_mutex), so each  *)
(* is one step here.  A method is split in two: a predicate that says when *)
(* it returns TC_LOCK_SUCCESS, and the action it performs then.  A method  *)
(* that returns an error code changes nothing, with one exception that has *)
(* an action of its own (a second read request of the same session).       *)
(*                                                                         *)
(* Two threads may hold up the others.  The task-queue thread that runs a  *)
(* driver audit polls setup_complete_done_ while it holds the mutex (pc    *)
(* "spin"), and then sleeps on rw_cond until the write lock is free (pc    *)
(* "wait", and "woken" once it was signalled but has not run yet).  The    *)
(* state handler also has a waiting loop; TransitionNeverWaits of module   *)
(* TcOperations shows that its condition never holds, so r_waiter stays 0  *)
(* and is not a variable.                                                  *)
(***************************************************************************)
EXTENDS Integers, FiniteSets

CONSTANTS
    Sessions,       \* the session ids of the clients, all different from 0
    NoSession,      \* session id 0: nobody, the state handler, driver audits
    DbMgmt,         \* USESS_ID_DB_MGMT
    Launcher,       \* USESS_ID_LAUNCHER
    Simultaneous,   \* tc.conf: simultaneous_read_write_allowed
    UINT32_MAX      \* the largest config id, and the mark of a write lock

ASSUME TcLockAssumption ==
    /\ IsFiniteSet(Sessions)
    /\ NoSession \notin Sessions
    /\ DbMgmt # NoSession
    /\ Launcher # NoSession
    /\ DbMgmt # Launcher
    /\ Simultaneous \in BOOLEAN
    /\ UINT32_MAX \in Nat
    /\ Cardinality(Sessions) + 1 < UINT32_MAX

VARIABLES
    \* struct TcConfigLock
    config_id, session_id, marked_session_id,
    is_taken, is_notify_pending, notify_operation,
    \* struct TcReadLock
    read_sessions,
    \* class TcReadWriteLock
    rw_owner, r_owner, w_owner, r_db_mgmt_session, r_launcher_session,
    w_session_id, w_operation,
    \* struct TcStateLock
    current_state, state_transition_in_progress,
    \* struct TcAutoSave, and the flag of TcSetSetupComplete
    is_enable, setup_complete_done,
    \* the thread of the audit task queue, inside GetLock or holding the lock
    audit_pc

configVars == <<config_id, session_id, marked_session_id,
                is_taken, is_notify_pending, notify_operation>>
ownerVars  == <<rw_owner, r_owner, w_owner, r_db_mgmt_session,
                r_launcher_session>>
writerVars == <<w_session_id, w_operation>>
rwVars     == <<ownerVars, writerVars>>
stateVars  == <<current_state, state_transition_in_progress>>
lockVars   == <<configVars, read_sessions, rwVars, stateVars,
                is_enable, setup_complete_done, audit_pc>>

AnySession == Sessions \cup {NoSession}

TcState == {"INIT", "SBY", "ACT", "ACT_FAIL", "STOP"}

TcNotifyOperation == {"NONE", "ACQUIRE", "RELEASE"}

TcWriteOperation == {"NONE", "COMMIT", "AUDIT_USER", "AUDIT_DRIVER",
                     "ABORT_CANDIDATE", "SAVE_STARTUP", "CLEAR_STARTUP"}

\* The two write operations that belong to a configuration session.
CandidateWrite == {"COMMIT", "ABORT_CANDIDATE"}

AuditPc == {"idle", "spin", "wait", "woken", "write"}

RW_OWNER_WRLOCKED == UINT32_MAX
R_READERS_MAX     == UINT32_MAX - 1

\* No lock is held in state state; done: MSG_SETUP_COMPLETE was answered.
LockFree(state, done) ==
    /\ config_id = 0
    /\ session_id = NoSession
    /\ marked_session_id = NoSession
    /\ is_taken = FALSE
    /\ is_notify_pending = FALSE
    /\ notify_operation = "NONE"
    /\ read_sessions = {}
    /\ rw_owner = 0
    /\ r_owner = 0
    /\ w_owner = 0
    /\ r_db_mgmt_session = FALSE
    /\ r_launcher_session = FALSE
    /\ w_session_id = NoSession
    /\ w_operation = "NONE"
    /\ current_state = state
    /\ state_transition_in_progress = FALSE
    /\ is_enable = FALSE
    /\ setup_complete_done = done
    /\ audit_pc = "idle"

\* The value of every field when the process starts.
LockInit == LockFree("INIT", FALSE)

-----------------------------------------------------------------------------
(* TcReadWriteLock *)

\* rw_mutex is free: no thread polls setup_complete_done_ while holding it.
MutexFree == audit_pc # "spin"

w_waiter == IF audit_pc \in {"wait", "woken"} THEN 1 ELSE 0

wakeUp == audit_pc' = IF audit_pc = "wait" THEN "woken" ELSE audit_pc

\* Wake up only if the reader count that the caller leaves behind is zero.
wakeUpIfNoReader(owner) ==
    IF owner = 0 THEN wakeUp ELSE UNCHANGED audit_pc

isWriteHeld ==
    IF Simultaneous THEN w_owner = RW_OWNER_WRLOCKED
                    ELSE rw_owner = RW_OWNER_WRLOCKED

\* A commit or an abort of the candidate configuration is being executed.
CandidateWriteHeld == isWriteHeld /\ w_operation \in CandidateWrite

\* A slip in canReadLock: a writer that waits is respected, one at work is not.
canReadLockWaiterOnly(s) == w_waiter = 0

canReadLock(s) ==
    IF Simultaneous
    THEN s \in {DbMgmt, Launcher} => w_owner # RW_OWNER_WRLOCKED /\ w_waiter = 0
    ELSE rw_owner # RW_OWNER_WRLOCKED /\ w_waiter = 0

\* A slip in canWriteLock: the count of the other mode is looked at.
canWriteLockOtherCount == w_owner = 0

canWriteLock ==
    IF Simultaneous
    THEN ~r_db_mgmt_session /\ ~r_launcher_session /\ w_owner = 0
    ELSE rw_owner = 0

setReader(s) ==
    /\ IF Simultaneous
       THEN /\ r_owner' = r_owner + 1
            /\ r_db_mgmt_session' = (s = DbMgmt \/ r_db_mgmt_session)
            /\ r_launcher_session' = (s = Launcher \/ r_launcher_session)
            /\ UNCHANGED rw_owner
       ELSE /\ rw_owner' = rw_owner + 1
            /\ UNCHANGED <<r_owner, r_db_mgmt_session, r_launcher_session>>
    /\ UNCHANGED <<w_owner, writerVars>>

unlockReader(s) ==
    /\ IF Simultaneous
       THEN /\ r_owner' = r_owner - 1
            /\ r_db_mgmt_session' = (s # DbMgmt /\ r_db_mgmt_session)
            /\ r_launcher_session' = (s # Launcher /\ r_launcher_session)
            /\ UNCHANGED rw_owner
            /\ wakeUpIfNoReader(r_owner - 1)
       ELSE /\ rw_owner' = rw_owner - 1
            /\ UNCHANGED <<r_owner, r_db_mgmt_session, r_launcher_session>>
            /\ wakeUpIfNoReader(rw_owner - 1)
    /\ UNCHANGED <<w_owner, writerVars>>

setWriter(s, operation) ==
    /\ IF Simultaneous
       THEN w_owner' = RW_OWNER_WRLOCKED /\ UNCHANGED rw_owner
       ELSE rw_owner' = RW_OWNER_WRLOCKED /\ UNCHANGED w_owner
    /\ w_session_id' = s
    /\ w_operation' = operation
    /\ UNCHANGED <<r_owner, r_db_mgmt_session, r_launcher_session>>

\* unlock(session_id, operation) returns true.
canUnlockWriter(s, operation) ==
    isWriteHeld /\ w_session_id = s /\ w_operation = operation

\* A slip in unlock: the sleepers are not woken.
unlockWriterSilent ==
    /\ w_session_id' = NoSession
    /\ w_operation' = "NONE"
    /\ rw_owner' = 0
    /\ w_owner' = 0
    /\ UNCHANGED <<r_owner, r_db_mgmt_session, r_launcher_session, audit_pc>>

unlockWriter ==
    /\ w_session_id' = NoSession
    /\ w_operation' = "NONE"
    /\ rw_owner' = 0
    /\ w_owner' = 0
    /\ UNCHANGED <<r_owner, r_db_mgmt_session, r_launcher_session>>
    /\ wakeUp

-----------------------------------------------------------------------------
(* State transitions *)

\* An operation is checked against the state before it takes any lock.
TcOperationIsAllowed(s, operation) ==
    /\ \/ current_state = "ACT"
       \/ /\ current_state \in {"SBY", "ACT_FAIL"}
          /\ operation \in {"READ", "STATE_TRANSITION"}
       \/ current_state = "INIT" /\ operation = "STATE_TRANSITION"
    /\ current_state = "ACT" =>
         marked_session_id = NoSession \/ marked_session_id # s

\* GetLock: the mutex is taken and the operation is allowed.
MayGetLock(s, operation) == MutexFree /\ TcOperationIsAllowed(s, operation)

\* The state is changed unless TC has stopped, and the sleepers are woken.
TcUpdateUncState(new_state) ==
    /\ MutexFree
    /\ IF current_state \notin {new_state, "STOP"}
       THEN current_state' = new_state /\ wakeUp
       ELSE UNCHANGED <<current_state, audit_pc>>
    /\ UNCHANGED <<configVars, read_sessions, rwVars,
                   state_transition_in_progress, is_enable,
                   setup_complete_done>>

\* The loop of TcAcquireReadLockForStateTransition would put the caller to
\* sleep.
TransitionMustWait ==
    ~canReadLock(NoSession) \/ state_transition_in_progress

TcAcquireReadLockForStateTransition ==
    /\ MayGetLock(NoSession, "STATE_TRANSITION")
    /\ ~TransitionMustWait
    /\ state_transition_in_progress' = TRUE
    /\ setReader(NoSession)
    /\ UNCHANGED <<configVars, read_sessions, current_state, is_enable,
                   setup_complete_done, audit_pc>>

TcReleaseReadLockForStateTransition ==
    /\ MutexFree
    /\ state_transition_in_progress
    /\ state_transition_in_progress' = FALSE
    /\ unlockReader(NoSession)
    /\ UNCHANGED <<configVars, read_sessions, current_state, is_enable,
                   setup_complete_done>>

\* config_id is retained; the owner counts become 1, the state handler's own
\* read lock; the state, its transition flag and sleeping threads are left.
ResetTcGlobalDataOnStateTransition ==
    /\ MutexFree
    /\ session_id' = NoSession
    /\ marked_session_id' = NoSession
    /\ notify_operation' = "NONE"
    /\ is_notify_pending' = FALSE
    /\ is_taken' = FALSE
    /\ read_sessions' = {}
    /\ rw_owner' = 1
    /\ r_owner' = 1
    /\ w_owner' = 0
    /\ r_db_mgmt_session' = FALSE
    /\ r_launcher_session' = FALSE
    /\ w_session_id' = NoSession
    /\ w_operation' = "NONE"
    /\ is_enable' = FALSE
    /\ setup_complete_done' = FALSE
    /\ UNCHANGED <<config_id, stateVars, audit_pc>>

-----------------------------------------------------------------------------
(* The configuration session *)

\* A slip in GetConfigId: ++ on a uint32_t without the test.
GetConfigIdWraps(id) == (id + 1) % (UINT32_MAX + 1)

\* TC_START_CONFIG_ID is 1.
GetConfigId(id) == IF id = UINT32_MAX THEN 1 ELSE id + 1

UpdateConfigData(s) ==
    /\ session_id' = s
    /\ config_id' = GetConfigId(config_id)
    /\ is_taken' = TRUE
    /\ is_notify_pending' = TRUE
    /\ notify_operation' = "ACQUIRE"
    /\ UNCHANGED marked_session_id

canAcquireConfigLock(s) ==
    /\ MayGetLock(s, "CONFIG")
    /\ ~state_transition_in_progress
    /\ ~is_taken
    /\ ~is_notify_pending

AcquireConfigLock(s) ==
    /\ canAcquireConfigLock(s)
    /\ UpdateConfigData(s)
    /\ UNCHANGED <<read_sessions, rwVars, stateVars, is_enable,
                   setup_complete_done, audit_pc>>

canForceAcquireConfigLock(s) ==
    /\ MayGetLock(s, "FORCE_CONFIG")
    /\ ~state_transition_in_progress
    /\ ~is_notify_pending
    /\ ~(is_taken /\ CandidateWriteHeld)

ForceAcquireConfigLock(s) ==
    /\ canForceAcquireConfigLock(s)
    /\ UpdateConfigData(s)
    /\ UNCHANGED <<read_sessions, rwVars, stateVars, is_enable,
                   setup_complete_done, audit_pc>>

\* A slip in ReleaseConfigLock: the writer is not looked at.
canReleaseConfigUnderWriter(s, id) ==
    is_taken /\ s = session_id /\ id = config_id /\ ~is_notify_pending

canReleaseConfigLock(s, id) ==
    /\ is_taken
    /\ s = session_id
    /\ id = config_id
    /\ ~is_notify_pending
    /\ ~CandidateWriteHeld

\* ReleaseLock does not check the state.
ReleaseConfigLock(s, id) ==
    /\ MutexFree
    /\ canReleaseConfigLock(s, id)
    /\ is_notify_pending' = TRUE
    /\ notify_operation' = "RELEASE"
    /\ is_taken' = FALSE
    /\ UNCHANGED <<config_id, session_id, marked_session_id, read_sessions,
                   rwVars, stateVars, is_enable, setup_complete_done,
                   audit_pc>>

canNotifyDone(id, s, operation) ==
    notify_operation = operation /\ session_id = s /\ config_id = id

NotifyConfigIdSessionIdDone(id, s, operation) ==
    /\ MutexFree
    /\ canNotifyDone(id, s, operation)
    /\ notify_operation' = "NONE"
    /\ is_notify_pending' = FALSE
    /\ session_id' = IF operation = "RELEASE" THEN NoSession ELSE session_id
    /\ marked_session_id' =
         IF marked_session_id = s THEN NoSession ELSE marked_session_id
    /\ UNCHANGED <<config_id, is_taken, read_sessions, rwVars, stateVars,
                   is_enable, setup_complete_done, audit_pc>>

\* GetConfigIdSessionId returns TC_LOCK_SUCCESS.
ConfigSessionExists == current_state = "ACT" /\ is_taken

canMarkSessionId(s) ==
    is_taken /\ marked_session_id = NoSession /\ s = session_id

TcMarkSessionId(s) ==
    /\ MutexFree
    /\ canMarkSessionId(s)
    /\ marked_session_id' = s
    /\ UNCHANGED <<config_id, session_id, is_taken, is_notify_pending,
                   notify_operation, read_sessions, rwVars, stateVars,
                   is_enable, setup_complete_done, audit_pc>>

\* What a session is doing, in the order in which the code asks.
GetSessionOperation(s) ==
    IF isWriteHeld /\ w_session_id = s
       /\ (w_operation \in CandidateWrite => is_taken)
    THEN w_operation
    ELSE IF (is_taken \/ is_notify_pending) /\ session_id = s
    THEN IF notify_operation = "NONE" THEN "CONFIG" ELSE "NOTIFY"
    ELSE IF s \in read_sessions THEN "READ" ELSE "NO_OPERATION"

-----------------------------------------------------------------------------
(* Read sessions *)

\* A slip in AcquireReadLock: the second insertion of a session goes unnoticed.
AcquireReadLockTwice(s) ==
    /\ MayGetLock(s, "READ")
    /\ canReadLock(s)
    /\ setReader(s)
    /\ read_sessions' = read_sessions \cup {s}
    /\ UNCHANGED <<configVars, stateVars, is_enable, setup_complete_done,
                   audit_pc>>

AcquireReadLock(s) ==
    /\ MayGetLock(s, "READ")
    /\ canReadLock(s)
    /\ s \notin read_sessions
    /\ setReader(s)
    /\ read_sessions' = read_sessions \cup {s}
    /\ UNCHANGED <<configVars, stateVars, is_enable, setup_complete_done,
                   audit_pc>>

\* TC_LOCK_ALREADY_ACQUIRED: the second lock of the session is taken and given
\* back.  The count is restored, but unlock(session_id) clears the flag of
\* DB_MGMT or LAUNCHER, and wakes the sleepers if the count were zero.
AcquireReadLockAgain(s) ==
    /\ MayGetLock(s, "READ")
    /\ canReadLock(s)
    /\ s \in read_sessions
    /\ IF Simultaneous
       THEN /\ r_db_mgmt_session' = (s # DbMgmt /\ r_db_mgmt_session)
            /\ r_launcher_session' = (s # Launcher /\ r_launcher_session)
            /\ wakeUpIfNoReader(r_owner)
       ELSE /\ UNCHANGED <<r_db_mgmt_session, r_launcher_session>>
            /\ wakeUpIfNoReader(rw_owner)
    /\ UNCHANGED <<configVars, read_sessions, rw_owner, r_owner, w_owner,
                   writerVars, stateVars, is_enable, setup_complete_done>>

ReleaseReadLock(s) ==
    /\ MutexFree
    /\ s \in read_sessions
    /\ read_sessions' = read_sessions \ {s}
    /\ unlockReader(s)
    /\ UNCHANGED <<configVars, stateVars, is_enable, setup_complete_done>>

-----------------------------------------------------------------------------
(* Write sessions *)

\* What a commit and an abort require of the configuration session.
OwnsConfigSession(s) ==
    is_taken /\ ~is_notify_pending /\ session_id = s

canAcquireWriteLock(s, operation) ==
    /\ MayGetLock(s, "WRITE")
    /\ operation \in CandidateWrite => OwnsConfigSession(s)
    /\ canWriteLock

\* All write operations but the driver audit: tryLock, never wait.
AcquireWriteLock(s, operation) ==
    /\ canAcquireWriteLock(s, operation)
    /\ setWriter(s, operation)
    /\ UNCHANGED <<configVars, read_sessions, stateVars, is_enable,
                   setup_complete_done, audit_pc>>

ReleaseWriteLock(s, operation) ==
    /\ MutexFree
    /\ canUnlockWriter(s, operation)
    /\ unlockWriter
    /\ UNCHANGED <<configVars, read_sessions, stateVars, is_enable,
                   setup_complete_done>>

\* The write operation that an auto save operation takes along.
AutoSaveWrite(oper) ==
    IF oper = "AUTOSAVE_ENABLE" THEN "CLEAR_STARTUP" ELSE "SAVE_STARTUP"

\* GetLock for the three auto save operations.  AUTOSAVE_GET takes the flag
\* only; if the write lock is refused the flag is given back.
AcquireAutoSave(s, oper) ==
    /\ MayGetLock(s, oper)
    /\ ~is_enable
    /\ is_enable' = TRUE
    /\ IF oper = "AUTOSAVE_GET"
       THEN UNCHANGED rwVars
       ELSE canWriteLock /\ setWriter(s, AutoSaveWrite(oper))
    /\ UNCHANGED <<configVars, read_sessions, stateVars, setup_complete_done,
                   audit_pc>>

\* ReleaseLock for the three; if the write lock is not held by the session the
\* flag is set again.
canReleaseAutoSave(s, oper) ==
    is_enable /\ (oper = "AUTOSAVE_GET" \/ canUnlockWriter(s, AutoSaveWrite(oper)))

ReleaseAutoSave(s, oper) ==
    /\ MutexFree
    /\ canReleaseAutoSave(s, oper)
    /\ is_enable' = FALSE
    /\ IF oper = "AUTOSAVE_GET"
       THEN UNCHANGED <<rwVars, audit_pc>>
       ELSE unlockWriter
    /\ UNCHANGED <<configVars, read_sessions, stateVars, setup_complete_done>>

-----------------------------------------------------------------------------
(* AcquireWriteLockForAuditDriver, on the thread of the audit task queue *)

\* GetLock takes the mutex and keeps it while it polls.
AuditEnter ==
    /\ audit_pc = "idle"
    /\ MayGetLock(NoSession, "WRITE")
    /\ audit_pc' = "spin"
    /\ UNCHANGED <<configVars, read_sessions, rwVars, stateVars, is_enable,
                   setup_complete_done>>

\* Take the write lock, or sleep until somebody broadcasts rw_cond.
AuditTryLock ==
    /\ IF canWriteLock
       THEN setWriter(NoSession, "AUDIT_DRIVER") /\ audit_pc' = "write"
       ELSE UNCHANGED rwVars /\ audit_pc' = "wait"
    /\ UNCHANGED <<configVars, read_sessions, stateVars, is_enable,
                   setup_complete_done>>

AuditSetupDone ==
    /\ audit_pc = "spin"
    /\ setup_complete_done
    /\ AuditTryLock

\* Two slips after the wait: the lock is not tested again; the state is not.
AuditWakeTakesLock ==
    /\ audit_pc = "woken"
    /\ TcOperationIsAllowed(NoSession, "WRITE")
    /\ setWriter(NoSession, "AUDIT_DRIVER")
    /\ audit_pc' = "write"
    /\ UNCHANGED <<configVars, read_sessions, stateVars, is_enable,
                   setup_complete_done>>
AuditWakeAnyState == audit_pc = "woken" /\ AuditTryLock

\* After the wait the state is checked again.
AuditWake ==
    /\ audit_pc = "woken"
    /\ IF TcOperationIsAllowed(NoSession, "WRITE")
       THEN AuditTryLock
       ELSE /\ audit_pc' = "idle"
            /\ UNCHANGED <<configVars, read_sessions, rwVars, stateVars,
                           is_enable, setup_complete_done>>

\* The audit is over.  If the lock was reset in between nothing is released.
AuditRelease ==
    /\ audit_pc = "write"
    /\ audit_pc' = "idle"
    /\ IF canUnlockWriter(NoSession, "AUDIT_DRIVER")
       THEN /\ w_session_id' = NoSession
            /\ w_operation' = "NONE"
            /\ rw_owner' = 0
            /\ w_owner' = 0
            /\ UNCHANGED <<r_owner, r_db_mgmt_session, r_launcher_session>>
       ELSE UNCHANGED rwVars
    /\ UNCHANGED <<configVars, read_sessions, stateVars, is_enable,
                   setup_complete_done>>

-----------------------------------------------------------------------------
LockTypeOK ==
    /\ config_id \in 0 .. UINT32_MAX
    /\ is_taken => config_id # 0
    /\ {session_id, marked_session_id, w_session_id} \subseteq AnySession
    /\ {is_taken, is_notify_pending, r_db_mgmt_session, r_launcher_session,
        state_transition_in_progress, is_enable, setup_complete_done}
         \subseteq BOOLEAN
    /\ notify_operation \in TcNotifyOperation
    /\ read_sessions \subseteq Sessions
    /\ {rw_owner, r_owner, w_owner} \subseteq 0 .. UINT32_MAX
    /\ w_operation \in TcWriteOperation
    /\ current_state \in TcState
    /\ audit_pc \in AuditPc
=============================================================================
