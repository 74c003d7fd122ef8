---------------------------- MODULE TcOperations ----------------------------
(***************************************************************************)
(* The Transaction Coordinator as the clients of its lock table see it:    *)
(* TcModule (tc_module.cc), the state handler (tc_unc_states.cc), and the  *)
(* operations dispatched for IPC requests (tc_operations.cc and the        *)
(* tc_*_operations.cc that specialise it).                                 *)
(*                                                                         *)
(* An IPC worker thread runs one operation at a time:                      *)
(*   Dispatch: HandleArgs -> TcGetExclusion -> Execute -> TcReleaseExclusion*)
(* and the mutex of the lock table is free between these phases, so the    *)
(* phases of different threads interleave.  What Execute sends to the      *)
(* other daemons is the subject of module TcTransaction; here it only      *)
(* takes time.  A failed Execute also releases the exclusion               *)
(* (RevokeOperation), so success and failure are the same step.            *)
(***************************************************************************)
EXTENDS TcLock

CONSTANTS
    Threads,         \* IPC worker threads, and callers of TcReleaseSession
    Services,        \* the operations that clients request
    SetupMayFail     \* may MSG_SETUP_COMPLETE, or the database, fail?

ASSUME TcOperationsAssumption ==
    /\ SetupMayFail \in BOOLEAN

VARIABLES
    thread,          \* thread[t]: the operation that t is executing
    handler_state,   \* UncStateHandler::state_
    handler_pc       \* where HandleStart, HandleAct or HandleStop is

vars == <<lockVars, thread, handler_state, handler_pc>>

ConfigOpers   == {"CONFIG_ACQUIRE", "CONFIG_ACQUIRE_FORCE", "CONFIG_RELEASE"}
CandOpers     == {"CANDIDATE_COMMIT", "CANDIDATE_ABORT"}
WriteOpers    == CandOpers \cup {"USER_AUDIT", "RUNNING_SAVE", "CLEAR_STARTUP"}
AutoSaveOpers == {"AUTOSAVE_GET", "AUTOSAVE_ENABLE", "AUTOSAVE_DISABLE"}

\* Operations whose parameters are checked against the configuration session.
ValidatedOpers == CandOpers \cup {"CONFIG_RELEASE"}

Opers == ConfigOpers \cup WriteOpers \cup AutoSaveOpers
           \cup {"READ", "DRIVER_AUDIT", "RELEASE_SESSION", "NONE"}

Phase == {"idle", "exclusion", "execute", "notify", "marked",
          "mark", "session", "read"}

\* client: the session that asked; session_id, config_id: the fields of the
\* operation object.
Idle == [phase |-> "idle", oper |-> "NONE", client |-> NoSession,
         session_id |-> NoSession, config_id |-> 0]

Running(p, oper, s, id) ==
    [phase |-> p, oper |-> oper, client |-> s, session_id |-> s,
     config_id |-> id]

HandlerState == {"INIT", "SBY", "ACT", "FAILURE", "STOP"}
HandlerPc    == {"idle", "start", "started", "act", "setup", "complete",
                 "completing", "actfail", "done", "failed", "stopping"}

\* The handler holds the read lock of the state transition.
InTransition == handler_pc \notin {"idle", "stopping"}

Init ==
    /\ LockInit
    /\ thread = [t \in Threads |-> Idle]
    /\ handler_state = "INIT"
    /\ handler_pc = "idle"

-----------------------------------------------------------------------------
(* Operations *)

WriteOperation(oper) ==
    CASE oper = "CANDIDATE_COMMIT" -> "COMMIT"
      [] oper = "CANDIDATE_ABORT"  -> "ABORT_CANDIDATE"
      [] oper = "USER_AUDIT"       -> "AUDIT_USER"
      [] oper = "RUNNING_SAVE"     -> "SAVE_STARTUP"
      [] oper = "CLEAR_STARTUP"    -> "CLEAR_STARTUP"

handlerVars == <<handler_state, handler_pc>>

\* HandleArgs and TcValidateOperParams of a release, a commit or an abort: the
\* ids in the request are those of the configuration session.
Validate(t, s, oper) ==
    /\ thread[t] = Idle
    /\ MutexFree
    /\ ConfigSessionExists
    /\ session_id = s
    /\ thread' = [thread EXCEPT ![t] = Running("exclusion", oper, s, config_id)]
    /\ UNCHANGED <<lockVars, handlerVars>>

\* TcGetExclusion of an operation that takes its lock without more ado.  If the
\* lock is refused the request is answered and nothing has changed.
TcGetExclusion(t, s, oper) ==
    /\ thread[t] = Idle
    /\ \/ oper = "CONFIG_ACQUIRE" /\ AcquireConfigLock(s)
       \/ oper = "CONFIG_ACQUIRE_FORCE" /\ ForceAcquireConfigLock(s)
       \/ oper \in WriteOpers /\ AcquireWriteLock(s, WriteOperation(oper))
       \/ oper \in AutoSaveOpers /\ AcquireAutoSave(s, oper)
    /\ thread' = [thread EXCEPT ![t] = Running("execute", oper, s, 0)]
    /\ UNCHANGED handlerVars

\* TcGetExclusion of a commit or an abort.
TcGetCandidateExclusion(t) ==
    LET op == thread[t]
        wop == WriteOperation(op.oper)
    IN  /\ op.phase = "exclusion"
        /\ op.oper \in CandOpers
        /\ MutexFree
        /\ IF canAcquireWriteLock(op.session_id, wop)
           THEN /\ AcquireWriteLock(op.session_id, wop)
                /\ thread' = [thread EXCEPT ![t].phase = "execute"]
           ELSE UNCHANGED lockVars /\ thread' = [thread EXCEPT ![t] = Idle]
        /\ UNCHANGED handlerVars

\* TcGetExclusion of a release of the configuration session.
TcGetReleaseExclusion(t) ==
    LET op == thread[t]
    IN  /\ op.phase = "exclusion"
        /\ op.oper = "CONFIG_RELEASE"
        /\ MutexFree
        /\ IF canReleaseConfigLock(op.session_id, op.config_id)
           THEN /\ ReleaseConfigLock(op.session_id, op.config_id)
                /\ thread' = [thread EXCEPT ![t].phase = "notify"]
           ELSE UNCHANGED lockVars /\ thread' = [thread EXCEPT ![t] = Idle]
        /\ UNCHANGED handlerVars

\* FillTcMsgData of an acquisition reads back the ids it will notify: nothing is
\* written unless the state is ACT, and zeros if the session is gone.
FillTcMsgData(t) ==
    LET op == thread[t]
        s == IF current_state # "ACT" THEN op.session_id
             ELSE IF is_taken THEN session_id ELSE NoSession
        id == IF ConfigSessionExists THEN config_id ELSE 0
    IN  /\ op.phase = "execute"
        /\ op.oper \in {"CONFIG_ACQUIRE", "CONFIG_ACQUIRE_FORCE"}
        /\ MutexFree
        /\ thread' = [thread EXCEPT ![t] = [op EXCEPT !.phase = "notify",
                                            !.session_id = s, !.config_id = id]]
        /\ UNCHANGED <<lockVars, handlerVars>>

\* A slip in RevokeOperation: a failed notification leaves the exclusion.
ConfigNeverReleased(t) ==
    /\ thread[t].phase = "notify"
    /\ MutexFree
    /\ thread' = [thread EXCEPT ![t] = Idle]
    /\ UNCHANGED <<lockVars, handlerVars>>

\* TcReleaseExclusion of a configuration operation.
ConfigReleaseExclusion(t) ==
    LET op == thread[t]
        what == IF op.oper = "CONFIG_RELEASE" THEN "RELEASE" ELSE "ACQUIRE"
    IN  /\ op.phase = "notify"
        /\ MutexFree
        /\ IF canNotifyDone(op.config_id, op.session_id, what)
           THEN NotifyConfigIdSessionIdDone(op.config_id, op.session_id, what)
           ELSE UNCHANGED lockVars
        /\ thread' = [thread EXCEPT ![t] = Idle]
        /\ UNCHANGED handlerVars

\* TcReleaseExclusion of a write operation.  Only a commit or an abort that gave
\* the lock back goes on to look for a mark.
WriteReleaseExclusion(t) ==
    LET op == thread[t]
        wop == WriteOperation(op.oper)
    IN  /\ op.phase = "execute"
        /\ op.oper \in WriteOpers
        /\ MutexFree
        /\ IF canUnlockWriter(op.session_id, wop)
           THEN /\ ReleaseWriteLock(op.session_id, wop)
                /\ thread' = [thread EXCEPT ![t] =
                                IF op.oper \in CandOpers
                                THEN [@ EXCEPT !.phase = "marked"]
                                ELSE Idle]
           ELSE UNCHANGED lockVars /\ thread' = [thread EXCEPT ![t] = Idle]
        /\ UNCHANGED handlerVars

\* If the session was marked while it committed, its configuration session is
\* released on its behalf, with the ids of the candidate operation.
CheckMarkedSession(t) ==
    LET op == thread[t]
    IN  /\ op.phase = "marked"
        /\ MutexFree
        /\ thread' = [thread EXCEPT ![t] =
                        IF marked_session_id = op.session_id
                        THEN Running("exclusion", "CONFIG_RELEASE",
                                     op.session_id, op.config_id)
                        ELSE Idle]
        /\ UNCHANGED <<lockVars, handlerVars>>

AutoSaveReleaseExclusion(t) ==
    LET op == thread[t]
    IN  /\ op.phase = "execute"
        /\ op.oper \in AutoSaveOpers
        /\ MutexFree
        /\ IF canReleaseAutoSave(op.session_id, op.oper)
           THEN ReleaseAutoSave(op.session_id, op.oper)
           ELSE UNCHANGED lockVars
        /\ thread' = [thread EXCEPT ![t] = Idle]
        /\ UNCHANGED handlerVars

\* Read sessions need no more than the lock.  The release is also what the
\* timer posted by an acquisition does when it expires (HandleReadTimeout).
ReadAcquire(s) ==
    AcquireReadLock(s) /\ UNCHANGED <<thread, handlerVars>>

ReadAcquireAgain(s) ==
    AcquireReadLockAgain(s) /\ UNCHANGED <<thread, handlerVars>>

ReadRelease(s) ==
    ReleaseReadLock(s) /\ UNCHANGED <<thread, handlerVars>>

-----------------------------------------------------------------------------
(* TcReleaseSession: the session manager reports that session s has ended *)

TcReleaseSession(t, s) ==
    /\ thread[t] = Idle
    /\ MutexFree
    /\ current_state \in {"ACT", "SBY"}
    /\ LET doing == GetSessionOperation(s)
           next == IF doing = "READ" THEN "read"
                   ELSE IF doing \in CandidateWrite THEN "mark"
                   ELSE IF doing = "CONFIG" THEN "session"
                   ELSE "idle"
       IN  /\ next # "idle"
           /\ thread' = [thread EXCEPT ![t] =
                           Running(next, "RELEASE_SESSION", s, 0)]
    /\ UNCHANGED <<lockVars, handlerVars>>

ReleaseSessionRead(t) ==
    LET s == thread[t].session_id
    IN  /\ thread[t].phase = "read"
        /\ MutexFree
        /\ IF s \in read_sessions THEN ReleaseReadLock(s) ELSE UNCHANGED lockVars
        /\ thread' = [thread EXCEPT ![t] = Idle]
        /\ UNCHANGED handlerVars

ReleaseSessionMark(t) ==
    LET s == thread[t].session_id
    IN  /\ thread[t].phase = "mark"
        /\ MutexFree
        /\ IF canMarkSessionId(s) THEN TcMarkSessionId(s) ELSE UNCHANGED lockVars
        /\ thread' = [thread EXCEPT ![t] = Idle]
        /\ UNCHANGED handlerVars

\* ReleaseConfigSession asks for the configuration session again and releases
\* the one it is told, whoever owns it now.
ReleaseConfigSession(t) ==
    /\ thread[t].phase = "session"
    /\ MutexFree
    /\ thread' = [thread EXCEPT ![t] =
                    IF ConfigSessionExists
                    THEN [@ EXCEPT !.phase = "exclusion",
                                   !.oper = "CONFIG_RELEASE",
                                   !.session_id = session_id,
                                   !.config_id = config_id]
                    ELSE Idle]
    /\ UNCHANGED <<lockVars, handlerVars>>

-----------------------------------------------------------------------------
(* The state handler.  Its events are serialised by UncStateHandler::lock_. *)

\* The part of a handler that does not touch the lock table.
HandlerStep(from, to) ==
    /\ handler_pc = from
    /\ handler_pc' = to
    /\ UNCHANGED <<handler_state, thread>>

HandleStartLock ==
    /\ handler_state = "INIT"
    /\ HandlerStep("idle", "start")
    /\ TcAcquireReadLockForStateTransition

HandleStartUpdate ==
    HandlerStep("start", "started") /\ TcUpdateUncState("SBY")

HandleStartRelease ==
    /\ handler_pc = "started"
    /\ handler_pc' = "idle"
    /\ handler_state' = "SBY"
    /\ TcReleaseReadLockForStateTransition
    /\ UNCHANGED thread

HandleActLock ==
    /\ handler_state = "SBY"
    /\ HandlerStep("idle", "act")
    /\ TcAcquireReadLockForStateTransition

HandleActReset ==
    HandlerStep("act", "setup") /\ ResetTcGlobalDataOnStateTransition

\* The message before MSG_SETUP_COMPLETE: MSG_SETUP on a cold start, MSG_AUDITDB
\* after a failover that interrupted an operation, none otherwise.  A failed
\* MSG_AUDITDB that has failed too often before leads to ACT_FAIL.
HandleActSetup ==
    /\ \/ HandlerStep("setup", "complete")
       \/ HandlerStep("setup", "actfail")
       \/ HandlerStep("setup", "failed")
    /\ UNCHANGED lockVars

\* The state is ACT before MSG_SETUP_COMPLETE is sent.
HandleActUpdate ==
    HandlerStep("complete", "completing") /\ TcUpdateUncState("ACT")

\* A slip in Execute: TcSetSetupComplete is not called.
SetupCompleteForgotten ==
    HandlerStep("completing", "done") /\ UNCHANGED lockVars

\* MSG_SETUP_COMPLETE is answered and setup_complete_done_ is set, under a mutex
\* of its own.  The recovery table may still refuse its update afterwards.
HandleActSetupComplete ==
    /\ \/ HandlerStep("completing", "done")
       \/ SetupMayFail /\ HandlerStep("completing", "failed")
    /\ setup_complete_done' = TRUE
    /\ UNCHANGED <<configVars, read_sessions, rwVars, stateVars, is_enable,
                   audit_pc>>

HandleActSetupCompleteFails ==
    /\ SetupMayFail
    /\ HandlerStep("completing", "failed")
    /\ UNCHANGED lockVars

HandleActFailUpdate ==
    HandlerStep("actfail", "done") /\ TcUpdateUncState("ACT_FAIL")

\* ACT_FAIL counts as a successful transition.
HandleActRelease ==
    /\ handler_pc \in {"done", "failed"}
    /\ handler_pc' = "idle"
    /\ handler_state' = IF handler_pc = "done" THEN "ACT" ELSE "FAILURE"
    /\ TcReleaseReadLockForStateTransition
    /\ UNCHANGED thread

HandleStopUpdate ==
    /\ handler_state # "STOP"
    /\ HandlerStep("idle", "stopping")
    /\ TcUpdateUncState("STOP")

HandleStopReset ==
    /\ handler_pc = "stopping"
    /\ handler_pc' = "idle"
    /\ handler_state' = "STOP"
    /\ ResetTcGlobalDataOnStateTransition
    /\ UNCHANGED thread

-----------------------------------------------------------------------------
Operation(t) ==
    \/ TcGetCandidateExclusion(t)
    \/ TcGetReleaseExclusion(t)
    \/ FillTcMsgData(t)
    \/ ConfigReleaseExclusion(t)
    \/ WriteReleaseExclusion(t)
    \/ CheckMarkedSession(t)
    \/ AutoSaveReleaseExclusion(t)
    \/ ReleaseSessionRead(t)
    \/ ReleaseSessionMark(t)
    \/ ReleaseConfigSession(t)

Request(t, s) ==
    \/ \E oper \in Services \cap ValidatedOpers : Validate(t, s, oper)
    \/ \E oper \in Services \ ValidatedOpers : TcGetExclusion(t, s, oper)
    \/ "RELEASE_SESSION" \in Services /\ TcReleaseSession(t, s)

Read(s) ==
    /\ "READ" \in Services
    /\ ReadAcquire(s) \/ ReadAcquireAgain(s) \/ ReadRelease(s)

DriverAudit ==
    /\ "DRIVER_AUDIT" \in Services
    /\ AuditEnter \/ AuditSetupDone \/ AuditWake \/ AuditRelease
    /\ UNCHANGED <<thread, handlerVars>>

StateEvent == HandleStartLock \/ HandleActLock \/ HandleStopUpdate

Handler ==
    \/ HandleStartUpdate \/ HandleStartRelease
    \/ HandleActReset \/ HandleActSetup \/ HandleActUpdate
    \/ HandleActSetupComplete \/ HandleActSetupCompleteFails
    \/ HandleActFailUpdate \/ HandleActRelease
    \/ HandleStopReset

Next ==
    \/ \E t \in Threads : Operation(t) \/ \E s \in Sessions : Request(t, s)
    \/ \E s \in Sessions : Read(s)
    \/ DriverAudit
    \/ StateEvent
    \/ Handler

Spec == Init /\ [][Next]_vars

-----------------------------------------------------------------------------
\* The variables have their types; the number of a configuration mode that is taken is
\* never 0, with which CommitTransaction refuses, also when its 32 bits run over.
TypeOK ==
    /\ LockTypeOK
    /\ thread \in [Threads -> [phase : Phase, oper : Opers,
                               client : AnySession, session_id : AnySession,
                               config_id : 0 .. UINT32_MAX]]
    /\ handler_state \in HandlerState
    /\ handler_pc \in HandlerPc

\* The number of read locks that the count must show: one for every read session,
\* and the one of the state handler, which HandleStop sets without taking it.
ReadLocks ==
    Cardinality(read_sessions)
      + (IF InTransition \/ handler_state = "STOP" THEN 1 ELSE 0)

\* The reader count agrees with the set of read sessions at all times: it is what
\* tc_lock.cc:33 would verify on a reset if it were not commented out.  A count
\* that is too low wakes and admits a writer too early, one that is too high
\* keeps writers out for good.
ReaderCount ==
    IF Simultaneous THEN r_owner = ReadLocks
                    ELSE isWriteHeld \/ rw_owner = ReadLocks

\* Without simultaneous_read_write_allowed nobody reads, and no state transition
\* runs, while the write lock is held.
ReadersExcludeWriter ==
    ~Simultaneous /\ isWriteHeld =>
        read_sessions = {} /\ ~state_transition_in_progress

\* A thread that is between TcGetExclusion and TcReleaseExclusion of a write
\* operation.
Writing(t) ==
    /\ thread[t].phase = "execute"
    /\ thread[t].oper \in WriteOpers \cup {"AUTOSAVE_ENABLE", "AUTOSAVE_DISABLE"}

\* Of all commits, aborts, audits, saves and clears, those of the task queue
\* included, at most one is being executed.
OneWriter ==
    /\ \A t, u \in Threads : Writing(t) /\ Writing(u) => t = u
    /\ audit_pc = "write" => \A t \in Threads : ~Writing(t)

\* While a commit or an abort is executed the configuration session is the one of
\* the session that asked for it: it cannot be released, taken over by force, or
\* be in the middle of a notification.
CandidateOwnsConfig ==
    CandidateWriteHeld => OwnsConfigSession(w_session_id)

\* The loop of TcAcquireReadLockForStateTransition never has to wait: when an
\* event reaches HandleStart or HandleAct the lock is free.
TransitionNeverWaits ==
    handler_pc = "idle" /\ handler_state \in {"INIT", "SBY"} =>
        ~TransitionMustWait

\* A driver audit sleeps only while the write lock is not available to it.
NoMissedWakeUp == audit_pc = "wait" => ~canWriteLock

\* A read session of DB_MGMT or LAUNCHER and the write lock exclude each other, in
\* both modes (tc_lock.cc:791).
ManagementReadersExcludeWriter ==
    isWriteHeld => {DbMgmt, Launcher} \cap read_sessions = {}

\* The flags that stand for these sessions are never set while a writer is at
\* work.
ManagementFlagsExcludeWriter ==
    Simultaneous /\ isWriteHeld => ~r_db_mgmt_session /\ ~r_launcher_session

\* Ending a session releases the configuration session of that session and of no
\* other (TcReleaseSession is told which session has ended).
ReleasesOwnSession ==
    \A t \in Threads :
        thread[t].oper = "CONFIG_RELEASE" =>
            thread[t].session_id = thread[t].client

\* Once the state is STOP no lock of any kind is granted, also not to a thread
\* that was put to sleep before.
NothingGrantedAfterStop ==
    [][current_state = "STOP" =>
         /\ read_sessions' \subseteq read_sessions
         /\ isWriteHeld' => isWriteHeld
         /\ is_taken' => is_taken
         /\ is_enable' => is_enable]_vars

\* The ids of the configuration session do not change under a commit or an abort.
CandidateKeepsConfig ==
    [][CandidateWriteHeld /\ CandidateWriteHeld' =>
         UNCHANGED <<session_id, config_id>>]_vars

-----------------------------------------------------------------------------
\* Every operation that was begun is carried on by its thread, also by the thread
\* of the task queue and by the state handler.  Fairness is strong where a step
\* needs the mutex: a thread blocked on it gets it some time after it was free
\* again and again.  Requests and events need not come.
Fairness ==
    /\ \A t \in Threads : SF_vars(Operation(t))
    /\ SF_vars(Handler)
    /\ WF_vars(audit_pc # "idle" /\ DriverAudit)

FairSpec == Spec /\ Fairness

\* Every notification of UPLL and UPPL comes to its end, so that the configuration
\* session can be acquired or released again.
NotificationEnds == is_notify_pending ~> ~is_notify_pending

\* Every state transition that was begun comes to its end.
TransitionEnds == InTransition ~> ~InTransition

=============================================================================
