---------------------------- MODULE TcLockProofs ----------------------------
(*****************************************************************************)
(* Proofs about the lock table, for any number of sessions and threads and   *)
(* in both modes: the invariant of TcOperations, and that no operation on    *)
(* the lock table breaks the part of it that does not look at the threads.   *)
(*                                                                           *)
(* None of the safety properties of TcOperations is inductive by itself.     *)
(* IInv adds what connects the four places in which the code records who     *)
(* is doing what: the handler's state and program counter, the state of      *)
(* the lock table, the owner counts, and the operations of the threads.      *)
(*****************************************************************************)
EXTENDS TcOperations, FiniteSetTheorems, TLAPS

\* HandleAct has made the state ACT or has failed, or HandleStop has begun.
\* Before that nobody can write.
Late ==
    \/ handler_state \in {"ACT", "FAILURE", "STOP"}
    \/ handler_pc \in {"completing", "done", "failed", "stopping"}

\* The handler runs one event at a time, and the lock table follows it.
HandlerOrder ==
    /\ handler_pc \in {"start", "started"} => handler_state = "INIT"
    /\ handler_pc \in {"act", "setup", "complete", "completing", "actfail",
                       "done", "failed"} => handler_state = "SBY"
    /\ handler_state = "STOP" => handler_pc = "idle"
    /\ handler_state = "STOP" \/ handler_pc = "stopping" => current_state = "STOP"
    /\ state_transition_in_progress = InTransition
    /\ current_state = "ACT" => Late
    /\ isWriteHeld => Late
    /\ audit_pc # "idle" => Late
    /\ audit_pc = "spin" => current_state = "ACT"

\* What the owner counts stand for.  Without simultaneous reading and writing a
\* held write lock leaves room for no read lock, not even the handler's.
Owners ==
    /\ ReaderCount
    /\ ~Simultaneous /\ isWriteHeld =>
         read_sessions = {} /\ ~InTransition /\ handler_state # "STOP"
    /\ ~Simultaneous => NoMissedWakeUp

\* The notification that is pending, and the owner of the candidate.
Config ==
    /\ is_notify_pending <=> notify_operation # "NONE"
    /\ CandidateOwnsConfig

\* The write operation in which thread t is engaged.
WritesAs(t) ==
    IF thread[t].oper \in AutoSaveOpers THEN AutoSaveWrite(thread[t].oper)
                                        ELSE WriteOperation(thread[t].oper)

\* A thread that writes holds the write lock, unless HandleStop has reset it.
Writers ==
    /\ OneWriter
    /\ \A t \in Threads :
         Writing(t) =>
           /\ Late
           /\ handler_state = "STOP" \/ (isWriteHeld /\ w_operation = WritesAs(t)
                                        /\ w_session_id = thread[t].session_id)
    /\ audit_pc = "write" =>
         handler_state = "STOP" \/ (isWriteHeld /\ w_operation = "AUDIT_DRIVER"
                                   /\ w_session_id = NoSession)

IInv == TypeOK /\ HandlerOrder /\ Owners /\ Config /\ Writers

ThreadTypeOK ==
    thread \in [Threads -> [phase : Phase, oper : Opers,
                            client : AnySession, session_id : AnySession,
                            config_id : 0 .. UINT32_MAX]]

\* The part of the invariant that does not look at the threads.
LockInv ==
    /\ LockTypeOK
    /\ handler_state \in HandlerState
    /\ handler_pc \in HandlerPc
    /\ HandlerOrder
    /\ Owners
    /\ Config

\* What a thread, a reader or the audit task may do to the lock table.
ClientLock ==
    \/ \E s \in AnySession :
         \/ AcquireConfigLock(s) \/ ForceAcquireConfigLock(s)
         \/ TcMarkSessionId(s)
         \/ \E id \in 0 .. UINT32_MAX :
              \/ ReleaseConfigLock(s, id)
              \/ \E op \in {"ACQUIRE", "RELEASE"} :
                   NotifyConfigIdSessionIdDone(id, s, op)
         \/ \E op \in TcWriteOperation : AcquireWriteLock(s, op)
         \/ \E op \in TcWriteOperation : ReleaseWriteLock(s, op)
         \/ \E oper \in AutoSaveOpers : AcquireAutoSave(s, oper)
         \/ \E oper \in AutoSaveOpers : ReleaseAutoSave(s, oper)
    \/ \E s \in Sessions :
         AcquireReadLock(s) \/ AcquireReadLockAgain(s) \/ ReleaseReadLock(s)
    \/ AuditEnter \/ AuditSetupDone \/ AuditWake \/ AuditRelease

-----------------------------------------------------------------------------
\* The mark of the write lock is no count of readers that can be reached.
LEMMA WrLockedIsLarge == UINT32_MAX \in Nat /\ UINT32_MAX > 1
<1>1. Cardinality(Sessions) \in Nat
  BY TcLockAssumption, FS_CardinalityType
<1>2. QED
  BY <1>1, TcLockAssumption

\* The number of read sessions, before and after one is added or removed.
LEMMA Readers ==
    ASSUME LockTypeOK
    PROVE  /\ Cardinality(read_sessions) \in Nat
           /\ ReadLocks \in Nat
           /\ ReadLocks < UINT32_MAX
           /\ Cardinality(read_sessions) + 1 < UINT32_MAX
           /\ read_sessions = {} <=> Cardinality(read_sessions) = 0
           /\ \A s \in Sessions \ read_sessions :
                /\ Cardinality(read_sessions \cup {s})
                     = Cardinality(read_sessions) + 1
                /\ Cardinality(read_sessions) + 2 < UINT32_MAX
           /\ \A s \in read_sessions :
                /\ Cardinality(read_sessions \ {s})
                     = Cardinality(read_sessions) - 1
                /\ Cardinality(read_sessions) > 0
<1>1. IsFiniteSet(read_sessions) /\ IsFiniteSet(Sessions)
  BY TcLockAssumption, FS_Subset DEF LockTypeOK
<1>2. /\ Cardinality(read_sessions) \in Nat
      /\ Cardinality(Sessions) \in Nat
      /\ Cardinality(read_sessions) <= Cardinality(Sessions)
  BY <1>1, FS_Subset, FS_CardinalityType DEF LockTypeOK
<1>3. ReadLocks \in Nat /\ ReadLocks < UINT32_MAX
  BY <1>2, TcLockAssumption DEF ReadLocks
<1>4. read_sessions = {} <=> Cardinality(read_sessions) = 0
  BY <1>1, FS_EmptySet
<1>5. ASSUME NEW s \in Sessions \ read_sessions
      PROVE  /\ Cardinality(read_sessions \cup {s})
                  = Cardinality(read_sessions) + 1
             /\ Cardinality(read_sessions) + 2 < UINT32_MAX
  <2>1. Cardinality(read_sessions \cup {s}) = Cardinality(read_sessions) + 1
    BY Zenon, <1>1, FS_AddElement
  <2>2. read_sessions \cup {s} \subseteq Sessions
    BY DEF LockTypeOK
  <2>3. Cardinality(read_sessions \cup {s}) <= Cardinality(Sessions)
    BY <1>1, <2>2, FS_Subset
  <2>4. QED
    BY <1>2, <2>1, <2>3, TcLockAssumption
<1>6. ASSUME NEW s \in read_sessions
      PROVE  /\ Cardinality(read_sessions \ {s}) = Cardinality(read_sessions) - 1
             /\ Cardinality(read_sessions) > 0
  <2>1. Cardinality(read_sessions \ {s}) = Cardinality(read_sessions) - 1
    BY <1>1, FS_RemoveElement
  <2>2. Cardinality(read_sessions) # 0
    BY <1>1, FS_EmptySet
  <2>3. QED
    BY <1>2, <2>1, <2>2
<1>7. QED
  BY <1>2, <1>3, <1>4, <1>5, <1>6, TcLockAssumption

-----------------------------------------------------------------------------
(* Every step on the lock table preserves LockInv. *)

USE DEF configVars, ownerVars, writerVars, rwVars, stateVars, handlerVars

\* Acquiring, releasing, notifying and marking the configuration session keeps
\* the invariant: the owner counts, the states and the audit are left alone.
LEMMA ConfigStep ==
    ASSUME LockInv, UNCHANGED handlerVars,
           UNCHANGED <<read_sessions, rwVars, stateVars, audit_pc>>,
           LockTypeOK', Config'
    PROVE  LockInv'
<1>1. HandlerOrder'
  BY DEF LockInv, HandlerOrder, Late, InTransition, isWriteHeld
<1>2. Owners'
  BY DEF LockInv, Owners, ReaderCount, ReadLocks, InTransition, isWriteHeld,
         NoMissedWakeUp, canWriteLock
<1>3. QED
  BY <1>1, <1>2 DEF LockInv

\* Acquiring the configuration session, by force or not, keeps the invariant.
LEMMA AcquireConfigStep ==
    ASSUME LockInv, UNCHANGED handlerVars, NEW s \in AnySession,
           AcquireConfigLock(s) \/ ForceAcquireConfigLock(s)
    PROVE  LockInv'
<1>1. /\ UpdateConfigData(s)
      /\ UNCHANGED <<read_sessions, rwVars, stateVars, is_enable,
                     setup_complete_done, audit_pc>>
  BY DEF AcquireConfigLock, ForceAcquireConfigLock
<1>2. LockTypeOK'
  <2>1. config_id' \in 0 .. UINT32_MAX /\ config_id' # 0
    BY <1>1, WrLockedIsLarge DEF LockInv, LockTypeOK, UpdateConfigData, GetConfigId
  <2>2. QED
    BY <1>1, <2>1 DEF LockInv, LockTypeOK, UpdateConfigData, TcNotifyOperation
<1>3. ~CandidateWriteHeld
  BY DEF AcquireConfigLock, ForceAcquireConfigLock, canAcquireConfigLock,
         canForceAcquireConfigLock, LockInv, Config, CandidateOwnsConfig,
         OwnsConfigSession
<1>4. Config'
  BY <1>1, <1>3 DEF UpdateConfigData, Config, CandidateOwnsConfig,
                    CandidateWriteHeld, isWriteHeld
<1>5. QED
  BY <1>1, <1>2, <1>4, ConfigStep

\* ReleaseConfigLock keeps the invariant: no commit or abort is under way.
LEMMA ReleaseConfigStep ==
    ASSUME LockInv, UNCHANGED handlerVars, NEW s, NEW id,
           ReleaseConfigLock(s, id)
    PROVE  LockInv'
<1>1. LockTypeOK'
  BY Zenon DEF LockInv, LockTypeOK, ReleaseConfigLock, TcNotifyOperation
<1>2. Config'
  BY DEF ReleaseConfigLock, canReleaseConfigLock, Config, CandidateOwnsConfig,
         CandidateWriteHeld, isWriteHeld
<1>3. QED
  BY <1>1, <1>2, ConfigStep DEF ReleaseConfigLock

\* The end of a notification keeps the invariant.
LEMMA NotifyStep ==
    ASSUME LockInv, UNCHANGED handlerVars, NEW s, NEW id,
           NEW op \in {"ACQUIRE", "RELEASE"},
           NotifyConfigIdSessionIdDone(id, s, op)
    PROVE  LockInv'
<1>1. LockTypeOK'
  BY Zenon DEF LockInv, LockTypeOK, NotifyConfigIdSessionIdDone, TcNotifyOperation,
         AnySession
<1>2. Config'
  BY DEF LockInv, NotifyConfigIdSessionIdDone, canNotifyDone, Config,
         CandidateOwnsConfig, OwnsConfigSession, CandidateWriteHeld, isWriteHeld
<1>3. QED
  BY <1>1, <1>2, ConfigStep DEF NotifyConfigIdSessionIdDone

\* TcMarkSessionId keeps the invariant.
LEMMA MarkStep ==
    ASSUME LockInv, UNCHANGED handlerVars, NEW s \in AnySession,
           TcMarkSessionId(s)
    PROVE  LockInv'
<1>1. LockTypeOK'
  BY DEF LockInv, LockTypeOK, TcMarkSessionId
<1>2. Config'
  BY DEF LockInv, TcMarkSessionId, Config, CandidateOwnsConfig,
         OwnsConfigSession, CandidateWriteHeld, isWriteHeld
<1>3. QED
  BY <1>1, <1>2, ConfigStep DEF TcMarkSessionId

\* Read locks.
LEMMA AcquireReadStep ==
    ASSUME LockInv, UNCHANGED handlerVars, NEW s \in Sessions,
           AcquireReadLock(s)
    PROVE  LockInv'
<1> USE DEF AcquireReadLock, setReader, canReadLock
<1>1. /\ ReadLocks' = ReadLocks + 1
      /\ ReadLocks \in Nat
      /\ ReadLocks + 1 < UINT32_MAX
  BY Readers, WrLockedIsLarge DEF LockInv, ReadLocks, InTransition
<1>2. /\ Simultaneous => r_owner' = r_owner + 1 /\ r_owner = ReadLocks
      /\ ~Simultaneous => rw_owner' = rw_owner + 1 /\ rw_owner = ReadLocks
  BY DEF LockInv, Owners, ReaderCount, isWriteHeld
<1>3. isWriteHeld' => Simultaneous /\ isWriteHeld
  BY <1>1, <1>2, WrLockedIsLarge DEF isWriteHeld, RW_OWNER_WRLOCKED
<1>4. LockTypeOK'
  <2>1. {rw_owner', r_owner', w_owner'} \subseteq 0 .. UINT32_MAX
    BY <1>1, <1>2, WrLockedIsLarge DEF LockInv, LockTypeOK
  <2>2. QED
    BY Zenon, <2>1 DEF LockInv, LockTypeOK
<1>5. HandlerOrder'
  BY <1>3 DEF LockInv, HandlerOrder, Late, InTransition
<1>6. Owners'
  <2>1. ReaderCount'
    BY <1>1, <1>2 DEF ReaderCount
  <2>2. ~Simultaneous => NoMissedWakeUp'
    BY <1>1, <1>2 DEF NoMissedWakeUp, canWriteLock
  <2>3. QED
    BY <1>3, <2>1, <2>2 DEF Owners
<1>7. Config'
  BY <1>3 DEF LockInv, Config, CandidateOwnsConfig, CandidateWriteHeld,
              OwnsConfigSession
<1>8. QED
  BY <1>4, <1>5, <1>6, <1>7 DEF LockInv

\* A second read request of a session keeps the invariant.
LEMMA AcquireReadAgainStep ==
    ASSUME LockInv, UNCHANGED handlerVars, NEW s \in Sessions,
           AcquireReadLockAgain(s)
    PROVE  LockInv'
<1> USE DEF AcquireReadLockAgain, wakeUpIfNoReader, wakeUp
<1>1. LockTypeOK'
  BY Zenon DEF LockInv, LockTypeOK, AuditPc
<1>2. HandlerOrder'
  BY DEF LockInv, HandlerOrder, Late, InTransition, isWriteHeld
<1>3. Owners'
  BY DEF LockInv, Owners, ReaderCount, ReadLocks, InTransition, isWriteHeld,
         NoMissedWakeUp, canWriteLock
<1>4. Config'
  BY DEF LockInv, Config, CandidateOwnsConfig, CandidateWriteHeld, isWriteHeld,
         OwnsConfigSession
<1>5. QED
  BY <1>1, <1>2, <1>3, <1>4 DEF LockInv

\* Giving a read lock back keeps the invariant.
LEMMA ReleaseReadStep ==
    ASSUME LockInv, UNCHANGED handlerVars, NEW s \in Sessions,
           ReleaseReadLock(s)
    PROVE  LockInv'
<1> USE DEF ReleaseReadLock, unlockReader, wakeUpIfNoReader, wakeUp
<1>1. ReadLocks' = ReadLocks - 1 /\ ReadLocks > 0
  BY Readers DEF LockInv, ReadLocks, InTransition
<1>2. /\ Simultaneous => r_owner' = r_owner - 1 /\ r_owner = ReadLocks
      /\ ~Simultaneous => rw_owner' = rw_owner - 1 /\ rw_owner = ReadLocks
  BY DEF LockInv, Owners, ReaderCount
<1>3. isWriteHeld' => isWriteHeld
  BY <1>1, <1>2, Readers, TcLockAssumption
  DEF LockInv, isWriteHeld, RW_OWNER_WRLOCKED
<1>4. LockTypeOK'
  <2>1. {rw_owner', r_owner', w_owner'} \subseteq 0 .. UINT32_MAX
    BY <1>1, <1>2, Readers, WrLockedIsLarge DEF LockInv, LockTypeOK
  <2>2. QED
    BY Zenon, <2>1 DEF LockInv, LockTypeOK, AuditPc
<1>5. HandlerOrder'
  BY <1>3 DEF LockInv, HandlerOrder, Late, InTransition
<1>6. Owners'
  <2>1. ReaderCount'
    BY <1>1, <1>2 DEF ReaderCount
  <2>2. ~Simultaneous => ~isWriteHeld'
    BY <1>3 DEF LockInv, Owners
  <2>3. ~Simultaneous => NoMissedWakeUp'
    BY DEF LockInv, Owners, NoMissedWakeUp, canWriteLock
  <2>4. QED
    BY <2>1, <2>2, <2>3 DEF Owners
<1>7. Config'
  BY <1>3 DEF LockInv, Config, CandidateOwnsConfig, CandidateWriteHeld,
              OwnsConfigSession
<1>8. QED
  BY <1>4, <1>5, <1>6, <1>7 DEF LockInv

\* Write locks.  A grant needs the state ACT and no reader that it excludes.
LEMMA GrantWrite ==
    ASSUME LockInv, UNCHANGED handlerVars, NEW s \in AnySession,
           NEW op \in TcWriteOperation,
           current_state = "ACT" \/ audit_pc # "idle",
           canWriteLock, setWriter(s, op),
           op \in CandidateWrite => OwnsConfigSession(s),
           UNCHANGED <<configVars, read_sessions, stateVars,
                       setup_complete_done>>,
           is_enable' \in BOOLEAN,
           audit_pc' \in {audit_pc, "write"},
           audit_pc' = "write" => audit_pc # "idle"
    PROVE  LockInv'
<1> USE DEF setWriter, canWriteLock
<1>1. LockTypeOK'
  BY WrLockedIsLarge DEF LockInv, LockTypeOK, RW_OWNER_WRLOCKED, AuditPc
<1>2. HandlerOrder'
  BY DEF LockInv, HandlerOrder, Late, InTransition
<1>3. ~Simultaneous => ReadLocks = 0
  BY WrLockedIsLarge DEF LockInv, Owners, ReaderCount, isWriteHeld, RW_OWNER_WRLOCKED
<1>4. ~Simultaneous =>
         read_sessions = {} /\ ~InTransition /\ handler_state # "STOP"
  BY <1>3, Readers DEF LockInv, ReadLocks
<1>5. Owners'
  BY <1>4, WrLockedIsLarge
  DEF LockInv, Owners, ReaderCount, ReadLocks, InTransition, isWriteHeld,
      NoMissedWakeUp, RW_OWNER_WRLOCKED
<1>6. Config'
  BY DEF LockInv, Config, CandidateOwnsConfig, CandidateWriteHeld,
         OwnsConfigSession
<1>7. QED
  BY <1>1, <1>2, <1>5, <1>6 DEF LockInv

\* Giving the write lock back wakes the audit, or is done by it.
LEMMA GiveBackWrite ==
    ASSUME LockInv, UNCHANGED handlerVars, isWriteHeld,
           w_session_id' = NoSession, w_operation' = "NONE",
           rw_owner' = 0, w_owner' = 0,
           UNCHANGED <<r_owner, r_db_mgmt_session, r_launcher_session,
                       configVars, read_sessions, stateVars,
                       setup_complete_done>>,
           is_enable' \in BOOLEAN,
           audit_pc' \in AuditPc \ {"wait"},
           audit_pc' # "idle" => audit_pc # "idle",
           audit_pc' # "spin"
    PROVE  LockInv'
<1>1. LockTypeOK'
  BY WrLockedIsLarge
  DEF LockInv, LockTypeOK, AnySession, TcWriteOperation
<1>2. ~isWriteHeld'
  BY WrLockedIsLarge DEF isWriteHeld, RW_OWNER_WRLOCKED
<1>3. HandlerOrder'
  BY <1>2 DEF LockInv, HandlerOrder, Late, InTransition
<1>4. Owners'
  <2>1. ~Simultaneous => ReadLocks' = 0
    BY Readers DEF LockInv, Owners, ReadLocks, InTransition
  <2>2. ReaderCount'
    BY <2>1 DEF LockInv, Owners, ReaderCount, ReadLocks, InTransition
  <2>3. QED
    BY <1>2, <2>2 DEF Owners, NoMissedWakeUp
<1>5. Config'
  BY <1>2 DEF LockInv, Config, CandidateOwnsConfig, CandidateWriteHeld
<1>6. QED
  BY <1>1, <1>3, <1>4, <1>5 DEF LockInv

\* AcquireWriteLock keeps the invariant.
LEMMA AcquireWriteStep ==
    ASSUME LockInv, UNCHANGED handlerVars, NEW s \in AnySession,
           NEW op \in TcWriteOperation, AcquireWriteLock(s, op)
    PROVE  LockInv'
<1>1. current_state = "ACT"
  BY DEF AcquireWriteLock, canAcquireWriteLock, MayGetLock, TcOperationIsAllowed
<1>2. QED
  BY <1>1, GrantWrite
  DEF AcquireWriteLock, canAcquireWriteLock, LockInv, LockTypeOK

\* ReleaseWriteLock keeps the invariant.
LEMMA ReleaseWriteStep ==
    ASSUME LockInv, UNCHANGED handlerVars, NEW s, NEW op, ReleaseWriteLock(s, op)
    PROVE  LockInv'
BY GiveBackWrite
DEF ReleaseWriteLock, MutexFree, canUnlockWriter, unlockWriter, wakeUp, LockInv, LockTypeOK,
    AuditPc

\* The auto save operations: the flag alone, or with the write lock.
LEMMA AutoSaveFlag ==
    ASSUME LockInv, UNCHANGED handlerVars, is_enable' \in BOOLEAN,
           UNCHANGED <<configVars, read_sessions, rwVars, stateVars,
                       setup_complete_done, audit_pc>>
    PROVE  LockInv'
<1>1. LockTypeOK'
  BY DEF LockInv, LockTypeOK
<1>2. Config'
  BY DEF LockInv, Config, CandidateOwnsConfig, OwnsConfigSession,
         CandidateWriteHeld, isWriteHeld
<1>3. QED
  BY <1>1, <1>2, ConfigStep

\* The auto save operations keep the invariant.
LEMMA AutoSaveStep ==
    ASSUME LockInv, UNCHANGED handlerVars, NEW s \in AnySession,
           NEW oper \in AutoSaveOpers,
           AcquireAutoSave(s, oper) \/ ReleaseAutoSave(s, oper)
    PROVE  LockInv'
<1>1. CASE AcquireAutoSave(s, oper) /\ oper # "AUTOSAVE_GET"
  <2>1. current_state = "ACT"
    BY <1>1 DEF AcquireAutoSave, MayGetLock, TcOperationIsAllowed, AutoSaveOpers
  <2>2. /\ AutoSaveWrite(oper) \in TcWriteOperation
        /\ AutoSaveWrite(oper) \notin CandidateWrite
    BY DEF AutoSaveWrite, TcWriteOperation, CandidateWrite
  <2>3. /\ canWriteLock
        /\ setWriter(s, AutoSaveWrite(oper))
        /\ is_enable' \in BOOLEAN
        /\ UNCHANGED <<configVars, read_sessions, stateVars,
                       setup_complete_done, audit_pc>>
    BY <1>1 DEF AcquireAutoSave
  <2>4. audit_pc' \in {audit_pc, "write"} /\ (audit_pc' = "write" => audit_pc # "idle")
    BY SMTT(30), <2>3
  <2>5. QED
    BY <2>1, <2>2, <2>3, <2>4, GrantWrite
<1>2. CASE ReleaseAutoSave(s, oper) /\ oper # "AUTOSAVE_GET"
  BY Zenon, <1>2, GiveBackWrite
  DEF ReleaseAutoSave, MutexFree, canReleaseAutoSave, canUnlockWriter, unlockWriter, wakeUp,
      LockInv, LockTypeOK, AuditPc
<1>3. CASE oper = "AUTOSAVE_GET"
  <2>1. /\ is_enable' \in BOOLEAN
        /\ UNCHANGED <<configVars, read_sessions, rwVars, stateVars,
                       setup_complete_done, audit_pc>>
    BY Zenon, <1>3 DEF AcquireAutoSave, ReleaseAutoSave
  <2>2. QED
    BY <2>1, AutoSaveFlag
<1>4. QED
  BY <1>1, <1>2, <1>3

\* A step of the audit thread that moves its program counter only.
LEMMA AuditMoves ==
    ASSUME LockInv, UNCHANGED handlerVars,
           UNCHANGED <<configVars, read_sessions, rwVars, stateVars, is_enable,
                       setup_complete_done>>,
           audit_pc' \in AuditPc,
           audit_pc' # "idle" => Late,
           audit_pc' = "spin" => current_state = "ACT",
           audit_pc' = "wait" => ~canWriteLock
    PROVE  LockInv'
<1>1. LockTypeOK'
  BY DEF LockInv, LockTypeOK
<1>2. HandlerOrder'
  BY DEF LockInv, HandlerOrder, Late, InTransition, isWriteHeld
<1>3. Owners'
  BY DEF LockInv, Owners, ReaderCount, ReadLocks, InTransition, isWriteHeld,
         NoMissedWakeUp, canWriteLock
<1>4. Config'
  BY DEF LockInv, Config, CandidateOwnsConfig, CandidateWriteHeld, isWriteHeld,
         OwnsConfigSession
<1>5. QED
  BY <1>1, <1>2, <1>3, <1>4 DEF LockInv

\* The attempt of a driver audit to take the lock keeps the invariant.
LEMMA AuditTryLockStep ==
    ASSUME LockInv, UNCHANGED handlerVars, audit_pc # "idle", AuditTryLock
    PROVE  LockInv'
<1>1. NoSession \in AnySession /\ "AUDIT_DRIVER" \in TcWriteOperation
      /\ "AUDIT_DRIVER" \notin CandidateWrite
  BY DEF AnySession, TcWriteOperation, CandidateWrite
<1>2. CASE canWriteLock
  BY <1>1, <1>2, GrantWrite DEF AuditTryLock, LockInv, LockTypeOK
<1>3. CASE ~canWriteLock
  BY <1>3, AuditMoves DEF AuditTryLock, AuditPc, LockInv, HandlerOrder
<1>4. QED
  BY <1>2, <1>3

\* AcquireWriteLockForAuditDriver and the end of the audit keep the invariant.
LEMMA AuditStep ==
    ASSUME LockInv, UNCHANGED handlerVars,
           AuditEnter \/ AuditSetupDone \/ AuditWake \/ AuditRelease
    PROVE  LockInv'
<1>1. CASE AuditEnter
  BY <1>1, AuditMoves
  DEF AuditEnter, MayGetLock, TcOperationIsAllowed, AuditPc, LockInv, HandlerOrder
<1>2. CASE AuditSetupDone
  BY <1>2, AuditTryLockStep DEF AuditSetupDone
<1>3. CASE AuditWake
  BY <1>3, AuditTryLockStep, AuditMoves DEF AuditWake, AuditPc
<1>4. CASE AuditRelease
  <2>1. CASE canUnlockWriter(NoSession, "AUDIT_DRIVER")
    BY <1>4, <2>1, GiveBackWrite
    DEF AuditRelease, canUnlockWriter, AuditPc, LockInv, LockTypeOK
  <2>2. CASE ~canUnlockWriter(NoSession, "AUDIT_DRIVER")
    BY <1>4, <2>2, AuditMoves DEF AuditRelease, AuditPc
  <2>3. QED
    BY <2>1, <2>2
<1>5. QED
  BY <1>1, <1>2, <1>3, <1>4

\* No step of a client on the lock table breaks LockInv.
LEMMA ClientLockStep ==
    ASSUME LockInv, UNCHANGED handlerVars, ClientLock \/ UNCHANGED lockVars
    PROVE  LockInv'
<1>1. CASE UNCHANGED lockVars
  <2>1. LockTypeOK' /\ Config'
    BY <1>1 DEF LockInv, lockVars, LockTypeOK, Config, CandidateOwnsConfig,
                OwnsConfigSession, CandidateWriteHeld, isWriteHeld
  <2>2. QED
    BY <1>1, <2>1, ConfigStep DEF lockVars
<1>2. ASSUME NEW s \in AnySession,
             AcquireConfigLock(s) \/ ForceAcquireConfigLock(s)
      PROVE  LockInv'
  BY <1>2, AcquireConfigStep
<1>3. ASSUME NEW s \in AnySession, TcMarkSessionId(s)
      PROVE  LockInv'
  BY <1>3, MarkStep
<1>4. ASSUME NEW s \in AnySession, NEW id \in 0 .. UINT32_MAX,
             ReleaseConfigLock(s, id)
      PROVE  LockInv'
  BY <1>4, ReleaseConfigStep
<1>5. ASSUME NEW s \in AnySession, NEW id \in 0 .. UINT32_MAX,
             NEW op \in {"ACQUIRE", "RELEASE"},
             NotifyConfigIdSessionIdDone(id, s, op)
      PROVE  LockInv'
  BY <1>5, NotifyStep
<1>6. ASSUME NEW s \in AnySession, NEW op \in TcWriteOperation,
             AcquireWriteLock(s, op)
      PROVE  LockInv'
  BY <1>6, AcquireWriteStep
<1>7. ASSUME NEW s \in AnySession, NEW op \in TcWriteOperation,
             ReleaseWriteLock(s, op)
      PROVE  LockInv'
  BY <1>7, ReleaseWriteStep
<1>8. ASSUME NEW s \in AnySession, NEW oper \in AutoSaveOpers,
             AcquireAutoSave(s, oper) \/ ReleaseAutoSave(s, oper)
      PROVE  LockInv'
  BY <1>8, AutoSaveStep
<1>9. ASSUME NEW s \in Sessions,
             \/ AcquireReadLock(s) \/ AcquireReadLockAgain(s)
             \/ ReleaseReadLock(s)
      PROVE  LockInv'
  BY <1>9, AcquireReadStep, AcquireReadAgainStep, ReleaseReadStep
<1>10. QED
  BY <1>1, <1>2, <1>3, <1>4, <1>5, <1>6, <1>7, <1>8, <1>9, AuditStep
  DEF ClientLock

-----------------------------------------------------------------------------
(* The steps of the state handler preserve LockInv. *)

\* TcUpdateUncState together with the handler's move.
LEMMA UpdateStep ==
    ASSUME LockInv, NEW new \in TcState, TcUpdateUncState(new),
           handler_state' = handler_state, handler_pc' \in HandlerPc,
           \/ new = "STOP" /\ handler_state # "STOP" /\ handler_pc = "idle"
              /\ handler_pc' = "stopping"
           \/ new = "SBY" /\ handler_pc = "start" /\ handler_pc' = "started"
           \/ new = "ACT" /\ handler_pc = "complete" /\ handler_pc' = "completing"
           \/ new = "ACT_FAIL" /\ handler_pc = "actfail" /\ handler_pc' = "done"
    PROVE  LockInv'
<1> USE DEF TcUpdateUncState, wakeUp, MutexFree
<1>1. LockTypeOK'
  BY DEF LockInv, LockTypeOK, AuditPc
<1>2. HandlerOrder'
  BY DEF LockInv, LockTypeOK, HandlerOrder, Late, InTransition, isWriteHeld
<1>3. Owners'
  <2>1. ReadLocks' = ReadLocks
    BY DEF ReadLocks, InTransition
  <2>2. QED
    BY <2>1 DEF LockInv, Owners, ReaderCount, InTransition, isWriteHeld,
                NoMissedWakeUp, canWriteLock
<1>4. Config'
  BY DEF LockInv, Config, CandidateOwnsConfig, CandidateWriteHeld, isWriteHeld,
         OwnsConfigSession
<1>5. QED
  BY <1>1, <1>2, <1>3, <1>4 DEF LockInv

\* TcAcquireReadLockForStateTransition keeps the invariant.
LEMMA TransitionLockStep ==
    ASSUME LockInv, TcAcquireReadLockForStateTransition,
           handler_pc = "idle", handler_state' = handler_state,
           \/ handler_state = "INIT" /\ handler_pc' = "start"
           \/ handler_state = "SBY" /\ handler_pc' = "act"
    PROVE  LockInv'
<1> USE DEF TcAcquireReadLockForStateTransition, setReader, TransitionMustWait,
            canReadLock
<1>1. ReadLocks' = ReadLocks + 1 /\ ReadLocks \in Nat /\ ReadLocks + 1 < UINT32_MAX
  BY Readers DEF LockInv, ReadLocks, InTransition
<1>2. /\ Simultaneous => r_owner' = r_owner + 1 /\ r_owner = ReadLocks
      /\ ~Simultaneous => rw_owner' = rw_owner + 1 /\ rw_owner = ReadLocks
  BY DEF LockInv, Owners, ReaderCount, isWriteHeld
<1>3. isWriteHeld' => Simultaneous /\ isWriteHeld
  BY <1>1, <1>2, WrLockedIsLarge DEF isWriteHeld, RW_OWNER_WRLOCKED
<1>4. LockTypeOK'
  <2>1. {rw_owner', r_owner', w_owner'} \subseteq 0 .. UINT32_MAX
    BY <1>1, <1>2, WrLockedIsLarge DEF LockInv, LockTypeOK
  <2>2. QED
    BY <2>1, TcLockAssumption DEF LockInv, LockTypeOK
<1>5. HandlerOrder'
  BY Zenon, <1>3 DEF LockInv, HandlerOrder, Late, InTransition
<1>6. Owners'
  BY <1>1, <1>2, <1>3
  DEF LockInv, Owners, ReaderCount, NoMissedWakeUp, canWriteLock
<1>7. Config'
  BY <1>3 DEF LockInv, Config, CandidateOwnsConfig, CandidateWriteHeld,
              OwnsConfigSession
<1>8. handler_pc' \in HandlerPc /\ handler_state' \in HandlerState
  BY DEF LockInv, HandlerPc
<1>9. QED
  BY <1>4, <1>5, <1>6, <1>7, <1>8 DEF LockInv

\* TcReleaseReadLockForStateTransition keeps the invariant.
LEMMA TransitionUnlockStep ==
    ASSUME LockInv, TcReleaseReadLockForStateTransition, handler_pc' = "idle",
           \/ handler_pc = "started" /\ handler_state' = "SBY"
           \/ handler_pc \in {"done", "failed"}
              /\ handler_state' \in {"ACT", "FAILURE"}
    PROVE  LockInv'
<1> USE DEF TcReleaseReadLockForStateTransition, unlockReader,
            wakeUpIfNoReader, wakeUp, MutexFree
<1>1. InTransition /\ handler_state # "STOP"
  BY DEF LockInv, HandlerOrder, InTransition
<1>2. ReadLocks' = ReadLocks - 1 /\ ReadLocks > 0
  BY <1>1, Readers DEF LockInv, ReadLocks, InTransition
<1>3. /\ Simultaneous => r_owner' = r_owner - 1 /\ r_owner = ReadLocks
      /\ ~Simultaneous => rw_owner' = rw_owner - 1 /\ rw_owner = ReadLocks
  BY <1>1 DEF LockInv, Owners, ReaderCount
<1>4. isWriteHeld' => Simultaneous /\ isWriteHeld
  BY <1>2, <1>3, Readers, WrLockedIsLarge DEF LockInv, isWriteHeld, RW_OWNER_WRLOCKED
<1>5. LockTypeOK'
  <2>1. {rw_owner', r_owner', w_owner'} \subseteq 0 .. UINT32_MAX
    BY <1>2, <1>3, Readers, WrLockedIsLarge DEF LockInv, LockTypeOK
  <2>2. QED
    BY Zenon, <2>1 DEF LockInv, LockTypeOK, AuditPc
<1>6. HandlerOrder'
  BY Zenon, <1>4 DEF LockInv, HandlerOrder, Late, InTransition
<1>7. Owners'
  BY Zenon, <1>2, <1>3, <1>4 DEF LockInv, Owners, ReaderCount, NoMissedWakeUp, canWriteLock
<1>8. Config'
  BY <1>4 DEF LockInv, Config, CandidateOwnsConfig, CandidateWriteHeld,
              OwnsConfigSession
<1>9. handler_pc' \in HandlerPc /\ handler_state' \in HandlerState
  BY DEF HandlerPc, HandlerState
<1>10. QED
  BY <1>5, <1>6, <1>7, <1>8, <1>9 DEF LockInv

\* ResetTcGlobalDataOnStateTransition keeps the invariant.
LEMMA ResetStep ==
    ASSUME LockInv, ResetTcGlobalDataOnStateTransition,
           \/ /\ handler_pc = "act" /\ handler_pc' = "setup"
              /\ handler_state' = handler_state
           \/ handler_pc = "stopping" /\ handler_pc' = "idle"
              /\ handler_state' = "STOP"
    PROVE  LockInv'
<1> USE DEF ResetTcGlobalDataOnStateTransition
<1>1. LockTypeOK'
  <2>1. {rw_owner', r_owner', w_owner'} \subseteq 0 .. UINT32_MAX
    BY WrLockedIsLarge
  <2>2. QED
    BY Zenon, <2>1
    DEF LockInv, LockTypeOK, TcNotifyOperation, TcWriteOperation, AnySession
<1>2. ~isWriteHeld'
  BY WrLockedIsLarge DEF isWriteHeld, RW_OWNER_WRLOCKED
<1>3. HandlerOrder'
  BY <1>2 DEF LockInv, HandlerOrder, Late, InTransition
<1>4. ReadLocks' = 1
  BY FS_EmptySet DEF ReadLocks, InTransition
<1>5. Owners'
  BY <1>2, <1>4 DEF Owners, ReaderCount, NoMissedWakeUp, canWriteLock
<1>6. Config'
  BY <1>2 DEF Config, CandidateOwnsConfig, CandidateWriteHeld
<1>7. handler_pc' \in HandlerPc /\ handler_state' \in HandlerState
  BY DEF LockInv, HandlerPc, HandlerState
<1>8. QED
  BY <1>1, <1>3, <1>5, <1>6, <1>7 DEF LockInv

\* No step of the state handler breaks LockInv.
LEMMA HandlerLockStep ==
    ASSUME LockInv, StateEvent \/ Handler
    PROVE  LockInv'
<1> USE DEF HandlerStep
<1>1. CASE HandleStartLock \/ HandleActLock
  BY <1>1, TransitionLockStep DEF HandleStartLock, HandleActLock
<1>2. CASE HandleStopUpdate \/ HandleStartUpdate \/ HandleActUpdate
             \/ HandleActFailUpdate
  BY <1>2, UpdateStep
  DEF HandleStopUpdate, HandleStartUpdate, HandleActUpdate, HandleActFailUpdate,
      TcState, HandlerPc
<1>3. CASE HandleStartRelease \/ HandleActRelease
  BY <1>3, TransitionUnlockStep DEF HandleStartRelease, HandleActRelease
<1>4. CASE HandleActReset \/ HandleStopReset
  BY <1>4, ResetStep DEF HandleActReset, HandleStopReset
<1>5. CASE HandleActSetup \/ HandleActSetupComplete
             \/ HandleActSetupCompleteFails
  <2>1. /\ UNCHANGED <<configVars, read_sessions, rwVars, stateVars, is_enable,
                       audit_pc, handler_state>>
        /\ setup_complete_done' \in {setup_complete_done, TRUE}
        /\ \/ handler_pc = "setup"
              /\ handler_pc' \in {"complete", "actfail", "failed"}
           \/ handler_pc = "completing" /\ handler_pc' \in {"done", "failed"}
    BY Zenon, <1>5 DEF HandleActSetup, HandleActSetupComplete,
                HandleActSetupCompleteFails, lockVars
  <2>2. LockTypeOK'
    BY Zenon, <2>1 DEF LockInv, LockTypeOK
  <2>3. HandlerOrder'
    BY <2>1 DEF LockInv, HandlerOrder, Late, InTransition, isWriteHeld
  <2>4. Owners'
    BY <2>1 DEF LockInv, Owners, ReaderCount, ReadLocks, InTransition,
                isWriteHeld, NoMissedWakeUp, canWriteLock
  <2>5. Config'
    BY <2>1 DEF LockInv, Config, CandidateOwnsConfig, CandidateWriteHeld,
                isWriteHeld, OwnsConfigSession
  <2>6. handler_pc' \in HandlerPc /\ handler_state' \in HandlerState
    BY <2>1 DEF LockInv, HandlerPc
  <2>7. QED
    BY SMTT(30), <2>2, <2>3, <2>4, <2>5, <2>6 DEF LockInv
<1>6. QED
  BY <1>1, <1>2, <1>3, <1>4, <1>5 DEF StateEvent, Handler
=============================================================================
