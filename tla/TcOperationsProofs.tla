------------------------- MODULE TcOperationsProofs -------------------------
(*****************************************************************************)
(* The safety properties of TcOperations, proved for any number of sessions  *)
(* and threads from the invariant of TcLockProofs.                           *)
(*****************************************************************************)
EXTENDS TcThreadProofs

\* The tuples of variables are transparent throughout.
USE DEF configVars, ownerVars, writerVars, rwVars, stateVars, handlerVars

\* The initial state satisfies the invariant.
LEMMA InitInv == Init => IInv
<1> SUFFICES ASSUME Init PROVE IInv
  OBVIOUS
<1> USE DEF Init, LockInit, LockFree
<1>1. TypeOK
  <2>1. LockTypeOK
    <3>1. 0 \in 0 .. UINT32_MAX
      BY WrLockedIsLarge
    <3>2. QED
      BY Zenon, <3>1
      DEF LockTypeOK, AnySession, TcNotifyOperation, TcWriteOperation, TcState,
          AuditPc
  <2>2. ThreadTypeOK
    BY IdleType DEF ThreadTypeOK
  <2>3. QED
    BY <2>1, <2>2 DEF TypeOK, ThreadTypeOK, HandlerState, HandlerPc
<1>2. ~isWriteHeld
  BY WrLockedIsLarge DEF isWriteHeld, RW_OWNER_WRLOCKED
<1>3. HandlerOrder
  BY Zenon, <1>2 DEF HandlerOrder, InTransition
<1>4. Owners
  BY <1>2, FS_EmptySet DEF Owners, ReaderCount, ReadLocks, InTransition, NoMissedWakeUp
<1>5. Config
  BY <1>2 DEF Config, CandidateOwnsConfig, CandidateWriteHeld
<1>6. Writers
  BY DEF Writers, OneWriter, Writing, Idle
<1>7. QED
  BY <1>1, <1>3, <1>4, <1>5, <1>6 DEF IInv

\* The inductive invariant holds in every state.
THEOREM Invariance == Spec => []IInv
<1>1. IInv /\ [Next]_vars => IInv'
  <2> SUFFICES ASSUME IInv, [Next]_vars PROVE IInv'
    OBVIOUS
  <2>1. LockInv /\ ThreadTypeOK /\ Writers
    BY DEF IInv, LockInv, ThreadTypeOK, TypeOK
  <2>2. LockInv' /\ ThreadTypeOK' /\ Writers'
    BY <2>1, LockInvStep, ThreadTypeStep, WritersStep
  <2>3. QED
    BY <2>2 DEF IInv, LockInv, ThreadTypeOK, TypeOK
<1>2. QED
  BY <1>1, InitInv, PTL DEF Spec

\* Every variable of the lock table, of the threads and of the handler keeps its
\* type; the owner counts stay within 32 bits, and a configuration mode that is taken
\* has a number that is not 0 (GetConfigId).
THEOREM TypeCorrect == Spec => []TypeOK
BY Invariance, PTL DEF IInv

\* The reader count of tc_module_data.hh agrees with the read sessions of tc_lock.cc.
THEOREM ReaderCountHolds == Spec => []ReaderCount
<1>1. IInv => ReaderCount
  BY DEF IInv, Owners
<1>2. QED
  BY <1>1, Invariance, PTL

\* Readers and state transitions exclude the writer if tc.conf wants it so.
THEOREM ReadersExcludeWriterHolds == Spec => []ReadersExcludeWriter
<1>1. IInv => ReadersExcludeWriter
  BY DEF IInv, Owners, HandlerOrder, ReadersExcludeWriter
<1>2. QED
  BY <1>1, Invariance, PTL

\* At most one write operation is executed at a time.
THEOREM OneWriterHolds == Spec => []OneWriter
<1>1. IInv => OneWriter
  BY DEF IInv, Writers
<1>2. QED
  BY <1>1, Invariance, PTL

\* A commit or an abort owns the configuration session while it is executed.
THEOREM CandidateOwnsConfigHolds == Spec => []CandidateOwnsConfig
<1>1. IInv => CandidateOwnsConfig
  BY DEF IInv, Config
<1>2. QED
  BY <1>1, Invariance, PTL

\* The waiting loop of TcAcquireReadLockForStateTransition is never entered.
THEOREM TransitionNeverWaitsHolds == Spec => []TransitionNeverWaits
<1>1. IInv => TransitionNeverWaits
  BY Zenon, TcLockAssumption
  DEF IInv, HandlerOrder, Late, InTransition, TransitionNeverWaits,
      TransitionMustWait, canReadLock, w_waiter, isWriteHeld
<1>2. QED
  BY <1>1, Invariance, PTL

\* Without simultaneous reading and writing no wake-up of the audit is lost.
THEOREM NoMissedWakeUpHolds ==
    ASSUME ~Simultaneous
    PROVE  Spec => []NoMissedWakeUp
<1>1. IInv => NoMissedWakeUp
  BY DEF IInv, Owners
<1>2. QED
  BY <1>1, Invariance, PTL

\* While a commit or an abort is executed the ids of the configuration session
\* stay as they are.
THEOREM CandidateKeepsConfigHolds == Spec => CandidateKeepsConfig
<1> DEFINE A == CandidateWriteHeld /\ CandidateWriteHeld' =>
                  UNCHANGED <<session_id, config_id>>
<1>1. ASSUME LockInv, ClientLock \/ UNCHANGED lockVars
      PROVE  A
  <2>1. ASSUME NEW s, AcquireConfigLock(s) \/ ForceAcquireConfigLock(s)
        PROVE  ~CandidateWriteHeld
    BY <1>1, <2>1
    DEF AcquireConfigLock, ForceAcquireConfigLock, canAcquireConfigLock,
        canForceAcquireConfigLock, LockInv, Config, CandidateOwnsConfig,
        OwnsConfigSession
  <2>2. ASSUME NEW s, NEW id, NEW op \in {"ACQUIRE", "RELEASE"},
               NotifyConfigIdSessionIdDone(id, s, op)
        PROVE  ~CandidateWriteHeld
    <3>1. notify_operation # "NONE"
      BY Zenon, <2>2 DEF NotifyConfigIdSessionIdDone, canNotifyDone
    <3>2. QED
      BY <1>1, <3>1
      DEF LockInv, Config, CandidateOwnsConfig, OwnsConfigSession
  <2>3. ASSUME NEW s, NEW id, NEW op, NEW oper,
               \/ TcMarkSessionId(s) \/ ReleaseConfigLock(s, id)
               \/ AcquireWriteLock(s, op) \/ ReleaseWriteLock(s, op)
               \/ AcquireAutoSave(s, oper) \/ ReleaseAutoSave(s, oper)
               \/ AcquireReadLock(s) \/ AcquireReadLockAgain(s)
               \/ ReleaseReadLock(s)
        PROVE  UNCHANGED <<session_id, config_id>>
    BY <2>3 DEF TcMarkSessionId, ReleaseConfigLock, AcquireWriteLock,
                ReleaseWriteLock, AcquireAutoSave, ReleaseAutoSave,
                AcquireReadLock, AcquireReadLockAgain, ReleaseReadLock
  <2>4. ASSUME \/ AuditEnter \/ AuditSetupDone \/ AuditWake \/ AuditRelease
               \/ UNCHANGED lockVars
        PROVE  UNCHANGED <<session_id, config_id>>
    BY <2>4 DEF AuditEnter, AuditSetupDone, AuditWake, AuditRelease,
                AuditTryLock, lockVars
  <2>5. QED
    BY <1>1, <2>1, <2>2, <2>3, <2>4 DEF ClientLock
<1>2. ASSUME LockInv, StateEvent \/ Handler
      PROVE  A
  <2>1. CASE HandleActReset \/ HandleStopReset
    <3>1. w_operation' = "NONE"
      BY Zenon, <2>1 DEF HandleActReset, HandleStopReset,
                  ResetTcGlobalDataOnStateTransition
    <3>2. QED
      BY <3>1 DEF CandidateWriteHeld, CandidateWrite
  <2>2. CASE ~(HandleActReset \/ HandleStopReset)
    BY <1>2, <2>2
    DEF StateEvent, Handler, HandleStartLock, HandleActLock, HandleStopUpdate,
        HandleStartUpdate, HandleStartRelease, HandleActSetup, HandleActUpdate,
        HandleActSetupComplete, HandleActSetupCompleteFails,
        HandleActFailUpdate, HandleActRelease, lockVars, TcUpdateUncState,
        TcAcquireReadLockForStateTransition, TcReleaseReadLockForStateTransition
  <2>3. QED
    BY <2>1, <2>2
<1>3. IInv /\ [Next]_vars => [A]_vars
  BY <1>1, <1>2, NextParts
<1>4. QED
  BY <1>3, Invariance, PTL DEF Spec, CandidateKeepsConfig

\* After STOP the lock table grants nothing any more.
THEOREM NothingGrantedAfterStopHolds == Spec => NothingGrantedAfterStop
<1> DEFINE A == current_state = "STOP" =>
                  /\ read_sessions' \subseteq read_sessions
                  /\ isWriteHeld' => isWriteHeld
                  /\ is_taken' => is_taken
                  /\ is_enable' => is_enable
<1>1. ASSUME LockInv, ClientLock \/ UNCHANGED lockVars, current_state = "STOP"
      PROVE  A
  <2>1. \A s, what : ~TcOperationIsAllowed(s, what)
    BY <1>1 DEF TcOperationIsAllowed
  <2>2. ASSUME NEW s, NEW op, NEW oper,
               \/ AcquireConfigLock(s) \/ ForceAcquireConfigLock(s)
               \/ AcquireWriteLock(s, op) \/ AcquireAutoSave(s, oper)
               \/ AcquireReadLock(s) \/ AcquireReadLockAgain(s)
        PROVE  FALSE
    BY <2>1, <2>2
    DEF AcquireConfigLock, ForceAcquireConfigLock, AcquireWriteLock,
        AcquireAutoSave, AcquireReadLock, AcquireReadLockAgain, MayGetLock,
        canAcquireConfigLock, canForceAcquireConfigLock, canAcquireWriteLock
  <2>3. ASSUME NEW s, NEW id, NEW op,
               \/ TcMarkSessionId(s) \/ ReleaseConfigLock(s, id)
               \/ NotifyConfigIdSessionIdDone(id, s, op)
        PROVE  A
    BY <2>3 DEF TcMarkSessionId, ReleaseConfigLock, NotifyConfigIdSessionIdDone,
                isWriteHeld
  <2>4. ASSUME NEW s, NEW op, NEW oper,
               ReleaseWriteLock(s, op) \/ ReleaseAutoSave(s, oper)
        PROVE  A
    BY <2>4, WrLockedIsLarge
    DEF ReleaseWriteLock, ReleaseAutoSave, unlockWriter, isWriteHeld,
        RW_OWNER_WRLOCKED
  <2>5. ASSUME NEW s \in Sessions, ReleaseReadLock(s)
        PROVE  A
    BY <1>1, <2>5, UnlockReaderLeavesWriter DEF ReleaseReadLock
  <2>6. CASE AuditEnter \/ AuditSetupDone \/ AuditWake \/ AuditRelease
               \/ UNCHANGED lockVars
    <3>1. ~AuditEnter /\ ~AuditSetupDone
      BY <1>1, <2>1 DEF AuditEnter, MayGetLock, AuditSetupDone, LockInv, HandlerOrder
    <3>2. QED
      BY <2>1, <2>6, <3>1, WrLockedIsLarge
      DEF AuditWake, AuditRelease, lockVars, isWriteHeld, RW_OWNER_WRLOCKED
  <2>7. QED
    BY Zenon, <1>1, <2>2, <2>3, <2>4, <2>5, <2>6 DEF ClientLock
<1>2. ASSUME LockInv, StateEvent \/ Handler, current_state = "STOP"
      PROVE  A
  <2>1. CASE HandleStopUpdate \/ HandleStartUpdate \/ HandleActUpdate
             \/ HandleActFailUpdate \/ HandleActSetup \/ HandleActSetupComplete
             \/ HandleActSetupCompleteFails
    BY <2>1 DEF HandleStopUpdate, HandleStartUpdate, HandleActUpdate,
                HandleActFailUpdate, HandleActSetup, HandleActSetupComplete,
                HandleActSetupCompleteFails, TcUpdateUncState, lockVars, isWriteHeld
  <2>2. CASE HandleStartLock \/ HandleActLock
    BY <1>2, <2>2 DEF HandleStartLock, HandleActLock, MayGetLock,
                TcAcquireReadLockForStateTransition, TcOperationIsAllowed
  <2>3. CASE HandleStartRelease \/ HandleActRelease
    <3>1. InTransition /\ handler_state # "STOP"
      BY <1>2, <2>3 DEF HandleStartRelease, HandleActRelease, LockInv,
                        HandlerOrder, InTransition
    <3>2. QED
      BY <1>2, <2>3, <3>1, UnlockReaderLeavesWriter
      DEF HandleStartRelease, HandleActRelease, TcReleaseReadLockForStateTransition
  <2>4. CASE HandleActReset \/ HandleStopReset
    BY <2>4, WrLockedIsLarge
    DEF HandleActReset, HandleStopReset, ResetTcGlobalDataOnStateTransition,
        isWriteHeld, RW_OWNER_WRLOCKED
  <2>5. QED
    BY <1>2, <2>1, <2>2, <2>3, <2>4 DEF StateEvent, Handler
<1>3. IInv /\ [Next]_vars => [A]_vars
  BY <1>1, <1>2, NextParts
<1>4. QED
  BY <1>3, Invariance, PTL DEF Spec, NothingGrantedAfterStop

\* With simultaneous reading and writing the flags of DB_MGMT and LAUNCHER and
\* the write lock exclude each other.
THEOREM ManagementFlagsExcludeWriterHolds ==
    Spec => []ManagementFlagsExcludeWriter
<1> USE DEF ManagementFlagsExcludeWriter
<1>1. Init => ManagementFlagsExcludeWriter
  BY DEF Init, LockInit, LockFree
<1>2. ASSUME ManagementFlagsExcludeWriter, LockInv,
             ClientLock \/ UNCHANGED lockVars
      PROVE  ManagementFlagsExcludeWriter'
  <2>1. ASSUME NEW s, NEW id, NEW op,
               \/ AcquireConfigLock(s) \/ ForceAcquireConfigLock(s)
               \/ TcMarkSessionId(s) \/ ReleaseConfigLock(s, id)
               \/ NotifyConfigIdSessionIdDone(id, s, op)
        PROVE  UNCHANGED rwVars
    BY <2>1 DEF AcquireConfigLock, ForceAcquireConfigLock, TcMarkSessionId,
                ReleaseConfigLock, NotifyConfigIdSessionIdDone
  <2>2. ASSUME NEW s, \/ AcquireReadLock(s) \/ AcquireReadLockAgain(s)
                      \/ ReleaseReadLock(s)
        PROVE  ManagementFlagsExcludeWriter'
    BY Zenon, <1>2, <2>2
    DEF AcquireReadLock, AcquireReadLockAgain, ReleaseReadLock, setReader,
        unlockReader, canReadLock, isWriteHeld
  <2>3. ASSUME NEW s, NEW op, NEW oper,
               \/ AcquireWriteLock(s, op) \/ ReleaseWriteLock(s, op)
               \/ AcquireAutoSave(s, oper) \/ ReleaseAutoSave(s, oper)
        PROVE  ManagementFlagsExcludeWriter'
    <3>1. CASE AcquireWriteLock(s, op) \/ AcquireAutoSave(s, oper)
      BY <1>2, <3>1
      DEF AcquireWriteLock, canAcquireWriteLock, AcquireAutoSave, setWriter,
          canWriteLock, isWriteHeld
    <3>2. CASE ReleaseWriteLock(s, op) \/ ReleaseAutoSave(s, oper)
      BY <1>2, <3>2, WrLockedIsLarge
      DEF ReleaseWriteLock, ReleaseAutoSave, unlockWriter, isWriteHeld,
          RW_OWNER_WRLOCKED
    <3>3. QED
      BY <2>3, <3>1, <3>2
  <2>4. CASE AuditEnter \/ AuditSetupDone \/ AuditWake \/ AuditRelease
               \/ UNCHANGED lockVars
    BY SMTT(30), <1>2, <2>4, WrLockedIsLarge
    DEF AuditEnter, AuditSetupDone, AuditWake, AuditRelease, AuditTryLock,
        setWriter, canWriteLock, lockVars, isWriteHeld, RW_OWNER_WRLOCKED
  <2>5. QED
    BY <1>2, <2>1, <2>2, <2>3, <2>4 DEF ClientLock, isWriteHeld
<1>3. ASSUME ManagementFlagsExcludeWriter, StateEvent \/ Handler
      PROVE  ManagementFlagsExcludeWriter'
  <2>1. CASE HandleStartLock \/ HandleActLock \/ HandleStartRelease
               \/ HandleActRelease
    BY Zenon, <1>3, <2>1, TcLockAssumption
    DEF HandleStartLock, HandleActLock, HandleStartRelease, HandleActRelease,
        TcAcquireReadLockForStateTransition, setReader,
        TcReleaseReadLockForStateTransition, unlockReader, isWriteHeld
  <2>2. CASE HandleActReset \/ HandleStopReset
    BY <2>2, WrLockedIsLarge
    DEF HandleActReset, HandleStopReset, ResetTcGlobalDataOnStateTransition
  <2>3. CASE HandleStopUpdate \/ HandleStartUpdate \/ HandleActUpdate
             \/ HandleActFailUpdate \/ HandleActSetup \/ HandleActSetupComplete
             \/ HandleActSetupCompleteFails
    BY <1>3, <2>3
    DEF HandleStopUpdate, HandleStartUpdate, HandleActUpdate,
        HandleActFailUpdate, HandleActSetup, HandleActSetupComplete,
        HandleActSetupCompleteFails, TcUpdateUncState, lockVars, isWriteHeld
  <2>4. QED
    BY <1>3, <2>1, <2>2, <2>3 DEF StateEvent, Handler
<1>4. IInv /\ ManagementFlagsExcludeWriter /\ [Next]_vars
        => ManagementFlagsExcludeWriter'
  BY <1>2, <1>3, NextParts
<1>5. QED
  BY <1>1, <1>4, Invariance, PTL DEF Spec
=============================================================================
