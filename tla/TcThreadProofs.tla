--------------------------- MODULE TcThreadProofs ---------------------------
(*****************************************************************************)
(* Proofs about the threads of TcOperations: what they do to the lock table  *)
(* is one of its operations, and a thread that writes holds the write lock.  *)
(*****************************************************************************)
EXTENDS TcLockProofs

\* The tuples of variables are transparent throughout.
USE DEF configVars, ownerVars, writerVars, rwVars, stateVars, handlerVars

\* Every write operation of a thread is one of TcWriteOperation.
LEMMA WriteOperationType ==
    \A oper \in WriteOpers : WriteOperation(oper) \in TcWriteOperation
BY DEF WriteOpers, CandOpers, WriteOperation, TcWriteOperation

\* What the fields of an operation can be.
LEMMA RunningType ==
    ASSUME NEW p \in Phase, NEW oper \in Opers, NEW s \in AnySession,
           NEW id \in 0 .. UINT32_MAX
    PROVE  Running(p, oper, s, id) \in
             [phase : Phase, oper : Opers, client : AnySession,
              session_id : AnySession, config_id : 0 .. UINT32_MAX]
BY DEF Running

\* The fields of an idle thread.
LEMMA IdleType ==
    Idle \in [phase : Phase, oper : Opers, client : AnySession,
              session_id : AnySession, config_id : 0 .. UINT32_MAX]
BY WrLockedIsLarge DEF Idle, Phase, Opers, AnySession

\* A step of a thread leaves the handler alone and does to the lock table what
\* ClientLock allows.
LEMMA OperationIsClientLock ==
    ASSUME ThreadTypeOK, LockTypeOK, NEW t \in Threads, Operation(t)
    PROVE  UNCHANGED handlerVars /\ (ClientLock \/ UNCHANGED lockVars)
<1> DEFINE op == thread[t]
<1>1. /\ op.session_id \in AnySession
      /\ op.config_id \in 0 .. UINT32_MAX
      /\ op.oper \in Opers
  BY DEF ThreadTypeOK
<1>2. CASE TcGetCandidateExclusion(t)
  BY <1>1, <1>2, WriteOperationType
  DEF TcGetCandidateExclusion, ClientLock, WriteOpers
<1>3. CASE TcGetReleaseExclusion(t)
  BY <1>1, <1>3 DEF TcGetReleaseExclusion, ClientLock
<1>4. CASE FillTcMsgData(t) \/ CheckMarkedSession(t) \/ ReleaseConfigSession(t)
  BY <1>4 DEF FillTcMsgData, CheckMarkedSession, ReleaseConfigSession
<1>5. CASE ConfigReleaseExclusion(t)
  BY <1>1, <1>5 DEF ConfigReleaseExclusion, ClientLock
<1>6. CASE WriteReleaseExclusion(t)
  BY <1>1, <1>6, WriteOperationType DEF WriteReleaseExclusion, ClientLock
<1>7. CASE AutoSaveReleaseExclusion(t)
  BY <1>1, <1>7 DEF AutoSaveReleaseExclusion, ClientLock
<1>8. CASE ReleaseSessionRead(t)
  BY <1>1, <1>8 DEF ReleaseSessionRead, ClientLock, LockTypeOK
<1>9. CASE ReleaseSessionMark(t)
  BY <1>1, <1>9 DEF ReleaseSessionMark, ClientLock
<1>10. QED
  BY <1>2, <1>3, <1>4, <1>5, <1>6, <1>7, <1>8, <1>9 DEF Operation

\* So does the beginning of an operation.
LEMMA RequestIsClientLock ==
    ASSUME NEW t \in Threads, NEW s \in Sessions, Request(t, s)
    PROVE  UNCHANGED handlerVars /\ (ClientLock \/ UNCHANGED lockVars)
<1>1. s \in AnySession
  BY DEF AnySession
<1>2. ASSUME NEW oper, Validate(t, s, oper)
      PROVE  UNCHANGED handlerVars /\ UNCHANGED lockVars
  BY <1>2 DEF Validate
<1>3. ASSUME NEW oper, TcGetExclusion(t, s, oper)
      PROVE  UNCHANGED handlerVars /\ ClientLock
  BY <1>1, <1>3, WriteOperationType DEF TcGetExclusion, ClientLock
<1>4. CASE TcReleaseSession(t, s)
  BY <1>4 DEF TcReleaseSession
<1>5. QED
  BY <1>2, <1>3, <1>4 DEF Request

\* No step breaks LockInv.
LEMMA LockInvStep ==
    ASSUME LockInv, ThreadTypeOK, [Next]_vars
    PROVE  LockInv'
<1>1. ASSUME NEW t \in Threads, Operation(t)
      PROVE  LockInv'
  BY <1>1, OperationIsClientLock, ClientLockStep DEF LockInv
<1>2. ASSUME NEW t \in Threads, NEW s \in Sessions, Request(t, s)
      PROVE  LockInv'
  BY <1>2, RequestIsClientLock, ClientLockStep
<1>3. ASSUME NEW s \in Sessions, Read(s)
      PROVE  LockInv'
  BY <1>3, ClientLockStep
  DEF Read, ReadAcquire, ReadAcquireAgain, ReadRelease, ClientLock
<1>4. CASE DriverAudit
  BY <1>4, ClientLockStep DEF DriverAudit, ClientLock
<1>5. CASE UNCHANGED vars
  BY <1>5, ClientLockStep DEF vars
<1>6. QED
  BY <1>1, <1>2, <1>3, <1>4, <1>5, HandlerLockStep DEF Next

\* A step is a step of the handler, or a client's step on the lock table.
LEMMA NextParts ==
    ASSUME IInv, [Next]_vars
    PROVE  LockInv /\ (StateEvent \/ Handler \/ ClientLock \/ UNCHANGED lockVars)
<1>1. LockInv /\ ThreadTypeOK /\ LockTypeOK
  BY DEF IInv, LockInv, ThreadTypeOK, TypeOK
<1>2. ASSUME NEW s \in Sessions, Read(s)
      PROVE  ClientLock
  BY <1>2 DEF Read, ReadAcquire, ReadAcquireAgain, ReadRelease, ClientLock
<1>3. CASE DriverAudit
  BY <1>1, <1>3 DEF DriverAudit, ClientLock
<1>4. CASE UNCHANGED vars
  BY <1>1, <1>4 DEF vars
<1>5. QED
  BY <1>1, <1>2, <1>3, <1>4, OperationIsClientLock, RequestIsClientLock DEF Next

\* Giving back a read lock never looks like taking the write lock.
LEMMA UnlockReaderLeavesWriter ==
    ASSUME LockInv, NEW s, unlockReader(s),
           s \in read_sessions \/ (InTransition /\ handler_state # "STOP")
    PROVE  isWriteHeld' => isWriteHeld
<1>1. ReadLocks \in Nat /\ ReadLocks < UINT32_MAX
  BY Readers DEF LockInv
<1>2. ~Simultaneous => rw_owner = ReadLocks
  BY DEF LockInv, Owners, ReaderCount
<1>3. QED
  BY <1>1, <1>2, WrLockedIsLarge DEF unlockReader, isWriteHeld, RW_OWNER_WRLOCKED

\* No step breaks the types of the threads.
LEMMA ThreadTypeStep ==
    ASSUME LockInv, ThreadTypeOK, [Next]_vars
    PROVE  ThreadTypeOK'
<1> DEFINE Rec == [phase : Phase, oper : Opers, client : AnySession,
                   session_id : AnySession, config_id : 0 .. UINT32_MAX]
<1>1. /\ Idle \in Rec
      /\ config_id \in 0 .. UINT32_MAX
      /\ session_id \in AnySession
      /\ NoSession \in AnySession
      /\ 0 \in 0 .. UINT32_MAX
  BY IdleType, WrLockedIsLarge DEF LockInv, LockTypeOK, AnySession
<1>2. ASSUME NEW t \in Threads, NEW r \in Rec,
             thread' = [thread EXCEPT ![t] = r]
      PROVE  ThreadTypeOK'
  BY <1>2 DEF ThreadTypeOK
<1>3. ASSUME NEW t \in Threads, NEW p \in Phase
      PROVE  [thread[t] EXCEPT !.phase = p] \in Rec
  BY DEF ThreadTypeOK
<1>4. ASSUME NEW t \in Threads, Operation(t)
      PROVE  ThreadTypeOK'
  <2>1. thread[t] \in Rec
    BY DEF ThreadTypeOK
  <2>2. {"execute", "notify", "marked", "exclusion"} \subseteq Phase
        /\ "CONFIG_RELEASE" \in Opers
    BY DEF Phase, Opers, ConfigOpers
  <2>3. CASE TcGetCandidateExclusion(t) \/ TcGetReleaseExclusion(t)
    BY SMTT(30), <2>3, <2>2, <1>1, <1>2, <1>3
    DEF TcGetCandidateExclusion, TcGetReleaseExclusion
  <2>4. CASE FillTcMsgData(t)
    <3> DEFINE s == IF current_state # "ACT" THEN thread[t].session_id
                    ELSE IF is_taken THEN session_id ELSE NoSession
               id == IF ConfigSessionExists THEN config_id ELSE 0
               r == [thread[t] EXCEPT !.phase = "notify", !.session_id = s,
                                      !.config_id = id]
    <3>1. thread' = [thread EXCEPT ![t] = r]
      BY <2>4 DEF FillTcMsgData
    <3>2. s \in AnySession /\ id \in 0 .. UINT32_MAX
      BY <2>1, <1>1
    <3>3. r \in Rec
      BY ZenonT(30), <2>1, <2>2, <3>2
    <3>4. QED
      BY Zenon, <3>1, <3>3, <1>2
  <2>5. CASE WriteReleaseExclusion(t)
    BY <2>5, <2>2, <1>1, <1>2, <1>3 DEF WriteReleaseExclusion
  <2>6. CASE CheckMarkedSession(t)
    <3>1. Running("exclusion", "CONFIG_RELEASE", thread[t].session_id,
                  thread[t].config_id) \in Rec
      BY <2>1, <2>2, RunningType
    <3>2. QED
      BY Zenon, <2>6, <3>1, <1>1, <1>2 DEF CheckMarkedSession
  <2>7. CASE ReleaseConfigSession(t)
    <3>1. [thread[t] EXCEPT !.phase = "exclusion", !.oper = "CONFIG_RELEASE",
             !.session_id = session_id, !.config_id = config_id] \in Rec
      BY Zenon, <2>1, <2>2, <1>1
    <3>2. QED
      BY Zenon, <2>7, <3>1, <1>1, <1>2 DEF ReleaseConfigSession
  <2>8. CASE ConfigReleaseExclusion(t) \/ AutoSaveReleaseExclusion(t)
               \/ ReleaseSessionRead(t) \/ ReleaseSessionMark(t)
    BY <2>8, <1>1, <1>2
    DEF ConfigReleaseExclusion, AutoSaveReleaseExclusion, ReleaseSessionRead,
        ReleaseSessionMark
  <2>9. QED
    BY <1>4, <2>3, <2>4, <2>5, <2>6, <2>7, <2>8 DEF Operation
<1>5. ASSUME NEW t \in Threads, NEW s \in Sessions, Request(t, s)
      PROVE  ThreadTypeOK'
  <2>1. s \in AnySession
    BY DEF AnySession
  <2>2. ASSUME NEW oper \in ValidatedOpers, Validate(t, s, oper)
        PROVE  ThreadTypeOK'
    <3>1. "exclusion" \in Phase /\ oper \in Opers
      BY DEF Phase, Opers, ValidatedOpers, WriteOpers, ConfigOpers
    <3>2. Running("exclusion", oper, s, config_id) \in Rec
      BY <1>1, <2>1, <3>1, RunningType
    <3>3. QED
      BY Zenon, <2>2, <3>2, <1>2 DEF Validate
  <2>3. ASSUME NEW oper, TcGetExclusion(t, s, oper)
        PROVE  ThreadTypeOK'
    <3>1. "execute" \in Phase /\ oper \in Opers
      BY <2>3 DEF TcGetExclusion, Phase, Opers, ConfigOpers
    <3>2. Running("execute", oper, s, 0) \in Rec
      BY <1>1, <2>1, <3>1, RunningType
    <3>3. QED
      BY Zenon, <2>3, <3>2, <1>2 DEF TcGetExclusion
  <2>4. CASE TcReleaseSession(t, s)
    <3>1. PICK p \in {"read", "mark", "session"} :
            thread' = [thread EXCEPT ![t] = Running(p, "RELEASE_SESSION", s, 0)]
      BY Zenon, <2>4 DEF TcReleaseSession
    <3>2. p \in Phase /\ "RELEASE_SESSION" \in Opers
      BY DEF Phase, Opers
    <3>3. Running(p, "RELEASE_SESSION", s, 0) \in Rec
      BY <1>1, <2>1, <3>2, RunningType
    <3>4. QED
      BY Zenon, <3>1, <3>3, <1>2
  <2>5. QED
    BY <1>5, <2>2, <2>3, <2>4 DEF Request
<1>6. CASE UNCHANGED thread
  BY <1>6 DEF ThreadTypeOK
<1>7. QED
  <2>1. CASE StateEvent \/ Handler
    BY <2>1, <1>6
    DEF StateEvent, Handler, HandleStartLock, HandleActLock, HandleStopUpdate,
        HandleStartUpdate, HandleStartRelease, HandleActReset, HandleActSetup,
        HandleActUpdate, HandleActSetupComplete, HandleActSetupCompleteFails,
        HandleActFailUpdate, HandleActRelease, HandleStopReset, HandlerStep
  <2>2. ASSUME NEW s \in Sessions, Read(s)
        PROVE  UNCHANGED thread
    BY <2>2 DEF Read, ReadAcquire, ReadAcquireAgain, ReadRelease
  <2>3. QED
    BY <1>4, <1>5, <1>6, <2>1, <2>2 DEF Next, DriverAudit, vars

-----------------------------------------------------------------------------
(* Writers *)

\* A step that starts no write operation and leaves the write lock as it is.
LEMMA WritersKept ==
    ASSUME Writers, UNCHANGED <<handler_state, writerVars>>, Late => Late',
           isWriteHeld => isWriteHeld',
           audit_pc' = "write" => audit_pc = "write",
           \A u \in Threads : Writing(u)' => Writing(u) /\ thread'[u] = thread[u]
    PROVE  Writers'
BY Zenon DEF Writers, OneWriter, WritesAs, AutoSaveWrite, WriteOperation, AutoSaveOpers

\* While the write lock is free and the state is ACT nobody writes.
LEMMA NobodyWrites ==
    ASSUME LockInv, Writers, canWriteLock, current_state = "ACT"
    PROVE  (\A t \in Threads : ~Writing(t)) /\ audit_pc # "write"
<1>1. ~isWriteHeld /\ handler_state # "STOP"
  BY WrLockedIsLarge
  DEF canWriteLock, isWriteHeld, RW_OWNER_WRLOCKED, LockInv, HandlerOrder
<1>2. QED
  BY <1>1 DEF Writers

\* A thread takes the write lock.
LEMMA WriterStarts ==
    ASSUME LockInv, Writers, current_state = "ACT", canWriteLock,
           UNCHANGED handlerVars, UNCHANGED audit_pc,
           NEW t \in Threads, setWriter(thread'[t].session_id, WritesAs(t)'),
           \A u \in Threads \ {t} : thread'[u] = thread[u]
    PROVE  Writers'
<1>1. (\A u \in Threads : ~Writing(u)) /\ audit_pc # "write"
  BY NobodyWrites
<1>2. Late'
  BY DEF LockInv, HandlerOrder, Late
<1>3. isWriteHeld'
  BY DEF setWriter, isWriteHeld
<1>4. \A u \in Threads \ {t} : ~Writing(u)'
  BY <1>1 DEF Writing
<1>5. QED
  BY <1>1, <1>2, <1>3, <1>4 DEF Writers, OneWriter, setWriter

\* A step after which nobody writes.
LEMMA WritersDone ==
    ASSUME \A u \in Threads : ~Writing(u)', audit_pc' # "write"
    PROVE  Writers'
BY DEF Writers, OneWriter

\* The reading and the configuration part of the table leave the writer alone.
LEMMA KeepsWriteLock ==
    ASSUME LockInv, UNCHANGED handlerVars,
           \/ UNCHANGED lockVars
           \/ \E s, id, op : \/ AcquireConfigLock(s) \/ ForceAcquireConfigLock(s)
                             \/ TcMarkSessionId(s) \/ ReleaseConfigLock(s, id)
                             \/ NotifyConfigIdSessionIdDone(id, s, op)
           \/ \E s : \/ AcquireReadLock(s) \/ AcquireReadLockAgain(s)
                    \/ ReleaseReadLock(s)
    PROVE  /\ UNCHANGED <<handler_state, writerVars>>
           /\ Late => Late'
           /\ isWriteHeld => isWriteHeld'
           /\ audit_pc' = "write" => audit_pc = "write"
<1>1. Late => Late'
  BY DEF Late
<1>2. CASE UNCHANGED lockVars
  BY SMTT(30), <1>1, <1>2 DEF lockVars, isWriteHeld
<1>3. ASSUME NEW s, NEW id, NEW op,
             \/ AcquireConfigLock(s) \/ ForceAcquireConfigLock(s)
             \/ TcMarkSessionId(s) \/ ReleaseConfigLock(s, id)
             \/ NotifyConfigIdSessionIdDone(id, s, op)
      PROVE  UNCHANGED <<rwVars, audit_pc>>
  BY Zenon, <1>3 DEF AcquireConfigLock, ForceAcquireConfigLock, TcMarkSessionId,
              ReleaseConfigLock, NotifyConfigIdSessionIdDone
<1>4. ASSUME NEW s, \/ AcquireReadLock(s) \/ AcquireReadLockAgain(s)
                    \/ ReleaseReadLock(s)
      PROVE  /\ UNCHANGED writerVars
             /\ isWriteHeld => isWriteHeld'
             /\ audit_pc' = "write" => audit_pc = "write"
  BY Zenon, <1>4 DEF AcquireReadLock, AcquireReadLockAgain, ReleaseReadLock, setReader,
              unlockReader, wakeUpIfNoReader, wakeUp, isWriteHeld, canReadLock,
              LockInv, Owners
<1>5. QED
  BY <1>1, <1>2, <1>3, <1>4 DEF isWriteHeld

\* Thread t does not write after the step, the other threads are not concerned.
LEMMA ThreadQuiet ==
    ASSUME ThreadTypeOK, NEW t \in Threads, NEW r,
           thread' = [thread EXCEPT ![t] = r],
           r.phase = "execute" =>
             r.oper \notin WriteOpers \cup {"AUTOSAVE_ENABLE", "AUTOSAVE_DISABLE"}
    PROVE  \A u \in Threads : Writing(u)' =>
             u # t /\ Writing(u) /\ thread'[u] = thread[u]
BY DEF ThreadTypeOK, Writing

\* An operation that goes on keeps Writers.
LEMMA OperationWriters ==
    ASSUME LockInv, ThreadTypeOK, Writers, NEW t \in Threads, Operation(t)
    PROVE  Writers'
<1> DEFINE op == thread[t]
<1>1. /\ Idle.phase # "execute"
      /\ [op EXCEPT !.phase = "notify"].phase # "execute"
      /\ [op EXCEPT !.phase = "marked"].phase # "execute"
  BY DEF Idle, ThreadTypeOK
<1>2. CASE TcGetCandidateExclusion(t)
  <2>1. CASE canAcquireWriteLock(op.session_id, WriteOperation(op.oper))
    <3>1. /\ canWriteLock /\ current_state = "ACT"
          /\ setWriter(op.session_id, WriteOperation(op.oper))
          /\ UNCHANGED <<handlerVars, audit_pc>>
          /\ thread' = [thread EXCEPT ![t].phase = "execute"]
          /\ op.oper \in CandOpers
      BY <1>2, <2>1
      DEF TcGetCandidateExclusion, AcquireWriteLock, canAcquireWriteLock,
          MayGetLock, TcOperationIsAllowed
    <3>2. /\ thread'[t].session_id = op.session_id /\ thread'[t].oper = op.oper
          /\ \A u \in Threads \ {t} : thread'[u] = thread[u]
      BY <3>1 DEF ThreadTypeOK
    <3>3. WritesAs(t)' = WriteOperation(op.oper)
      BY <3>1, <3>2 DEF WritesAs, WriteOperation, CandOpers, AutoSaveOpers
    <3>4. QED
      BY SMTT(30), <3>1, <3>2, <3>3, WriterStarts
  <2>2. CASE ~canAcquireWriteLock(op.session_id, WriteOperation(op.oper))
    <3>1. UNCHANGED lockVars /\ UNCHANGED handlerVars
          /\ thread' = [thread EXCEPT ![t] = Idle]
      BY <1>2, <2>2 DEF TcGetCandidateExclusion
    <3>2. QED
      BY Zenon, <3>1, <1>1, ThreadQuiet, KeepsWriteLock, WritersKept
  <2>3. QED
    BY <2>1, <2>2
<1>3. CASE TcGetReleaseExclusion(t)
  <2>1. PICK r \in {Idle, [op EXCEPT !.phase = "notify"]} :
          thread' = [thread EXCEPT ![t] = r]
    BY <1>3 DEF TcGetReleaseExclusion
  <2>2. UNCHANGED handlerVars
        /\ (UNCHANGED lockVars \/ \E s, id : ReleaseConfigLock(s, id))
    BY <1>3 DEF TcGetReleaseExclusion
  <2>3. QED
    BY Zenon, <2>1, <2>2, <1>1, ThreadQuiet, KeepsWriteLock, WritersKept
<1>4. CASE FillTcMsgData(t)
  <2>1. PICK s, id : thread' = [thread EXCEPT ![t] =
                       [op EXCEPT !.phase = "notify", !.session_id = s,
                                  !.config_id = id]]
    BY Zenon, <1>4 DEF FillTcMsgData
  <2>2. [op EXCEPT !.phase = "notify", !.session_id = s,
                   !.config_id = id].phase # "execute"
    BY DEF ThreadTypeOK
  <2>3. UNCHANGED lockVars /\ UNCHANGED handlerVars
    BY <1>4 DEF FillTcMsgData
  <2>4. \A u \in Threads : Writing(u)' => Writing(u) /\ thread'[u] = thread[u]
    BY Zenon, <2>1, <2>2, ThreadQuiet
  <2>5. QED
    BY Zenon, <2>3, <2>4, KeepsWriteLock, WritersKept
<1>5. CASE CheckMarkedSession(t)
  <2>1. Running("exclusion", "CONFIG_RELEASE", op.session_id,
                op.config_id).phase # "execute"
    BY DEF Running
  <2>2. QED
    BY Zenon, <1>1, <1>5, <2>1, ThreadQuiet, KeepsWriteLock, WritersKept
    DEF CheckMarkedSession
<1>6. CASE ReleaseConfigSession(t)
  <2>1. [op EXCEPT !.phase = "exclusion", !.oper = "CONFIG_RELEASE",
           !.session_id = session_id, !.config_id = config_id].phase # "execute"
    BY DEF ThreadTypeOK
  <2>2. PICK r : thread' = [thread EXCEPT ![t] = r] /\ r.phase # "execute"
    BY Zenon, <1>6, <2>1, <1>1 DEF ReleaseConfigSession
  <2>3. QED
    BY Zenon, <1>6, <2>2, ThreadQuiet, KeepsWriteLock, WritersKept DEF ReleaseConfigSession
<1>7. CASE ConfigReleaseExclusion(t)
  <2>1. UNCHANGED handlerVars /\ thread' = [thread EXCEPT ![t] = Idle]
        /\ (UNCHANGED lockVars
             \/ \E s, id, wh : NotifyConfigIdSessionIdDone(id, s, wh))
    BY <1>7 DEF ConfigReleaseExclusion
  <2>2. QED
    BY Zenon, <2>1, <1>1, ThreadQuiet, KeepsWriteLock, WritersKept
<1>8. CASE WriteReleaseExclusion(t)
  <2>1. PICK r \in {Idle, [op EXCEPT !.phase = "marked"]} :
          thread' = [thread EXCEPT ![t] = r]
    BY <1>8 DEF WriteReleaseExclusion
  <2>2. Writing(t)
    BY <1>8 DEF WriteReleaseExclusion, Writing
  <2>3. (\A u \in Threads : ~Writing(u)') /\ audit_pc # "write"
    BY Zenon, <2>1, <2>2, <1>1, ThreadQuiet DEF Writers, OneWriter
  <2>4. audit_pc' # "write"
    BY <1>8, <2>3
    DEF WriteReleaseExclusion, ReleaseWriteLock, unlockWriter, wakeUp, lockVars
  <2>5. QED
    BY <2>3, <2>4, WritersDone
<1>9. CASE AutoSaveReleaseExclusion(t)
  <2>1. UNCHANGED handlerVars /\ thread' = [thread EXCEPT ![t] = Idle]
    BY <1>9 DEF AutoSaveReleaseExclusion
  <2>2. \A u \in Threads : Writing(u)' =>
          u # t /\ Writing(u) /\ thread'[u] = thread[u]
    BY Zenon, <2>1, <1>1, ThreadQuiet
  <2>3. CASE op.oper = "AUTOSAVE_GET"
    <3>1. UNCHANGED <<rwVars, audit_pc>>
      BY <1>9, <2>3 DEF AutoSaveReleaseExclusion, ReleaseAutoSave, lockVars
    <3>2. QED
      BY <2>1, <2>2, <3>1, WritersKept DEF Late, isWriteHeld
  <2>4. CASE op.oper # "AUTOSAVE_GET"
    <3>1. Writing(t)
      BY <1>9, <2>4 DEF AutoSaveReleaseExclusion, Writing, AutoSaveOpers
    <3>2. (\A u \in Threads : ~Writing(u)') /\ audit_pc # "write"
      BY <2>2, <3>1 DEF Writers, OneWriter
    <3>3. audit_pc' # "write"
      BY <1>9, <3>2 DEF AutoSaveReleaseExclusion, ReleaseAutoSave,
                        unlockWriter, wakeUp, lockVars
    <3>4. QED
      BY <3>2, <3>3, WritersDone
  <2>5. QED
    BY <2>3, <2>4
<1>10. CASE ReleaseSessionRead(t) \/ ReleaseSessionMark(t)
  <2>1. UNCHANGED handlerVars /\ thread' = [thread EXCEPT ![t] = Idle]
        /\ (UNCHANGED lockVars
             \/ \E s : ReleaseReadLock(s) \/ TcMarkSessionId(s))
    BY <1>10 DEF ReleaseSessionRead, ReleaseSessionMark
  <2>2. QED
    BY Zenon, <2>1, <1>1, ThreadQuiet, KeepsWriteLock, WritersKept
<1>11. QED
  BY <1>2, <1>3, <1>4, <1>5, <1>6, <1>7, <1>8, <1>9, <1>10 DEF Operation

\* An operation that begins keeps Writers.
LEMMA RequestWriters ==
    ASSUME LockInv, ThreadTypeOK, Writers,
           NEW t \in Threads, NEW s \in Sessions, Request(t, s)
    PROVE  Writers'
<1>1. ASSUME NEW oper, Validate(t, s, oper)
      PROVE  Writers'
  <2>1. Running("exclusion", oper, s, config_id).phase # "execute"
    BY DEF Running
  <2>2. QED
    BY Zenon, <1>1, <2>1, ThreadQuiet, KeepsWriteLock, WritersKept DEF Validate
<1>2. CASE TcReleaseSession(t, s)
  <2>1. PICK p \in {"read", "mark", "session"} :
          thread' = [thread EXCEPT ![t] = Running(p, "RELEASE_SESSION", s, 0)]
    BY Zenon, <1>2 DEF TcReleaseSession
  <2>2. Running(p, "RELEASE_SESSION", s, 0).phase # "execute"
    BY DEF Running
  <2>3. UNCHANGED lockVars /\ UNCHANGED handlerVars
    BY <1>2 DEF TcReleaseSession
  <2>4. QED
    BY Zenon, <2>1, <2>2, <2>3, ThreadQuiet, KeepsWriteLock, WritersKept
<1>3. ASSUME NEW oper, TcGetExclusion(t, s, oper)
      PROVE  Writers'
  <2> DEFINE r == Running("execute", oper, s, 0)
  <2>1. UNCHANGED handlerVars /\ thread' = [thread EXCEPT ![t] = r]
    BY <1>3 DEF TcGetExclusion
  <2>2. /\ r.phase = "execute" /\ r.oper = oper /\ r.session_id = s
        /\ thread'[t] = r
        /\ \A u \in Threads \ {t} : thread'[u] = thread[u]
    BY <2>1 DEF Running, ThreadTypeOK
  <2>3. CASE AcquireConfigLock(s) /\ oper = "CONFIG_ACQUIRE"
    BY Zenon, <2>1, <2>2, <2>3, ThreadQuiet, KeepsWriteLock, WritersKept
    DEF WriteOpers, CandOpers
  <2>4. CASE ForceAcquireConfigLock(s) /\ oper = "CONFIG_ACQUIRE_FORCE"
    BY Zenon, <2>1, <2>2, <2>4, ThreadQuiet, KeepsWriteLock, WritersKept
    DEF WriteOpers, CandOpers
  <2>5. CASE AcquireWriteLock(s, WriteOperation(oper)) /\ oper \in WriteOpers
    <3>1. /\ canWriteLock /\ current_state = "ACT"
          /\ setWriter(s, WriteOperation(oper)) /\ UNCHANGED audit_pc
      BY <2>5 DEF AcquireWriteLock, canAcquireWriteLock, MayGetLock,
                  TcOperationIsAllowed
    <3>2. WritesAs(t)' = WriteOperation(oper)
      BY <2>2, <2>5 DEF WritesAs, WriteOperation, WriteOpers, CandOpers,
                        AutoSaveOpers
    <3>3. QED
      BY <2>1, <2>2, <3>1, <3>2, WriterStarts
  <2>6. CASE AcquireAutoSave(s, oper) /\ oper \in AutoSaveOpers
    <3>1. CASE oper = "AUTOSAVE_GET"
      <4>1. UNCHANGED <<rwVars, audit_pc>>
        BY <2>6, <3>1 DEF AcquireAutoSave
      <4>2. oper \notin WriteOpers \cup {"AUTOSAVE_ENABLE", "AUTOSAVE_DISABLE"}
        BY <3>1 DEF WriteOpers, CandOpers
      <4>3. \A u \in Threads : Writing(u)' =>
              u # t /\ Writing(u) /\ thread'[u] = thread[u]
        BY Zenon, <2>1, <2>2, <4>2, ThreadQuiet
      <4>4. QED
        BY SMTT(30), <2>1, <4>1, <4>3, WritersKept DEF Late, isWriteHeld
    <3>2. CASE oper # "AUTOSAVE_GET"
      <4>1. /\ canWriteLock /\ current_state = "ACT"
            /\ setWriter(s, AutoSaveWrite(oper)) /\ UNCHANGED audit_pc
        BY <2>6, <3>2 DEF AcquireAutoSave, MayGetLock, TcOperationIsAllowed,
                          AutoSaveOpers
      <4>2. WritesAs(t)' = AutoSaveWrite(oper)
        BY <2>2, <2>6 DEF WritesAs, AutoSaveWrite
      <4>3. QED
        BY <2>1, <2>2, <4>1, <4>2, WriterStarts
    <3>3. QED
      BY <3>1, <3>2
  <2>7. QED
    BY <1>3, <2>3, <2>4, <2>5, <2>6 DEF TcGetExclusion
<1>4. QED
  BY <1>1, <1>2, <1>3 DEF Request

\* A driver audit keeps Writers.
LEMMA AuditWriters ==
    ASSUME LockInv, Writers, DriverAudit
    PROVE  Writers'
<1>1. /\ UNCHANGED <<thread, handlerVars>>
      /\ \A u \in Threads : Writing(u)' => Writing(u) /\ thread'[u] = thread[u]
  BY DEF DriverAudit, Writing
<1>2. Late => Late'
  BY <1>1 DEF Late
<1>3. CASE AuditEnter
  BY <1>1, <1>2, <1>3, WritersKept DEF AuditEnter, isWriteHeld
<1>4. CASE AuditTryLock /\ current_state = "ACT"
  <2>1. CASE canWriteLock
    <3>1. (\A u \in Threads : ~Writing(u)') /\ isWriteHeld'
          /\ w_session_id' = NoSession /\ w_operation' = "AUDIT_DRIVER"
      BY SMTT(30), <1>1, <1>4, <2>1, NobodyWrites
      DEF AuditTryLock, setWriter, isWriteHeld
    <3>2. QED
      BY <3>1 DEF Writers, OneWriter
  <2>2. CASE ~canWriteLock
    BY <1>1, <1>2, <1>4, <2>2, WritersKept DEF AuditTryLock, isWriteHeld
  <2>3. QED
    BY <2>1, <2>2
<1>5. CASE AuditSetupDone
  BY <1>4, <1>5 DEF AuditSetupDone, LockInv, HandlerOrder
<1>6. CASE AuditWake
  <2>1. CASE TcOperationIsAllowed(NoSession, "WRITE")
    BY SMTT(30), <1>4, <1>6, <2>1 DEF AuditWake, TcOperationIsAllowed
  <2>2. CASE ~TcOperationIsAllowed(NoSession, "WRITE")
    BY <1>1, <1>2, <1>6, <2>2, WritersKept DEF AuditWake, isWriteHeld
  <2>3. QED
    BY <2>1, <2>2
<1>7. CASE AuditRelease
  <2>1. (\A u \in Threads : ~Writing(u)') /\ audit_pc' # "write"
    BY <1>1, <1>7 DEF AuditRelease, Writers, OneWriter
  <2>2. QED
    BY <2>1, WritersDone
<1>8. QED
  BY <1>3, <1>5, <1>6, <1>7 DEF DriverAudit

\* The state handler keeps Writers.
LEMMA HandlerWriters ==
    ASSUME LockInv, Writers, StateEvent \/ Handler
    PROVE  Writers'
<1> USE DEF HandlerStep
<1>1. /\ UNCHANGED thread
      /\ \A u \in Threads : Writing(u)' => Writing(u) /\ thread'[u] = thread[u]
  BY DEF StateEvent, Handler, HandleStartLock, HandleActLock, HandleStopUpdate,
         HandleStartUpdate, HandleStartRelease, HandleActReset, HandleActSetup,
         HandleActUpdate, HandleActSetupComplete, HandleActSetupCompleteFails,
         HandleActFailUpdate, HandleActRelease, HandleStopReset, Writing
<1>2. CASE HandleActReset
  <2>1. ~Late /\ audit_pc' # "write"
    BY <1>2 DEF HandleActReset, LockInv, HandlerOrder, Late,
                ResetTcGlobalDataOnStateTransition
  <2>2. QED
    BY <1>1, <2>1, WritersDone DEF Writers
<1>3. CASE HandleStopReset
  BY <1>1, <1>3
  DEF HandleStopReset, ResetTcGlobalDataOnStateTransition, Writers, OneWriter, Late
<1>4. CASE StateEvent \/ HandleStartUpdate \/ HandleActSetup \/ HandleActUpdate
           \/ HandleActSetupComplete \/ HandleActSetupCompleteFails
           \/ HandleActFailUpdate
  <2>1. UNCHANGED <<handler_state, writerVars>> /\ (Late => Late')
        /\ (isWriteHeld => isWriteHeld')
        /\ (audit_pc' = "write" => audit_pc = "write")
    BY Zenon, <1>4
    DEF StateEvent, HandleStartLock, HandleActLock, HandleStopUpdate,
        HandleStartUpdate, HandleActSetup, HandleActUpdate,
        HandleActSetupComplete, HandleActSetupCompleteFails,
        HandleActFailUpdate, TcUpdateUncState, wakeUp, Late, isWriteHeld, lockVars,
        TcAcquireReadLockForStateTransition, setReader, TransitionMustWait,
        canReadLock
  <2>2. QED
    BY SMTT(30), <1>1, <2>1, WritersKept
<1>5. CASE HandleStartRelease \/ HandleActRelease
  <2>1. /\ handler_state # "STOP" /\ InTransition
        /\ Late => Late'
        /\ UNCHANGED writerVars
        /\ audit_pc' = "write" => audit_pc = "write"
    BY <1>5
    DEF HandleStartRelease, HandleActRelease, LockInv, HandlerOrder, InTransition,
        Late, TcReleaseReadLockForStateTransition, unlockReader,
        wakeUpIfNoReader, wakeUp
  <2>2. isWriteHeld => isWriteHeld'
    BY <1>5, <2>1
    DEF HandleStartRelease, HandleActRelease, LockInv, Owners, isWriteHeld,
        TcReleaseReadLockForStateTransition, unlockReader
  <2>3. QED
    BY Zenon, <1>1, <2>1, <2>2 DEF Writers, OneWriter, WritesAs, AutoSaveWrite,
                            WriteOperation, AutoSaveOpers
<1>6. QED
  BY <1>2, <1>3, <1>4, <1>5 DEF Handler

\* No step breaks Writers.
LEMMA WritersStep ==
    ASSUME LockInv, ThreadTypeOK, Writers, [Next]_vars
    PROVE  Writers'
<1>1. ASSUME NEW s \in Sessions, Read(s)
      PROVE  Writers'
  <2>1. UNCHANGED <<thread, handlerVars>>
        /\ \/ AcquireReadLock(s) \/ AcquireReadLockAgain(s) \/ ReleaseReadLock(s)
    BY Zenon, <1>1 DEF Read, ReadAcquire, ReadAcquireAgain, ReadRelease
  <2>2. QED
    BY Zenon, <2>1, KeepsWriteLock, WritersKept DEF Writing
<1>2. CASE UNCHANGED vars
  BY <1>2, KeepsWriteLock, WritersKept DEF vars, Writing
<1>3. ASSUME NEW t \in Threads,
             Operation(t) \/ \E s \in Sessions : Request(t, s)
      PROVE  Writers'
  BY <1>3, OperationWriters, RequestWriters
<1>4. CASE DriverAudit \/ StateEvent \/ Handler
  BY <1>4, AuditWriters, HandlerWriters
<1>5. QED
  BY <1>1, <1>2, <1>3, <1>4 DEF Next
=============================================================================
