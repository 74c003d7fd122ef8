---------------------------- MODULE UpllDataProofs ----------------------------
(***************************************************************************)
(* What the callers of UPLL may rely on although all the writers of the    *)
(* four configurations share one database connection.                      *)
(*                                                                         *)
(* That nobody closes the connection over a half-written candidate or      *)
(* running configuration follows from the locks alone (Inv of              *)
(* UpllConfigProofs).  PendingInv adds what is not committed: it lets each *)
(* step of a body be one of four, which closes the connection, writes over *)
(* it, leaves it alone, or counts an edit of a batch.                      *)
(***************************************************************************)
EXTENDS UpllConfigProofs

----------------------------------------------------------------------------
(* Writers are isolated *)

\* A step that writes candidate or running, or that closes the connection, holds a
\* lock of the candidate, the first for writing.
LEMMA InvWritersIsolated ==
    ASSUME Inv
    PROVE  WritersIsolated
<1> SUFFICES ASSUME NEW t \in Threads, NEW u \in Threads, t # u, HalfWritten(t), Closing(u),
                    th[u].op \notin {"SAVE", "CLEAR_STARTUP", "CLEAR_IMPORT"}
             PROVE  FALSE
    BY DEF WritersIsolated
<1>1. LocksFit(th[t], held[t]) /\ LocksFit(th[u], held[u])
    BY DEF Inv, LockInv
<1>2. held[t]["CAND"] = "W"
    <2>1. th[t].op \in CandidateWriters /\ th[t].pc \in Writing
        BY DEF HalfWritten, CandidateWriters, Writing
    <2>2. OnCandidate(th[t])
        BY <2>1 DEF OnCandidate, CandidateWriters, Writing, Entering, AuditOps
    <2>3. th[t].want = {}
        BY <1>1, <2>1 DEF LocksFit
    <2> QED
        BY <1>1, <2>1, <2>2, <2>3 DEF LocksFit, Secured, W
<1>3. held[u]["CAND"] \in {"R", "W"}
    <2>1. th[u].want = {} /\ th[u].pc \notin Entering \cup {"idle", "audit_db", "audit_end"}
        BY DEF Closing, At, Entering
    <2>2. th[u].op # "idle" /\ th[u].pc \in Pcs(th[u].op)
        BY <2>1, Stage DEF Inv, RoleInv, Fits
    <2>3. th[u].op \notin AuditOps
        <3>1. PICK op, pc : op = th[u].op /\ pc = th[u].pc
            OBVIOUS
        <3>2. op \in AuditOps => Pcs(op) \subseteq {"audit_db", "audit_end"}
            BY DEF Pcs, AuditOps
        <3> QED
            BY <2>1, <2>2, <3>1, <3>2
    <2>4. OnCandidate(th[u])
        BY <2>1, <2>2, <2>3 DEF OnCandidate
    <2> QED
        BY <1>1, <2>1, <2>4 DEF LocksFit, Secured, W, R
<1> QED
    BY <1>2, <1>3 DEF Inv, LockInv, LockNames, Datatypes

\* What a request has written of candidate or running is not committed half done, and
\* not dropped, by another request that reads or writes one of these, whatever clients
\* do: the locks of ConfigLock make up for the connection that all of them share. Only
\* a save, a clear of startup and a clear of the import can close it over such writes.
THEOREM WritersIsolatedHolds == Spec => []WritersIsolated
BY InvHolds, InvWritersIsolated, PTL

----------------------------------------------------------------------------
(* What is not committed *)

\* Each edit of a batch that is not committed has been counted.
PendingInv ==
    /\ AcknowledgedIsDurable
    /\ batch.cnt < CommitLimit
    /\ pending <= IF batch.on THEN batch.cnt ELSE 0

\* What a step of a body does to the connection and to the batch.
Closed == db' = view' /\ pending' = 0 /\ batch'.cnt \in {0, batch.cnt}
Wrote(t) == th'[t].pc \in Writing /\ UNCHANGED <<pending, batch>>
Kept(t) == th[t].pc \notin Writing /\ UNCHANGED <<db, view, pending, batch>>
Counted ==
    /\ batch.on /\ batch.cnt + 1 < CommitLimit
    /\ batch' = [batch EXCEPT !.cnt = @ + 1]
    /\ pending' \in {pending, pending + 1}
    /\ UNCHANGED <<db, view>>

Effect(t) == Closed \/ Wrote(t) \/ Kept(t) \/ Counted

LEMMA EffectPending ==
    ASSUME Inv, PendingInv, NEW t \in Threads, Moves(t), DataTyped', Effect(t)
    PROVE  PendingInv'
<1>1. /\ batch \in [on : BOOLEAN, cnt : Nat, lost : BOOLEAN] /\ pending \in Nat
      /\ batch' \in [on : BOOLEAN, cnt : Nat, lost : BOOLEAN] /\ pending' \in Nat
      /\ CommitLimit \in Nat \ {0}
    BY ConfigAssumption DEF Inv, Typed, DataTyped
<1>2. CASE Closed
    <2>1. AcknowledgedIsDurable'
        BY <1>2 DEF Closed, AcknowledgedIsDurable
    <2>2. batch'.cnt < CommitLimit /\ pending' = 0 /\ batch'.cnt \in Nat
        BY <1>1, <1>2 DEF Closed, PendingInv
    <2> QED
        BY <2>1, <2>2 DEF PendingInv
<1>3. CASE Wrote(t)
    <2>1. AcknowledgedIsDurable'
        BY <1>3 DEF Wrote, AcknowledgedIsDurable, Writing
    <2> QED
        BY <1>3, <2>1 DEF PendingInv, Wrote
<1>4. CASE Kept(t)
    <2>1. \A u \in Threads : th[u].pc \in Writing => th'[u].pc \in Writing
        BY <1>4 DEF Kept, Moves
    <2>2. AcknowledgedIsDurable'
        BY <1>4, <2>1 DEF Kept, AcknowledgedIsDurable, PendingInv, Writing
    <2> QED
        BY <1>4, <2>2 DEF PendingInv, Kept
<1>5. CASE Counted
    <2>1. batch'.on = TRUE /\ batch'.cnt = batch.cnt + 1
        BY <1>1, <1>5 DEF Counted
    <2>2. AcknowledgedIsDurable'
        BY <2>1 DEF AcknowledgedIsDurable
    <2>3. pending <= batch.cnt
        BY <1>5 DEF Counted, PendingInv
    <2> QED
        BY <1>1, <1>5, <2>1, <2>2, <2>3 DEF PendingInv, Counted
<1> QED
    BY <1>2, <1>3, <1>4, <1>5 DEF Effect

----------------------------------------------------------------------------
(* The effect of each step of a body *)

LEMMA CloseEffect ==
    ASSUME NEW success, Close(success), batch'.cnt \in {0, batch.cnt}
    PROVE  Closed
<1>1. (db' = view /\ view' = view) \/ (view' = db /\ db' = db)
    BY Zenon DEF Close
<1>2. pending' = 0
    BY Zenon DEF Close
<1> QED
    BY <1>1, <1>2 DEF Closed

LEMMA WriteEffect ==
    ASSUME Inv, NEW t \in Threads, NEW pc \in Writing, NEW ok, Step(t, pc, ok),
           NEW dt, NEW content, NEW stored, Write(dt, content, stored), batch' = batch
    PROVE  Wrote(t)
<1>1. th'[t].pc = pc
    BY DEF Step, Inv, Typed, Thread
<1> QED
    BY <1>1 DEF Wrote, Write

LEMMA KeepEffect ==
    ASSUME NEW t \in Threads, th[t].pc \notin Writing, UNCHANGED <<data, batch>>
    PROVE  Kept(t)
BY DEF Kept, data

LEMMA EditEffect ==
    ASSUME Inv, NEW t \in Threads, EditWrite(t) \/ EditClose(t)
    PROVE  Effect(t)
<1>1. CASE EditWrite(t)
    <2>1. th[t].pc = "edit" /\ batch' = batch
        BY <1>1, Zenon DEF EditWrite, At, flags
    <2>2. CASE /\ \E dt, c, ok : Write(dt, c, ok)
               /\ \E ok : Step(t, "edit_close", ok)
        BY <2>1, <2>2, WriteEffect, Zenon DEF Writing, Effect
    <2>3. CASE UNCHANGED <<db, view, pending>>
        BY <2>1, <2>3 DEF Kept, Writing, Effect
    <2> QED
        BY <1>1, <2>2, <2>3, Zenon DEF EditWrite
<1>2. CASE EditClose(t)
    <2>1. PICK closes \in BOOLEAN, success, rollback \in BOOLEAN :
             /\ closes <=> rollback \/ ~batch.on \/ LimitReached
             /\ IF closes THEN Close(success)
                ELSE /\ pending' = IF th[t].ok THEN pending + 1 ELSE pending
                     /\ UNCHANGED <<db, view, written>>
             /\ batch' = [batch EXCEPT !.cnt =
                            IF ~batch.on \/ rollback THEN @
                            ELSE IF LimitReached THEN 0 ELSE @ + 1]
        BY <1>2, Zenon DEF EditClose
    <2>2. batch \in [on : BOOLEAN, cnt : Nat, lost : BOOLEAN] /\ CommitLimit \in Nat
        BY ConfigAssumption DEF Inv, Typed, DataTyped
    <2>3. CASE closes
        <3>1. batch'.cnt \in {0, batch.cnt}
            BY <2>1, <2>2, <2>3
        <3> QED
            BY <2>1, <2>3, <3>1, CloseEffect, Zenon DEF Effect
    <2>4. CASE ~closes
        <3>1. batch.on /\ batch.cnt + 1 < CommitLimit
            BY <2>1, <2>2, <2>4 DEF LimitReached
        <3>2. batch' = [batch EXCEPT !.cnt = @ + 1]
            BY <2>1, <2>4
        <3>3. pending' \in {pending, pending + 1} /\ UNCHANGED <<db, view>>
            BY <2>1, <2>4
        <3> QED
            BY <3>1, <3>2, <3>3 DEF Counted, Effect
    <2> QED
        BY <2>3, <2>4
<1> QED
    BY <1>1, <1>2

LEMMA CandidateEffect ==
    ASSUME Inv, NEW t \in Threads, Read(t) \/ IsCandidateDirty(t) \/ OnBatchEnd(t)
    PROVE  Effect(t)
<1>1. CASE Read(t)
    <2>1. th[t].pc = "read" /\ batch' = batch
        BY <1>1 DEF Read, At, flags
    <2> QED
        BY <1>1, <2>1, CloseEffect, KeepEffect, Zenon DEF Read, Effect, Writing
<1>2. CASE IsCandidateDirty(t)
    <2>1. th[t].pc = "dirty" /\ batch' = batch
        BY <1>2 DEF IsCandidateDirty, At
    <2> QED
        BY <1>2, <2>1, CloseEffect, KeepEffect, Zenon
           DEF IsCandidateDirty, IsCandidateDirtyNoLock, Effect, Writing
<1>3. CASE OnBatchEnd(t)
    <2>1. batch'.cnt = batch.cnt
        BY <1>3 DEF OnBatchEnd, Inv, Typed, DataTyped
    <2> QED
        BY <1>3, <2>1, CloseEffect, Zenon DEF OnBatchEnd, Effect
<1> QED
    BY <1>1, <1>2, <1>3

LEMMA ImportEffect ==
    ASSUME Inv, NEW t \in Threads,
           ImportEnter(t) \/ ImportRefused(t) \/ ValidateImport(t) \/ ImportWrite(t)
              \/ ImportClose(t) \/ ClearImport(t)
    PROVE  Effect(t)
<1>1. batch' = batch
    BY DEF ImportEnter, ImportRefused, ValidateImport, ImportWrite, ImportClose, ClearImport, flags
<1>2. CASE ImportEnter(t) \/ ImportRefused(t)
    <2>1. th[t].pc \in Entering /\ UNCHANGED data
        BY <1>2 DEF ImportEnter, ImportRefused, At, Entering
    <2> QED
        BY <1>1, <2>1, KeepEffect DEF Effect, Entering, Writing
<1>3. CASE ValidateImport(t)
    <2>1. th[t].pc = "validate"
        BY <1>3 DEF ValidateImport, At
    <2>2. (\E success : Close(success)) \/ UNCHANGED data
        BY <1>3, Zenon DEF ValidateImport, IsCandidateDirtyNoLock
    <2> QED
        BY <1>1, <2>1, <2>2, CloseEffect, KeepEffect, Zenon DEF Effect, Writing
<1>4. CASE ImportWrite(t)
    BY <1>1, <1>4, WriteEffect, Zenon DEF ImportWrite, Effect, Writing
<1>5. CASE ImportClose(t)
    BY <1>1, <1>5, CloseEffect, Zenon DEF ImportClose, Effect
<1>6. CASE ClearImport(t)
    BY <1>1, <1>6, CloseEffect, WriteEffect, Zenon DEF ClearImport, Effect, Writing
<1> QED
    BY <1>2, <1>3, <1>4, <1>5, <1>6

LEMMA TcEffect ==
    ASSUME Inv, NEW t \in Threads,
           DbCommitIfInBatchMode(t) \/ TxUpdateController(t) \/ OnTxVote(t)
              \/ TxCopyCandidateToRunning(t) \/ OnTxCommitCtrlrStatus(t) \/ OnTxEnd(t)
              \/ AuditDb(t) \/ OnAuditEnd(t)
    PROVE  Effect(t)
<1>1. batch' = batch
    BY DEF DbCommitIfInBatchMode, TxUpdateController, OnTxVote, TxCopyCandidateToRunning,
           OnTxCommitCtrlrStatus, OnTxEnd, AuditDb, OnAuditEnd, flags
<1>2. CASE DbCommitIfInBatchMode(t)
    <2>1. th[t].pc = "db_commit"
        BY <1>2 DEF DbCommitIfInBatchMode, At
    <2>2. (\E success : Close(success)) \/ UNCHANGED data
        BY <1>2, Zenon DEF DbCommitIfInBatchMode
    <2> QED
        BY <1>1, <2>1, <2>2, CloseEffect, KeepEffect, Zenon DEF Effect, Writing
<1>3. CASE TxUpdateController(t) \/ OnTxVote(t) \/ OnTxCommitCtrlrStatus(t) \/ OnTxEnd(t)
    BY <1>1, <1>3, CloseEffect, Zenon
       DEF TxUpdateController, OnTxVote, OnTxCommitCtrlrStatus, OnTxEnd, Effect
<1>4. CASE TxCopyCandidateToRunning(t)
    BY <1>1, <1>4, WriteEffect, Zenon DEF TxCopyCandidateToRunning, Effect, Writing
<1>5. CASE AuditDb(t) \/ OnAuditEnd(t)
    <2>1. th[t].pc \in {"audit_db", "audit_end"} /\ UNCHANGED data
        BY <1>5 DEF AuditDb, OnAuditEnd, At
    <2> QED
        BY <1>1, <2>1, KeepEffect DEF Effect, Writing
<1> QED
    BY <1>2, <1>3, <1>4, <1>5

LEMMA SingleEffect ==
    ASSUME Inv, NEW t \in Threads,
           ClearStartup(t) \/ CopyRunningToStartup(t) \/ StartupClose(t)
              \/ CopyRunningToCandidate(t) \/ OnAbortCandidateConfig(t)
    PROVE  Effect(t)
<1>1. batch' = batch
    BY DEF ClearStartup, CopyRunningToStartup, StartupClose, CopyRunningToCandidate,
           OnAbortCandidateConfig, flags
<1>2. CASE ClearStartup(t)
    <2>1. CASE \E success : Close(success)
        BY <1>1, <2>1, CloseEffect, Zenon DEF Effect
    <2>2. CASE /\ Write("START", Empty, TRUE)
               /\ Step(t, IF th[t].op = "SAVE" THEN "copy_startup" ELSE "startup_close", TRUE)
        <3>1. (IF th[t].op = "SAVE" THEN "copy_startup" ELSE "startup_close") \in Writing
            BY DEF Writing
        <3> QED
            BY <1>1, <2>2, <3>1, WriteEffect, Zenon DEF Effect
    <2> QED
        BY <1>2, <2>1, <2>2, Zenon DEF ClearStartup
<1>3. CASE CopyRunningToStartup(t) \/ StartupClose(t) \/ CopyRunningToCandidate(t)
    BY <1>1, <1>3, CloseEffect, WriteEffect, Zenon
       DEF CopyRunningToStartup, StartupClose, CopyRunningToCandidate, Effect, Writing
<1>4. CASE OnAbortCandidateConfig(t)
    <2>1. CASE \E success : Close(success)
        BY <1>1, <2>1, CloseEffect, Zenon DEF Effect
    <2>2. CASE db' = view' /\ pending' = 0
        BY <1>1, <2>2 DEF Closed, Effect
    <2> QED
        BY <1>4, <2>1, <2>2, Zenon DEF OnAbortCandidateConfig
<1> QED
    BY <1>2, <1>3, <1>4

----------------------------------------------------------------------------
(* Every step *)

\* A request starts, or a lock is taken: nothing is written or closed.
LEMMA QuietPending ==
    ASSUME Inv, PendingInv, UNCHANGED <<db, view, pending, batch>>,
           \A u \in Threads : th'[u] = th[u] \/ th[u].pc \notin Writing \/ th'[u].pc = th[u].pc
    PROVE  PendingInv'
<1>1. \A u \in Threads : th[u].pc \in Writing => th'[u].pc \in Writing
    OBVIOUS
<1>2. AcknowledgedIsDurable'
    BY <1>1 DEF AcknowledgedIsDurable, PendingInv, Writing
<1> QED
    BY <1>2 DEF PendingInv

LEMMA StartPending ==
    ASSUME Inv, PendingInv, Start
    PROVE  PendingInv'
<1>1. /\ {"user", "tc", "timer"} \subseteq Threads /\ th \in [Threads -> Thread]
      /\ \A u \in Threads : th[u].op = "idle" => th[u].pc \notin Writing
    BY Stage DEF Threads, Inv, Typed, Writing
<1>2. ASSUME NEW t \in Threads, th[t].op = "idle", NEW op, NEW pc, NEW locks,
             Begin(t, op, pc, locks) \/ UNCHANGED <<th, held>>, UNCHANGED <<data, batch>>
      PROVE  PendingInv'
    <2>1. \A u \in Threads : th'[u] = th[u] \/ th[u].pc \notin Writing
        BY <1>1, <1>2 DEF Begin, Go
    <2> QED
        BY <1>2, <2>1, QuietPending DEF data
<1>3. CASE EditStart \/ BatchEndStart \/ ImportStart
    BY <1>1, <1>2, <1>3, ZenonT(40) DEF EditStart, BatchEndStart, ImportStart, UserFree, flags
<1>4. CASE \E t \in Threads : ReadStart(t) \/ DirtyStart(t)
    BY <1>2, <1>4, ZenonT(40) DEF ReadStart, DirtyStart, flags
<1>5. CASE BatchTimeOut
    BY <1>1, <1>2, <1>5, ZenonT(40) DEF BatchTimeOut
<1>6. CASE TcStart \/ OnTxStart \/ OnTxVoteStart \/ GlobalCommit \/ OnTxResultStart
           \/ OnTxEndStart \/ OnAuditStart \/ AuditCall
    <2>1. th["tc"].op = "idle" /\ UNCHANGED <<data, batch>>
        BY <1>6, ZenonT(40)
           DEF TcStart, OnTxStart, OnTxVoteStart, GlobalCommit, OnTxResultStart, OnTxEndStart,
               OnAuditStart, AuditCall, flags, TcFree, Calls
    <2>2. (\E op, pc, locks : Begin("tc", op, pc, locks)) \/ UNCHANGED <<th, held>>
        BY <1>6, ZenonT(40)
           DEF TcStart, OnTxStart, OnTxVoteStart, GlobalCommit, OnTxResultStart, OnTxEndStart,
               OnAuditStart, AuditCall
    <2> QED
        BY <1>1, <1>2, <2>1, <2>2, Zenon
<1>7. CASE OnBatchStart
    <2>1. CASE Begin("user", "BATCH_START", "db_commit", AllWrite) /\ UNCHANGED batch
        BY <1>1, <1>2, <1>7, <2>1, Zenon DEF OnBatchStart, UserFree
    <2>2. CASE ~batch.on /\ batch' = [on |-> TRUE, cnt |-> 0, lost |-> FALSE]
        <3>1. pending \in Nat /\ pending' = pending /\ CommitLimit \in Nat \ {0}
            BY <1>7, ConfigAssumption DEF OnBatchStart, data, Inv, Typed, DataTyped
        <3>2. pending' = 0
            BY <2>2, <3>1 DEF PendingInv
        <3>3. batch'.on = TRUE /\ batch'.cnt = 0
            BY <2>2
        <3> QED
            BY <3>1, <3>2, <3>3 DEF PendingInv, AcknowledgedIsDurable
    <2> QED
        BY <1>7, <2>1, <2>2 DEF OnBatchStart
<1>8. CASE OnBatchAlive
    <2>1. batch \in [on : BOOLEAN, cnt : Nat, lost : BOOLEAN]
        BY DEF Inv, Typed, DataTyped
    <2>2. batch'.on = batch.on /\ batch'.cnt = batch.cnt
        BY <1>8, <2>1 DEF OnBatchAlive
    <2>3. UNCHANGED <<db, view, pending, th>>
        BY <1>8 DEF OnBatchAlive, data
    <2> QED
        BY <2>2, <2>3 DEF PendingInv, AcknowledgedIsDurable
<1> QED
    BY <1>3, <1>4, <1>5, <1>6, <1>7, <1>8, Zenon DEF Start

LEMMA PendingNext ==
    ASSUME Inv, PendingInv, [Next]_vars
    PROVE  PendingInv'
<1>1. CASE Start
    BY <1>1, StartPending
<1>2. ASSUME NEW t \in Threads, Lock(t)
      PROVE  PendingInv'
    <2>1. UNCHANGED <<db, view, pending, batch>>
        BY <1>2 DEF Lock, data, flags
    <2>2. \A u \in Threads : th'[u] = th[u] \/ th'[u].pc = th[u].pc
        BY <1>2 DEF Lock, Inv, Typed, Thread
    <2> QED
        BY <2>1, <2>2, QuietPending
<1>3. ASSUME NEW t \in Threads, Body(t)
      PROVE  PendingInv'
    <2>1. Effect(t)
        BY <1>3, EditEffect, CandidateEffect, ImportEffect, TcEffect, SingleEffect, Zenon DEF Body
    <2>2. DataTyped' /\ Moves(t)
        BY <1>3, BodyMoves, InvNext DEF Inv, Typed
    <2> QED
        BY <2>1, <2>2, EffectPending
<1>4. CASE UNCHANGED vars
    <2>1. UNCHANGED <<db, view, pending, batch, th>>
        BY <1>4 DEF vars, data, flags
    <2> QED
        BY <2>1, QuietPending
<1> QED
    BY <1>1, <1>2, <1>3, <1>4 DEF Next, Busy

LEMMA PendingInvHolds == Spec => []PendingInv
<1>1. Init => PendingInv
    BY ConfigAssumption DEF Init, PendingInv, AcknowledgedIsDurable
<1>2. Inv /\ PendingInv /\ [Next]_vars => PendingInv'
    BY PendingNext
<1> QED
    BY <1>1, <1>2, InvHolds, PTL DEF Spec

\* Writes are uncommitted only in batch mode or while the request that made them is
\* under way: outside batch mode no answer is given before a commit or a rollback, and
\* no way out of batch mode leaves a part of the batch behind (OnBatchEnd).
THEOREM AcknowledgedIsDurableHolds == Spec => []AcknowledgedIsDurable
<1>1. PendingInv => AcknowledgedIsDurable
    BY DEF PendingInv
<1> QED
    BY <1>1, PendingInvHolds, PTL

\* Whatever rolls back the shared connection, and whenever the process dies, fewer than
\* batch_commit_limit_ edits are lost that were answered with success, and none outside
\* batch mode: KtServiceHandler counts every edit that it does not commit.
THEOREM LossIsBoundedHolds == Spec => []LossIsBounded
<1>1. Inv /\ PendingInv => LossIsBounded
    BY ConfigAssumption DEF Inv, Typed, DataTyped, PendingInv, LossIsBounded
<1> QED
    BY <1>1, PendingInvHolds, InvHolds, PTL
=============================================================================
