-------------------------- MODULE UpllConfigProofs --------------------------
(***************************************************************************)
(* Proofs about the configuration and transaction manager of UPLL.         *)
(*                                                                         *)
(* Inv is the inductive invariant that the others rest on: Typed, the      *)
(* types of the state; RoleInv, who may be at which step of which request, *)
(* and what TC is doing; LockInv, what a thread holds at each step. On top *)
(* of it come TimerInv, the batch timers, and MarkInv, what a transaction  *)
(* marks in UPLL. UpllDataProofs is about the shared connection.           *)
(***************************************************************************)
EXTENDS UpllConfig, TLAPS

----------------------------------------------------------------------------
(* The steps of each thread *)

UserOps == {"EDIT", "RENAME", "READ", "DIRTY", "BATCH_START", "BATCH_END",
            "IMPORT", "MERGE", "CLEAR_IMPORT"}
SingleOps == {"SAVE", "CLEAR_STARTUP", "ABORT"}
CommitOps == {"TX_START", "TX_VOTE", "TX_VOTE_RESULT", "TX_GLOBAL", "TX_RESULT", "TX_END"}
AuditOps == {"AUDIT_START", "AUDIT_TX_START", "AUDIT_VOTE_RESULT", "AUDIT_GLOBAL",
             "AUDIT_RESULT", "AUDIT_END"}

\* The steps of a request.
Pcs(op) ==
    CASE op = "idle" -> {"idle"}
      [] op \in {"EDIT", "RENAME"} -> {"edit", "edit_close"}
      [] op = "READ" -> {"read"}
      [] op = "DIRTY" -> {"dirty"}
      [] op = "BATCH_START" -> {"db_commit"}
      [] op = "BATCH_END" -> {"batch_end"}
      [] op = "IMPORT" -> {"db_commit", "import_enter", "validate", "import_write",
                           "import_close"}
      [] op = "MERGE" -> {"db_commit", "merge_enter", "validate", "import_write",
                          "import_close"}
      [] op = "CLEAR_IMPORT" -> {"clear_enter", "db_commit", "clear_import", "clear_close"}
      [] op = "SAVE" -> {"db_commit", "clear_startup", "copy_startup", "startup_close"}
      [] op = "CLEAR_STARTUP" -> {"db_commit", "clear_startup", "startup_close"}
      [] op = "ABORT" -> {"db_commit", "copy_cand", "copy_cand_rest"}
      [] op = "TX_START" -> {"db_commit", "tx_start", "tx_end"}
      [] op \in {"TX_VOTE", "TX_VOTE_RESULT"} -> {"tx_vote"}
      [] op = "TX_GLOBAL" -> {}
      [] op = "TX_RESULT" -> {"copy_run", "tx_result"}
      [] op = "TX_END" -> {"tx_end"}
      [] op = "AUDIT_START" -> {"audit_db", "audit_end"}
      [] op \in {"AUDIT_TX_START", "AUDIT_VOTE_RESULT", "AUDIT_RESULT"} -> {"audit_db"}
      [] op = "AUDIT_GLOBAL" -> {}
      [] op = "AUDIT_END" -> {"audit_end"}

OpsOf(t) ==
    IF t = "user" THEN UserOps
    ELSE IF t = "tc" THEN SingleOps \cup CommitOps \cup AuditOps
    ELSE IF t = "timer" THEN {"BATCH_END"} ELSE {"READ", "DIRTY"}

LockSet == [on : LockNames, mode : {"R", "W"}]
OpNames == UserOps \cup SingleOps \cup CommitOps \cup AuditOps \cup {"idle"}
PcNames ==
    {"idle", "edit", "edit_close", "read", "dirty", "db_commit", "batch_end",
     "import_enter", "merge_enter", "clear_enter", "validate", "import_write",
     "import_close", "clear_import", "clear_close", "clear_startup", "copy_startup",
     "startup_close", "copy_cand", "copy_cand_rest", "tx_start", "tx_vote", "copy_run",
     "tx_result", "tx_end", "audit_db", "audit_end"}
Thread == [op : OpNames, pc : PcNames, want : SUBSET LockSet, ok : BOOLEAN]

\* TC is between requests, runs a single one, or is in a transaction whose
\* handler, if one runs, is the one it calls next.
TcState ==
    /\ tc \in [oper : {"none", "COMMIT", "AUDIT"} \cup SingleOps,
               next : {"none"} \cup CommitOps \cup AuditOps, stuck : BOOLEAN]
    /\ tc.oper = "none" => th["tc"].op = "idle" /\ tc.next = "none"
    /\ tc.oper \in SingleOps => th["tc"].op = tc.oper /\ tc.next = "none"
    /\ tc.oper = "COMMIT" => th["tc"].op \in {"idle", tc.next} /\ tc.next \in CommitOps
    /\ tc.oper = "AUDIT" => th["tc"].op \in {"idle", tc.next} /\ tc.next \in AuditOps
    /\ tc.stuck => tc.oper \notin {"COMMIT", "AUDIT"}

DataTyped ==
    /\ db \in [Datatypes -> Content] /\ view \in [Datatypes -> Content]
    /\ written \in BOOLEAN /\ pending \in Nat
    /\ batch \in [on : BOOLEAN, cnt : Nat, lost : BOOLEAN]

Typed ==
    /\ DataTyped
    /\ th \in [Threads -> Thread]
    /\ held \in [Threads -> [LockNames -> {"-", "R", "W"}]]

\* x may be what the thread t is doing.
Fits(t, x) == x.op \in OpsOf(t) \cup {"idle"} /\ x.pc \in Pcs(x.op)

RoleInv ==
    /\ \A t \in Threads : Fits(t, th[t])
    /\ TcState

\* The marks of a commit and of path fault alarms.
MarkInv ==
    /\ tc.oper = "COMMIT" /\ tc.next = "TX_START" /\ th["tc"].op = "idle" => ~commit
    /\ MarksAreTakenBack

TimerInv ==
    /\ timer \in [armed : Nat, mine : BOOLEAN]
    /\ timer.mine => timer.armed > 0
    /\ BatchHasTimer

----------------------------------------------------------------------------
(* Locks *)

\* The configuration that a request writes, and the steps at which it does.
Target(op) ==
    IF op \in {"EDIT", "MERGE", "ABORT"} THEN "CAND"
    ELSE IF op \in {"RENAME", "IMPORT", "CLEAR_IMPORT"} THEN "IMPORT"
    ELSE IF op = "TX_RESULT" THEN "RUN" ELSE "START"

Writing == {"edit_close", "import_close", "clear_close", "tx_result",
            "copy_startup", "startup_close", "copy_cand_rest"}
AboutToWrite == {"edit", "validate", "import_write", "clear_import", "copy_run",
                 "clear_startup", "copy_cand"}
Entering == {"import_enter", "merge_enter", "clear_enter"}

\* The requests that write candidate or running, and the steps that are made under a
\* lock of the candidate: all but those of the requests that leave it alone.
CandidateWriters == {"EDIT", "MERGE", "ABORT", "TX_RESULT"}
OnCandidate(x) ==
    /\ x.op \notin {"idle", "SAVE", "CLEAR_STARTUP", "CLEAR_IMPORT"} \cup AuditOps
    /\ x.pc \notin Entering

\* A thread that does x and holds h has the lock l, or will have it before it goes on.
Secured(x, h, l) == l \in x.want \/ h[l.on] = l.mode

\* What a thread that does x may hold: locks that come before all those it still
\* wants, among them, or among those it wants, the ones that its step needs.
LocksFit(x, h) ==
    /\ \A l \in LockNames : \A w \in x.want : h[l] # "-" => Rank[l] < Rank[w.on]
    /\ \A v, w \in x.want : v.on = w.on => v = w
    /\ x.op = "idle" => x.want = {} /\ h = NoLock
    /\ x.pc \in Writing \cup {"import_write"} => x.want = {}
    /\ x.pc \in Writing \cup AboutToWrite => Secured(x, h, W(Target(x.op)))
    /\ x.pc = "batch_end" => \A l \in BatchEndLocks : Secured(x, h, l)
    /\ x.pc \in Entering => /\ \A l \in LockNames \ {"MUTEX"} : h[l] = "-"
                           /\ \A w \in x.want : w.on = "MUTEX"
    /\ x.pc = "db_commit" => /\ x.op # "CLEAR_IMPORT" => h["MUTEX"] = "-"
                             /\ \A w \in x.want : w.on # "MUTEX"
    /\ OnCandidate(x) => \/ Secured(x, h, W("CAND"))
                         \/ x.op \notin CandidateWriters /\ Secured(x, h, R("CAND"))

LockInv ==
    /\ \A t, u \in Threads : \A l \in LockNames :
          t # u /\ held[t][l] = "W" => held[u][l] = "-"
    /\ \A t \in Threads : LocksFit(th[t], held[t])

----------------------------------------------------------------------------
(* Who is where *)

\* The thread and the request at each step.
LEMMA Stage ==
    ASSUME RoleInv, NEW t \in Threads
    PROVE  /\ th[t].pc = "idle" <=> th[t].op = "idle"
           /\ th[t].pc \in {"edit", "edit_close"} => t = "user" /\ th[t].op \in {"EDIT", "RENAME"}
           /\ th[t].pc = "read" => t \notin {"tc", "timer"} /\ th[t].op = "READ"
           /\ th[t].pc = "dirty" => t \notin {"tc", "timer"} /\ th[t].op = "DIRTY"
           /\ th[t].pc = "batch_end" => t \in {"user", "timer"} /\ th[t].op = "BATCH_END"
           /\ th[t].pc = "db_commit" =>
                 \/ t = "user" /\ th[t].op \in {"BATCH_START", "IMPORT", "MERGE", "CLEAR_IMPORT"}
                 \/ t = "tc" /\ th[t].op \in SingleOps \cup {"TX_START"}
           /\ th[t].pc = "import_enter" => t = "user" /\ th[t].op = "IMPORT"
           /\ th[t].pc = "merge_enter" => t = "user" /\ th[t].op = "MERGE"
           /\ th[t].pc \in {"clear_enter", "clear_import", "clear_close"} =>
                 t = "user" /\ th[t].op = "CLEAR_IMPORT"
           /\ th[t].pc \in {"validate", "import_write", "import_close"} =>
                 t = "user" /\ th[t].op \in {"IMPORT", "MERGE"}
           /\ th[t].pc \in {"clear_startup", "startup_close"} =>
                 t = "tc" /\ th[t].op \in {"SAVE", "CLEAR_STARTUP"}
           /\ th[t].pc = "copy_startup" => t = "tc" /\ th[t].op = "SAVE"
           /\ th[t].pc \in {"copy_cand", "copy_cand_rest"} => t = "tc" /\ th[t].op = "ABORT"
           /\ th[t].pc = "tx_start" => t = "tc" /\ th[t].op = "TX_START"
           /\ th[t].pc = "tx_vote" => t = "tc" /\ th[t].op \in {"TX_VOTE", "TX_VOTE_RESULT"}
           /\ th[t].pc \in {"copy_run", "tx_result"} => t = "tc" /\ th[t].op = "TX_RESULT"
           /\ th[t].pc = "tx_end" => t = "tc" /\ th[t].op \in {"TX_START", "TX_END"}
           /\ th[t].pc = "audit_db" =>
                 t = "tc" /\ th[t].op \in {"AUDIT_START", "AUDIT_TX_START", "AUDIT_VOTE_RESULT",
                                           "AUDIT_RESULT"}
           /\ th[t].pc = "audit_end" => t = "tc" /\ th[t].op \in {"AUDIT_START", "AUDIT_END"}
<1>1. th[t].op \in OpsOf(t) \cup {"idle"} /\ th[t].pc \in Pcs(th[t].op)
    BY DEF RoleInv, Fits
<1>2. PICK op : op = th[t].op
    OBVIOUS
<1>3. PICK pc : pc = th[t].pc
    OBVIOUS
<1>4. op \in OpsOf(t) \cup {"idle"} /\ pc \in Pcs(op)
    BY <1>1, <1>2, <1>3
<1> QED
    BY <1>2, <1>3, <1>4 DEF OpsOf, Pcs, UserOps, SingleOps, CommitOps, AuditOps


----------------------------------------------------------------------------
(* A step of one thread *)

Inv == Typed /\ RoleInv /\ LockInv

\* A step that changes neither requests nor locks.
LEMMA SameThreads ==
    ASSUME Inv, DataTyped', TcState', UNCHANGED <<th, held>>
    PROVE  Inv'
BY DEF Inv, Typed, RoleInv, LockInv, LocksFit, Fits, Secured

\* A step of the thread t that goes on as x with the locks h.
LEMMA OneThread ==
    ASSUME Inv, DataTyped', NEW t \in Threads, NEW x \in Thread,
           NEW h \in [LockNames -> {"-", "R", "W"}],
           th' = [th EXCEPT ![t] = x], held' = [held EXCEPT ![t] = h],
           Fits(t, x), LocksFit(x, h),
           \A l \in LockNames :
              h[l] \in {"-", held[t][l]} \/ Free(t, [on |-> l, mode |-> h[l]]),
           t # "tc" => tc' = tc, t = "tc" => TcState'
    PROVE  Inv'
<1>1. /\ th'[t] = x /\ \A u \in Threads \ {t} : th'[u] = th[u]
      /\ held'[t] = h /\ \A u \in Threads \ {t} : held'[u] = held[u]
    BY DEF Inv, Typed
<1>2. {"user", "tc"} \subseteq Threads
    BY DEF Threads
<1>3. TcState'
    BY <1>1, <1>2 DEF Inv, RoleInv, TcState
<1>5. \A u \in Threads : Fits(u, th'[u])
    BY <1>1 DEF Inv, RoleInv
<1>6. RoleInv'
    BY <1>3, <1>5 DEF RoleInv, Fits
<1>7. \A u \in Threads : LocksFit(th'[u], held'[u])
    BY <1>1 DEF Inv, LockInv
<1>8. \A u, v \in Threads : \A l \in LockNames :
         u # v /\ held'[u][l] = "W" => held'[v][l] = "-"
    <2> SUFFICES ASSUME NEW u \in Threads, NEW v \in Threads, NEW l \in LockNames,
                        u # v, held'[u][l] = "W"
                 PROVE  held'[v][l] = "-"
        OBVIOUS
    <2>1. held \in [Threads -> [LockNames -> {"-", "R", "W"}]]
        BY DEF Inv, Typed
    <2>2. CASE h[l] \in {"-", held[t][l]}
        BY <1>1, <2>1, <2>2 DEF Inv, LockInv
    <2>3. CASE Free(t, [on |-> l, mode |-> h[l]])
        BY <1>1, <2>1, <2>3, SMT, SMTT(40) DEF Inv, LockInv, Free
    <2> QED
        BY <2>2, <2>3
<1>9. LockInv'
    BY <1>7, <1>8 DEF LockInv, LocksFit, Secured
<1>10. Typed'
    BY DEF Inv, Typed
<1> QED
    BY <1>6, <1>9, <1>10 DEF Inv

\* The state of TC while it waits for the same handler.
LEMMA TcSame ==
    ASSUME TcState, tc' = tc,
           \/ th'["tc"].op = th["tc"].op
           \/ th["tc"].op = "idle" /\ tc.next # "none" /\ th'["tc"].op = tc.next
    PROVE  TcState'
BY DEF TcState, SingleOps, CommitOps, AuditOps

\* A request that starts or goes on under other locks.
LEMMA GoInv ==
    ASSUME Inv, DataTyped', NEW t \in Threads, NEW op \in OpsOf(t), NEW pc \in Pcs(op),
           NEW locks \in SUBSET LockSet, Go(t, op, pc, locks),
           NEW h \in [LockNames -> {"-", "R", "W"}], held' = [held EXCEPT ![t] = h],
           \A l \in LockNames : h[l] \in {"-", held[t][l]},
           op \in OpNames, pc \in PcNames, op # "idle",
           LocksFit([op |-> op, pc |-> pc, want |-> locks, ok |-> TRUE], h),
           tc' = tc,
           t = "tc" => op = th[t].op \/ (th[t].op = "idle" /\ tc.next # "none" /\ op = tc.next)
    PROVE  Inv'
<1>1. PICK x : x = [op |-> op, pc |-> pc, want |-> locks, ok |-> TRUE]
    OBVIOUS
<1>2. x \in Thread /\ x.op = op /\ x.pc = pc
    BY <1>1 DEF Thread
<1>3. th' = [th EXCEPT ![t] = x]
    BY <1>1 DEF Go
<1>4. Fits(t, x) /\ LocksFit(x, h)
    BY <1>1, <1>2 DEF Fits
<1>5. t = "tc" => th'["tc"].op = op
    BY <1>2, <1>3 DEF Inv, Typed
<1>6. t = "tc" => TcState'
    BY <1>5, TcSame DEF Inv, RoleInv
<1> QED
    BY <1>2, <1>3, <1>4, <1>6, OneThread, Zenon

\* The next step of a body.
LEMMA StepInv ==
    ASSUME Inv, DataTyped', NEW t \in Threads, NEW pc \in Pcs(th[t].op), NEW ok \in BOOLEAN,
           Step(t, pc, ok), tc' = tc, th[t].want = {}, th[t].op # "idle", pc \in PcNames,
           pc \notin Entering \cup {"batch_end", "db_commit"},
           th[t].pc \in Writing \cup AboutToWrite
    PROVE  Inv'
<1>1. PICK x : x = [th[t] EXCEPT !.pc = pc, !.ok = ok]
    OBVIOUS
<1>2. th[t] \in Thread
    BY DEF Inv, Typed
<1>3. x \in Thread /\ x.op = th[t].op /\ x.pc = pc /\ x.want = {}
    BY <1>1, <1>2, Zenon DEF Thread
<1>4. th' = [th EXCEPT ![t] = x] /\ held' = [held EXCEPT ![t] = held[t]]
    BY <1>1, <1>2, Zenon DEF Step, Inv, Typed
<1>5. Fits(t, x)
    BY <1>3 DEF Fits, Inv, RoleInv
<1>6. LocksFit(th[t], held[t])
    BY DEF Inv, LockInv
<1>7. LocksFit(x, held[t])
    <2>1. th[t].pc \notin Entering
        BY DEF Entering, Writing, AboutToWrite
    <2>2. OnCandidate(x) => \/ Secured(x, held[t], W("CAND"))
                            \/ x.op \notin CandidateWriters /\ Secured(x, held[t], R("CAND"))
        BY <1>3, <1>6, <2>1 DEF LocksFit, Secured, OnCandidate
    <2> QED
        BY <1>3, <1>6, <2>2 DEF LocksFit, Secured
<1>8. t = "tc" => th'["tc"].op = th["tc"].op
    BY <1>3, <1>4 DEF Inv, Typed
<1>9. TcState' \/ t # "tc"
    BY <1>8, TcSame DEF Inv, RoleInv
<1>10. held[t] \in [LockNames -> {"-", "R", "W"}]
    BY DEF Inv, Typed
<1> QED
    BY <1>3, <1>4, <1>5, <1>7, <1>9, <1>10, OneThread, Zenon

----------------------------------------------------------------------------
(* TC after a handler *)

\* What TC does after the handler op of its operation: its operation is over, or it
\* calls one of the handlers that may follow op.
Follows(op, ok, next) ==
    \/ op = "TX_START" /\ ok /\ next \in {"TX_VOTE", "TX_END"}
    \/ op = "TX_VOTE" /\ next \in {"TX_VOTE_RESULT", "TX_END"}
    \/ op = "TX_VOTE_RESULT" /\ next \in {"TX_GLOBAL", "TX_END"}
    \/ op = "TX_GLOBAL" /\ next = "TX_RESULT"
    \/ op = "TX_RESULT" /\ ok /\ next = "TX_END"
    \/ op = "AUDIT_START" /\ ok /\ next \in {"AUDIT_TX_START", "AUDIT_END"}
    \/ op = "AUDIT_TX_START" /\ next \in {"AUDIT_VOTE_RESULT", "AUDIT_END"}
    \/ op = "AUDIT_VOTE_RESULT" /\ next \in {"AUDIT_GLOBAL", "AUDIT_END"}
    \/ op = "AUDIT_GLOBAL" /\ next = "AUDIT_RESULT"
    \/ op = "AUDIT_RESULT" /\ ok /\ next = "AUDIT_END"

IsOver == tc' \in [oper : {"none"}, next : {"none"}, stuck : BOOLEAN]

\* Where a commit or an audit is over although TC is not stuck.
Finished(op, ok) ==
    \/ op \in {"TX_END", "AUDIT_END"} \cup SingleOps
    \/ op \in {"TX_START", "AUDIT_START"} /\ ~ok

LEMMA ProceedTo ==
    ASSUME TcState, NEW op, NEW ok \in BOOLEAN, Proceed(op, ok),
           \/ tc.oper \in SingleOps /\ op = tc.oper
           \/ tc.oper \in {"COMMIT", "AUDIT"} /\ op = tc.next
    PROVE  \/ IsOver /\ (tc'.stuck \/ (Finished(op, ok) /\ tc'.stuck = tc.stuck))
           \/ /\ tc.oper \in {"COMMIT", "AUDIT"}
              /\ tc'.oper = tc.oper /\ tc'.stuck = tc.stuck
              /\ Follows(op, ok, tc'.next)
              /\ tc' \in [oper : {tc.oper}, next : {tc'.next}, stuck : BOOLEAN]
<1> USE DEF TcState
<1>1. tc.stuck \in BOOLEAN
    BY SMT, SMTT(40)
<1>2. PICK next \in IF tc.oper = "AUDIT" THEN AuditNext(op, ok) ELSE CommitNext(op, ok) :
         tc' = IF next \in {"none", "FATAL"}
               THEN [oper |-> "none", next |-> "none", stuck |-> tc.stuck \/ next = "FATAL"]
               ELSE [tc EXCEPT !.next = next]
    BY Zenon DEF Proceed
<1>3. op \in SingleOps \cup CommitOps \cup AuditOps
    OBVIOUS
<1>4. next \in {"none", "FATAL"} \/ (tc.oper \in {"COMMIT", "AUDIT"} /\ Follows(op, ok, next))
    BY <1>2, <1>3 DEF AuditNext, CommitNext, Follows, SingleOps, CommitOps, AuditOps
<1>5. next = "none" => Finished(op, ok)
    BY <1>2, <1>3 DEF AuditNext, CommitNext, Finished, SingleOps, CommitOps, AuditOps
<1>6. CASE next = "FATAL"
    <2>1. tc' = [oper |-> "none", next |-> "none", stuck |-> TRUE]
        BY <1>2, <1>6, Zenon
    <2> QED
        BY <2>1 DEF IsOver
<1>7. CASE next = "none"
    <2>1. tc' = [oper |-> "none", next |-> "none", stuck |-> tc.stuck]
        BY <1>1, <1>2, <1>7
    <2> QED
        BY <1>1, <1>5, <1>7, <2>1 DEF IsOver
<1>8. CASE next \notin {"none", "FATAL"}
    <2>1. tc' = [tc EXCEPT !.next = next]
        BY <1>2, <1>8
    <2>2. tc' \in [oper : {tc.oper}, next : {next}, stuck : BOOLEAN]
        BY <2>1, Zenon
    <2> QED
        BY <1>4, <1>8, <2>1, <2>2
<1> QED
    BY <1>6, <1>7, <1>8

LEMMA ProceedInv ==
    ASSUME Inv, NEW op, NEW ok \in BOOLEAN, Proceed(op, ok), th'["tc"].op = "idle",
           \/ tc.oper \in SingleOps /\ op = tc.oper
           \/ tc.oper \in {"COMMIT", "AUDIT"} /\ op = tc.next
    PROVE  TcState'
<1>1. TcState
    BY DEF Inv, RoleInv
<1>2. CASE IsOver
    BY <1>1, <1>2 DEF IsOver, TcState, SingleOps
<1>3. CASE /\ tc.oper \in {"COMMIT", "AUDIT"}
           /\ tc'.oper = tc.oper /\ tc'.stuck = tc.stuck
           /\ Follows(op, ok, tc'.next)
           /\ tc' \in [oper : {tc.oper}, next : {tc'.next}, stuck : BOOLEAN]
    <2>1. (tc.oper = "COMMIT" => tc'.next \in CommitOps) /\ (tc.oper = "AUDIT" => tc'.next \in AuditOps)
        BY <1>1, <1>3 DEF TcState, Follows, CommitOps, AuditOps, SingleOps
    <2>2. ~tc.stuck
        BY <1>1, <1>3 DEF TcState
    <2> QED
        BY <1>1, <1>3, <2>1, <2>2 DEF TcState, SingleOps
<1> QED
    BY <1>1, <1>2, <1>3, ProceedTo

\* The end of a request.
LEMMA EndInv ==
    ASSUME Inv, DataTyped', NEW t \in Threads, NEW ok \in BOOLEAN, End(t, ok),
           th[t].op # "idle"
    PROVE  Inv'
<1>1. Idle \in Thread /\ Idle.op = "idle" /\ Idle.pc = "idle" /\ Idle.want = {}
    BY DEF Idle, Thread, OpNames, PcNames
<1>2. Fits(t, Idle)
    BY <1>1 DEF Fits, Pcs
<1>3. LocksFit(Idle, NoLock)
    BY <1>1 DEF LocksFit, Writing, AboutToWrite, Entering, OnCandidate
<1>4. /\ NoLock \in [LockNames -> {"-", "R", "W"}]
      /\ \A l \in LockNames : NoLock[l] = "-"
    BY DEF NoLock
<1>5. th' = [th EXCEPT ![t] = Idle] /\ held' = [held EXCEPT ![t] = NoLock]
    BY DEF End, Release
<1>6. t # "tc" => tc' = tc
    BY DEF End
<1>7. t = "tc" => TcState'
    <2> SUFFICES ASSUME t = "tc"
                 PROVE  TcState'
        OBVIOUS
    <2>1. Proceed(th[t].op, ok) /\ th'["tc"].op = "idle"
        BY <1>1, <1>5 DEF End, Inv, Typed
    <2>2. \/ tc.oper \in SingleOps /\ th[t].op = tc.oper
          \/ tc.oper \in {"COMMIT", "AUDIT"} /\ th[t].op = tc.next
        BY DEF Inv, RoleInv, TcState
    <2> QED
        BY <2>1, <2>2, ProceedInv
<1> QED
    BY <1>1, <1>2, <1>3, <1>4, <1>5, <1>6, <1>7, OneThread, Zenon

\* A lock is taken.
LEMMA LockStepInv ==
    ASSUME Inv, NEW t \in Threads, Lock(t)
    PROVE  Inv'
<1>1. PICK l \in First(th[t].want) :
         /\ Free(t, l)
         /\ held' = [held EXCEPT ![t][l.on] = l.mode]
         /\ th' = [th EXCEPT ![t].want = @ \ {l}]
    BY Zenon DEF Lock
<1>2. DataTyped' /\ tc' = tc
    BY DEF Lock, Inv, Typed, DataTyped, data, flags
<1>3. th[t] \in Thread /\ held[t] \in [LockNames -> {"-", "R", "W"}]
    BY DEF Inv, Typed
<1>4. PICK x : x = [th[t] EXCEPT !.want = @ \ {l}]
    BY Zenon
<1>5. PICK h : h = [held[t] EXCEPT ![l.on] = l.mode]
    BY Zenon
<1>6. l \in LockSet /\ l \in th[t].want /\ \A k \in th[t].want : Rank[l.on] <= Rank[k.on]
    BY <1>1, <1>3 DEF First, Thread
<1>7. /\ x \in Thread /\ x.op = th[t].op /\ x.pc = th[t].pc
      /\ x.want = th[t].want \ {l}
    BY <1>3, <1>4 DEF Thread
<1>8. l.on \in LockNames /\ l.mode \in {"R", "W"} /\ l = [on |-> l.on, mode |-> l.mode]
    BY <1>6 DEF LockSet
<1>9. /\ h \in [LockNames -> {"-", "R", "W"}] /\ h[l.on] = l.mode
      /\ \A k \in LockNames \ {l.on} : h[k] = held[t][k]
    BY <1>3, <1>5, <1>8
<1>10. th' = [th EXCEPT ![t] = x] /\ held' = [held EXCEPT ![t] = h]
    BY <1>1, <1>3, <1>4, <1>5 DEF Inv, Typed, Thread
<1>11. Fits(t, x)
    BY <1>7 DEF Fits, Inv, RoleInv
<1>12. \A k \in LockNames :
          h[k] \in {"-", held[t][k]} \/ Free(t, [on |-> k, mode |-> h[k]])
    BY <1>1, <1>8, <1>9
<1>13. LocksFit(th[t], held[t])
    BY DEF Inv, LockInv
<1>14. LocksFit(x, h)
    <2>1. \A w \in x.want : w \in th[t].want /\ w # l /\ w.on # l.on /\ w \in LockSet
        BY <1>3, <1>6, <1>7, <1>13 DEF LocksFit, Thread
    <2>2. \A w \in x.want : w.on \in LockNames /\ Rank[l.on] < Rank[w.on]
        BY <1>6, <1>8, <2>1 DEF Rank, LockSet, LockNames, Datatypes
    <2>3. \A k \in LockNames : \A w \in x.want : h[k] # "-" => Rank[k] < Rank[w.on]
        BY <1>9, <1>13, <2>1, <2>2 DEF LocksFit
    <2>4. ASSUME NEW k \in LockSet, Secured(th[t], held[t], k)
          PROVE  Secured(x, h, k)
        <3>1. k.on \in LockNames /\ k.mode # "-" /\ Rank[k.on] \in Int
            BY DEF LockSet, Rank, LockNames, Datatypes
        <3>2. CASE k \in th[t].want
            BY <1>7, <1>9, <3>2 DEF Secured
        <3>3. CASE held[t][k.on] = k.mode
            <4>1. Rank[k.on] < Rank[l.on]
                BY <1>6, <1>13, <3>1, <3>3 DEF LocksFit
            <4>2. k.on # l.on
                BY <3>1, <4>1
            <4> QED
                BY <1>9, <3>1, <3>3, <4>2, SMT, SMTT(40) DEF Secured
        <3> QED
            BY <2>4, <3>2, <3>3 DEF Secured
    <2>5. W(Target(x.op)) \in LockSet /\ BatchEndLocks \subseteq LockSet
        BY DEF W, R, Target, LockSet, LockNames, Datatypes, BatchEndLocks
    <2>6. /\ th[t].op # "idle"
          /\ th[t].pc \notin Writing \cup {"import_write"}
        BY <1>6, <1>13, SMT, SMTT(40) DEF LocksFit
    <2>7. x.pc \in Entering => /\ \A k \in LockNames \ {"MUTEX"} : h[k] = "-"
                              /\ \A w \in x.want : w.on = "MUTEX"
        BY <1>6, <1>7, <1>9, <1>13 DEF LocksFit
    <2>8. x.pc = "db_commit" => /\ x.op # "CLEAR_IMPORT" => h["MUTEX"] = "-"
                                /\ \A w \in x.want : w.on # "MUTEX"
        BY <1>6, <1>7, <1>8, <1>9, <1>13, SMT, SMTT(40) DEF LocksFit, LockNames
    <2>9. x.pc \in Writing \cup AboutToWrite => Secured(x, h, W(Target(x.op)))
        BY <1>7, <1>13, <2>4, <2>5 DEF LocksFit
    <2>10. x.pc = "batch_end" => \A k \in BatchEndLocks : Secured(x, h, k)
        BY <1>7, <1>13, <2>4, <2>5 DEF LocksFit
    <2>11. \A v, w \in x.want : v.on = w.on => v = w
        BY <1>13, <2>1 DEF LocksFit
    <2>12. OnCandidate(x) => \/ Secured(x, h, W("CAND"))
                             \/ x.op \notin CandidateWriters /\ Secured(x, h, R("CAND"))
        <3>1. W("CAND") \in LockSet /\ R("CAND") \in LockSet
            BY DEF W, R, LockSet, LockNames, Datatypes
        <3>2. OnCandidate(x) <=> OnCandidate(th[t])
            BY <1>7 DEF OnCandidate
        <3> QED
            BY <1>7, <1>13, <2>4, <3>1, <3>2, Zenon DEF LocksFit
    <2> QED
        BY <1>7, <2>3, <2>6, <2>7, <2>8, <2>9, <2>10, <2>11, <2>12, SMT, SMTT(40) DEF LocksFit
<1>15. t = "tc" => TcState'
    <2>1. t = "tc" => th'["tc"].op = th["tc"].op
        BY <1>7, <1>10 DEF Inv, Typed
    <2> QED
        BY <1>2, <2>1, TcSame DEF Inv, RoleInv
<1> QED
    BY <1>2, <1>7, <1>9, <1>10, <1>11, <1>12, <1>14, <1>15, OneThread, Zenon

----------------------------------------------------------------------------
(* The locks of each part of a request *)

Request(op, pc, locks) ==
    \/ pc = "edit" /\ op = "EDIT" /\ locks = EditLocks
    \/ pc = "edit" /\ op = "RENAME" /\ locks = RenameLocks
    \/ pc = "read" /\ locks = {R("CAND")}
    \/ pc = "dirty" /\ locks = DirtyLocks
    \/ pc = "batch_end" /\ locks = BatchEndLocks
    \/ pc = "db_commit" /\ locks = AllWrite
    \/ pc \in Entering /\ locks = {W("MUTEX")}
    \/ pc = "validate" /\ op = "IMPORT" /\ locks = ImportLocks
    \/ pc = "validate" /\ op = "MERGE" /\ \E mode \in {"R", "W"} : locks = MergeLocks(mode)
    \/ pc = "clear_import" /\ op = "CLEAR_IMPORT" /\ locks = {W("IMPORT")}
    \/ pc = "clear_startup" /\ op = "SAVE" /\ locks = SaveLocks
    \/ pc = "clear_startup" /\ op = "CLEAR_STARTUP" /\ locks = {W("START")}
    \/ pc = "copy_cand" /\ op = "ABORT" /\ locks = EditLocks
    \/ pc = "tx_start" /\ locks = TxStartLocks
    \/ pc = "tx_vote" /\ locks = TxVoteLocks
    \/ pc = "copy_run" /\ op = "TX_RESULT" /\ locks = TxEndLocks
    \/ pc = "tx_end" /\ locks = TxEndLocks
    \/ pc = "audit_db" /\ locks \in {AuditStartLocks, AuditTxLocks}
    \/ pc = "audit_end" /\ locks = {W("AUDIT")}

LEMMA RequestLocks ==
    ASSUME NEW op, NEW pc, NEW locks, Request(op, pc, locks)
    PROVE  /\ locks \in SUBSET LockSet /\ pc \in PcNames
           /\ \A v, w \in locks : v.on = w.on => v = w
           /\ pc \notin Writing \cup {"import_write"}
           /\ pc \in AboutToWrite => W(Target(op)) \in locks
           /\ pc = "batch_end" => locks = BatchEndLocks
           /\ \A w \in locks : w.on = "MUTEX" <=> pc \in Entering
<1> USE DEF Request, R, W
<1>1. locks \in SUBSET LockSet
    BY DEF LockSet, LockNames, Datatypes, EditLocks, RenameLocks, DirtyLocks, BatchEndLocks,
           AllWrite, ImportLocks, MergeLocks, SaveLocks, TxStartLocks, TxVoteLocks, TxEndLocks,
           AuditStartLocks, AuditTxLocks
<1>2. pc \in PcNames
    BY DEF PcNames, Entering
<1>3. \A v, w \in locks : v.on = w.on => v = w
    BY DEF EditLocks, RenameLocks, DirtyLocks, BatchEndLocks,
           AllWrite, ImportLocks, MergeLocks, SaveLocks, TxStartLocks, TxVoteLocks, TxEndLocks,
           AuditStartLocks, AuditTxLocks
<1>4. pc \notin Writing \cup {"import_write"}
    BY DEF Writing, Entering
<1>5. pc \in AboutToWrite => W(Target(op)) \in locks
    BY DEF AboutToWrite, Target, Entering, EditLocks, RenameLocks, ImportLocks, MergeLocks,
           SaveLocks, TxEndLocks
<1>6. pc = "batch_end" => locks = BatchEndLocks
    BY DEF Entering
<1>7. \A w \in locks : w.on = "MUTEX" <=> pc \in Entering
    BY SMT, SMTT(40) DEF Entering, EditLocks, RenameLocks, DirtyLocks, BatchEndLocks,
           AllWrite, ImportLocks, MergeLocks, SaveLocks, TxStartLocks, TxVoteLocks, TxEndLocks,
           AuditStartLocks, AuditTxLocks
<1> QED
    BY <1>1, <1>2, <1>3, <1>4, <1>5, <1>6, <1>7

LEMMA CandidateLocks ==
    ASSUME NEW op \in OpNames, NEW pc \in Pcs(op), NEW locks, Request(op, pc, locks),
           pc \notin Entering,
           op \notin {"idle", "SAVE", "CLEAR_STARTUP", "CLEAR_IMPORT"} \cup AuditOps
    PROVE  W("CAND") \in locks \/ (op \notin CandidateWriters /\ R("CAND") \in locks)
<1>1. op \in {"EDIT", "RENAME", "READ", "DIRTY", "BATCH_START", "BATCH_END", "IMPORT", "MERGE",
              "ABORT", "TX_START", "TX_VOTE", "TX_VOTE_RESULT", "TX_GLOBAL", "TX_RESULT", "TX_END"}
    BY DEF OpNames, UserOps, SingleOps, CommitOps
<1>2. /\ pc \notin {"clear_import", "clear_startup", "audit_db", "audit_end"}
      /\ pc \in {"read", "dirty", "tx_vote"} => op \notin CandidateWriters
    BY <1>1 DEF Pcs, CandidateWriters
<1> QED
    BY <1>2, SMT, SMTT(40)
       DEF Request, R, W, CandidateWriters, EditLocks, RenameLocks, DirtyLocks, BatchEndLocks,
           AllWrite, ImportLocks, MergeLocks, TxStartLocks, TxVoteLocks, TxEndLocks

\* When a thread asks for locks it holds at most import_mutex_lock_.
KeepsMutex(t, op, pc, h) ==
    /\ h \in [LockNames -> {"-", "R", "W"}]
    /\ \A l \in LockNames : h[l] \in {"-", held[t][l]}
    /\ \A l \in LockNames \ {"MUTEX"} : h[l] = "-"
    /\ h["MUTEX"] = "-" \/ /\ pc \notin Entering
                           /\ pc = "db_commit" => op = "CLEAR_IMPORT"

\* The thread t may go on with a part of the request op.
MayDo(t, op) ==
    /\ op \in OpsOf(t)
    /\ t = "tc" => op = th[t].op \/ (th[t].op = "idle" /\ tc.next # "none" /\ op = tc.next)

LEMMA RequestInv ==
    ASSUME Inv, DataTyped', tc' = tc, NEW t \in Threads, NEW op, NEW pc \in Pcs(op),
           NEW locks, Request(op, pc, locks), Go(t, op, pc, locks),
           NEW h, held' = [held EXCEPT ![t] = h], KeepsMutex(t, op, pc, h), MayDo(t, op)
    PROVE  Inv'
<1> USE DEF KeepsMutex, MayDo
<1>1. op \in OpNames /\ op # "idle"
    BY DEF OpsOf, OpNames, UserOps, SingleOps, CommitOps, AuditOps
<1>2. PICK x : x = [op |-> op, pc |-> pc, want |-> locks, ok |-> TRUE]
    BY Zenon
<1>3. x.op = op /\ x.pc = pc /\ x.want = locks
    BY <1>2
<1>4. /\ locks \in SUBSET LockSet /\ pc \in PcNames
      /\ \A v, w \in locks : v.on = w.on => v = w
      /\ pc \notin Writing \cup {"import_write"}
      /\ pc \in AboutToWrite => W(Target(op)) \in locks
      /\ pc = "batch_end" => locks = BatchEndLocks
      /\ \A w \in locks : w.on = "MUTEX" <=> pc \in Entering
    BY RequestLocks
<1>5. \A l \in LockNames : \A w \in locks : h[l] # "-" => Rank[l] < Rank[w.on]
    <2> SUFFICES ASSUME NEW w \in locks, h["MUTEX"] # "-"
                 PROVE  Rank["MUTEX"] < Rank[w.on]
        BY DEF LockNames
    <2>1. w.on \in LockNames /\ w.on # "MUTEX"
        BY <1>4, SMT, SMTT(40) DEF LockSet
    <2> QED
        BY <2>1 DEF Rank, LockNames, Datatypes
<1>6. OnCandidate(x) => \/ Secured(x, h, W("CAND"))
                        \/ x.op \notin CandidateWriters /\ Secured(x, h, R("CAND"))
    BY <1>1, <1>3, CandidateLocks, Zenon DEF OnCandidate, Secured
<1>7. LocksFit(x, h)
    BY <1>1, <1>3, <1>4, <1>5, <1>6 DEF LocksFit, Secured, Entering
<1> QED
    BY <1>1, <1>2, <1>4, <1>7, GoInv, Zenon

\* A request begins.
LEMMA BeginInv ==
    ASSUME Inv, DataTyped', tc' = tc, NEW t \in Threads, NEW op, NEW pc \in Pcs(op),
           NEW locks, Request(op, pc, locks), Begin(t, op, pc, locks), th[t].op = "idle",
           MayDo(t, op)
    PROVE  Inv'
<1>1. held[t] = NoLock
    BY Zenon DEF Inv, LockInv, LocksFit
<1>2. KeepsMutex(t, op, pc, NoLock)
    BY DEF KeepsMutex, NoLock, LockNames
<1>3. held' = [held EXCEPT ![t] = NoLock]
    BY <1>1 DEF Begin, Inv, Typed
<1>4. Go(t, op, pc, locks)
    BY DEF Begin
<1> QED
    BY <1>2, <1>3, <1>4, RequestInv, ZenonT(40)

----------------------------------------------------------------------------
(* The start of each request *)

LEMMA SameData ==
    ASSUME Inv, UNCHANGED <<data, batch>>
    PROVE  DataTyped'
BY DEF Inv, Typed, DataTyped, data

LEMMA UserBegins ==
    ASSUME Inv, DataTyped', tc' = tc, UserFree, NEW op \in UserOps, NEW pc \in Pcs(op),
           NEW locks, Request(op, pc, locks), Begin("user", op, pc, locks)
    PROVE  Inv'
<1>1. "user" \in Threads /\ MayDo("user", op) /\ th["user"].op = "idle"
    BY DEF Threads, MayDo, OpsOf, UserFree
<1> QED
    BY <1>1, BeginInv

LEMMA TcBegins ==
    ASSUME Inv, DataTyped', tc' = tc, NEW op \in CommitOps \cup AuditOps, Calls(op),
           NEW pc \in Pcs(op), NEW locks, Request(op, pc, locks), Begin("tc", op, pc, locks)
    PROVE  Inv'
<1>1. "tc" \in Threads /\ MayDo("tc", op) /\ th["tc"].op = "idle"
    BY DEF Threads, MayDo, OpsOf, Calls, CommitOps, AuditOps
<1> QED
    BY <1>1, BeginInv

LEMMA EditStartInv ==
    ASSUME Inv, EditStart
    PROVE  Inv'
<1>1. DataTyped' /\ tc' = tc /\ UserFree
    BY SameData DEF EditStart, flags
<1>2. "edit" \in Pcs("EDIT") /\ "edit" \in Pcs("RENAME") /\ {"EDIT", "RENAME"} \subseteq UserOps
    BY DEF Pcs, UserOps
<1>3. Request("EDIT", "edit", EditLocks) /\ Request("RENAME", "edit", RenameLocks)
    BY DEF Request
<1>4. CASE Begin("user", "EDIT", "edit", EditLocks)
    BY <1>1, <1>2, <1>3, <1>4, UserBegins
<1>5. CASE Begin("user", "RENAME", "edit", RenameLocks)
    BY <1>1, <1>2, <1>3, <1>5, UserBegins
<1> QED
    BY <1>4, <1>5 DEF EditStart

LEMMA ReadStartInv ==
    ASSUME Inv, NEW t \in Threads, ReadStart(t)
    PROVE  Inv'
<1>1. DataTyped' /\ tc' = tc /\ Begin(t, "READ", "read", {R("CAND")})
    BY SameData DEF ReadStart, flags
<1>2. "read" \in Pcs("READ") /\ Request("READ", "read", {R("CAND")})
    BY DEF Pcs, Request
<1>3. MayDo(t, "READ") /\ th[t].op = "idle"
    BY ConfigAssumption DEF ReadStart, MayDo, OpsOf, UserOps
<1> QED
    BY <1>1, <1>2, <1>3, BeginInv

LEMMA DirtyStartInv ==
    ASSUME Inv, NEW t \in Threads, DirtyStart(t)
    PROVE  Inv'
<1>1. DataTyped' /\ tc' = tc /\ Begin(t, "DIRTY", "dirty", DirtyLocks)
    BY SameData DEF DirtyStart, flags
<1>2. "dirty" \in Pcs("DIRTY") /\ Request("DIRTY", "dirty", DirtyLocks)
    BY DEF Pcs, Request
<1>3. MayDo(t, "DIRTY") /\ th[t].op = "idle"
    BY ConfigAssumption DEF DirtyStart, MayDo, OpsOf, UserOps
<1> QED
    BY <1>1, <1>2, <1>3, BeginInv

LEMMA OnBatchStartInv ==
    ASSUME Inv, OnBatchStart
    PROVE  Inv'
<1>1. tc' = tc /\ UserFree /\ UNCHANGED data
    BY DEF OnBatchStart
<1>2. CASE batch' = [on |-> TRUE, cnt |-> 0, lost |-> FALSE] /\ UNCHANGED <<th, held>>
    <2>1. DataTyped'
        BY <1>1, <1>2 DEF Inv, Typed, DataTyped, data
    <2>2. TcState'
        BY <1>1, <1>2, TcSame DEF Inv, RoleInv
    <2> QED
        BY <1>2, <2>1, <2>2, SameThreads
<1>3. CASE Begin("user", "BATCH_START", "db_commit", AllWrite) /\ UNCHANGED <<batch, timer>>
    <2>1. "db_commit" \in Pcs("BATCH_START") /\ "BATCH_START" \in UserOps
        BY DEF Pcs, UserOps
    <2>2. Request("BATCH_START", "db_commit", AllWrite)
        BY DEF Request
    <2> QED
        BY <1>1, <1>3, <2>1, <2>2, SameData, UserBegins
<1> QED
    BY <1>2, <1>3 DEF OnBatchStart

LEMMA OnBatchAliveInv ==
    ASSUME Inv, OnBatchAlive
    PROVE  Inv'
<1>1. tc' = tc /\ UserFree /\ UNCHANGED <<data, th, held>>
    BY DEF OnBatchAlive
<1>2. batch' = [batch EXCEPT !.lost = FALSE] \/ batch' = [batch EXCEPT !.lost = TRUE]
    BY DEF OnBatchAlive
<1>3. DataTyped'
    BY <1>1, <1>2, Zenon DEF Inv, Typed, DataTyped, data
<1>4. TcState'
    BY <1>1, TcSame DEF Inv, RoleInv
<1> QED
    BY <1>1, <1>3, <1>4, SameThreads

LEMMA BatchEndStartInv ==
    ASSUME Inv, BatchEndStart
    PROVE  Inv'
<1>1. DataTyped' /\ tc' = tc /\ UserFree /\ Begin("user", "BATCH_END", "batch_end", BatchEndLocks)
    BY SameData DEF BatchEndStart, flags
<1>2. /\ "batch_end" \in Pcs("BATCH_END") /\ "BATCH_END" \in UserOps
      /\ Request("BATCH_END", "batch_end", BatchEndLocks)
    BY DEF Pcs, UserOps, Request
<1> QED
    BY <1>1, <1>2, UserBegins

LEMMA BatchTimeOutInv ==
    ASSUME Inv, BatchTimeOut
    PROVE  Inv'
<1>1. DataTyped' /\ tc' = tc /\ Begin("timer", "BATCH_END", "batch_end", BatchEndLocks)
    BY SameData DEF BatchTimeOut
<1>2. "batch_end" \in Pcs("BATCH_END") /\ Request("BATCH_END", "batch_end", BatchEndLocks)
    BY DEF Pcs, Request
<1>3. "timer" \in Threads /\ MayDo("timer", "BATCH_END") /\ th["timer"].op = "idle"
    BY DEF BatchTimeOut, Threads, MayDo, OpsOf
<1> QED
    BY <1>1, <1>2, <1>3, BeginInv

LEMMA ImportStartInv ==
    ASSUME Inv, ImportStart
    PROVE  Inv'
<1>1. DataTyped' /\ tc' = tc /\ UserFree
    BY SameData DEF ImportStart, flags
<1>2. CASE \E op \in {"IMPORT", "MERGE"} : Begin("user", op, "db_commit", AllWrite)
    <2>1. PICK op \in {"IMPORT", "MERGE"} : Begin("user", op, "db_commit", AllWrite)
        BY <1>2
    <2>2. "db_commit" \in Pcs(op) /\ op \in UserOps /\ Request(op, "db_commit", AllWrite)
        BY DEF Pcs, UserOps, Request
    <2> QED
        BY <1>1, <2>1, <2>2, UserBegins
<1>3. CASE Begin("user", "CLEAR_IMPORT", "clear_enter", {W("MUTEX")})
    <2>1. /\ "clear_enter" \in Pcs("CLEAR_IMPORT") /\ "CLEAR_IMPORT" \in UserOps
          /\ Request("CLEAR_IMPORT", "clear_enter", {W("MUTEX")})
        BY DEF Pcs, UserOps, Request, Entering
    <2> QED
        BY <1>1, <1>3, <2>1, UserBegins
<1> QED
    BY <1>2, <1>3 DEF ImportStart

LEMMA TcStartInv ==
    ASSUME Inv, TcStart
    PROVE  Inv'
<1>1. DataTyped' /\ TcFree /\ TcState /\ tc.oper = "none" /\ tc.next = "none"
    BY SameData DEF TcStart, flags, TcFree, Inv, RoleInv, TcState
<1>2. CASE \E op \in SingleOps : /\ tc' = [tc EXCEPT !.oper = op]
                                 /\ Begin("tc", op, "db_commit", AllWrite)
    <2>1. PICK op \in SingleOps : /\ tc' = [tc EXCEPT !.oper = op]
                                  /\ Begin("tc", op, "db_commit", AllWrite)
        BY <1>2
    <2>2. PICK x : x = [op |-> op, pc |-> "db_commit", want |-> AllWrite, ok |-> TRUE]
        BY Zenon
    <2>3. /\ "db_commit" \in Pcs(op) /\ op \in OpNames /\ op # "idle"
          /\ Request(op, "db_commit", AllWrite) /\ op \in OpsOf("tc")
        BY DEF Pcs, SingleOps, OpNames, Request, OpsOf
    <2>4. x \in Thread /\ x.op = op /\ x.pc = "db_commit" /\ x.want = AllWrite
        BY <2>2, <2>3, RequestLocks DEF Thread
    <2>5. "tc" \in Threads /\ th' = [th EXCEPT !["tc"] = x] /\ held' = [held EXCEPT !["tc"] = NoLock]
        <3>1. "tc" \in Threads /\ held["tc"] = NoLock
            BY <1>1 DEF Threads, TcFree, Inv, LockInv, LocksFit
        <3> QED
            BY <2>1, <2>2, <3>1, SMT, SMTT(40) DEF Begin, Go, Inv, Typed
    <2>6. NoLock \in [LockNames -> {"-", "R", "W"}] /\ \A l \in LockNames : NoLock[l] = "-"
        BY DEF NoLock
    <2>7. LocksFit(x, NoLock)
        BY <2>3, <2>4, <2>6, RequestLocks
           DEF Secured, W, AllWrite, LocksFit, Writing, AboutToWrite, Entering, LockNames
    <2>8. Fits("tc", x)
        BY <2>3, <2>4 DEF Fits
    <2>9. th'["tc"].op = op
        BY <2>4, <2>5 DEF Inv, Typed
    <2>10. TcState'
        BY <1>1, <2>1, <2>9 DEF TcState, SingleOps
    <2> QED
        BY <1>1, <2>4, <2>5, <2>6, <2>7, <2>8, <2>10, OneThread, Zenon
<1>3. CASE \E op \in {"COMMIT", "AUDIT"} :
              /\ ~tc.stuck
              /\ tc' = [tc EXCEPT !.oper = op,
                                 !.next = IF op = "COMMIT" THEN "TX_START" ELSE "AUDIT_START"]
              /\ UNCHANGED <<th, held>>
    <2>1. \/ tc' = [tc EXCEPT !.oper = "COMMIT", !.next = "TX_START"]
          \/ tc' = [tc EXCEPT !.oper = "AUDIT", !.next = "AUDIT_START"]
        BY <1>3
    <2>2. TcState'
        BY <1>1, <1>3, <2>1, Zenon DEF TcState, SingleOps, CommitOps, AuditOps, TcFree
    <2> QED
        BY <1>1, <1>3, <2>2, SameThreads
<1> QED
    BY <1>2, <1>3 DEF TcStart, SingleOps

LEMMA OnTxStartInv ==
    ASSUME Inv, OnTxStart
    PROVE  Inv'
<1>1. DataTyped' /\ tc' = tc /\ Calls("TX_START")
    BY SameData DEF OnTxStart
<1>2. {"db_commit", "tx_end"} \subseteq Pcs("TX_START") /\ "TX_START" \in CommitOps
    BY DEF Pcs, CommitOps
<1>3. Request("TX_START", "db_commit", AllWrite) /\ Request("TX_START", "tx_end", TxEndLocks)
    BY DEF Request
<1>4. CASE Begin("tc", "TX_START", "tx_end", TxEndLocks)
    BY <1>1, <1>2, <1>3, <1>4, TcBegins
<1>5. CASE Begin("tc", "TX_START", "db_commit", AllWrite)
    BY <1>1, <1>2, <1>3, <1>5, TcBegins
<1> QED
    BY <1>4, <1>5 DEF OnTxStart

LEMMA OnTxVoteStartInv ==
    ASSUME Inv, OnTxVoteStart
    PROVE  Inv'
<1>1. DataTyped' /\ tc' = tc
    BY SameData DEF OnTxVoteStart, flags
<1>2. PICK op \in {"TX_VOTE", "TX_VOTE_RESULT"} :
         Calls(op) /\ Begin("tc", op, "tx_vote", TxVoteLocks)
    BY DEF OnTxVoteStart
<1>3. "tx_vote" \in Pcs(op) /\ op \in CommitOps /\ Request(op, "tx_vote", TxVoteLocks)
    BY DEF Pcs, CommitOps, Request
<1> QED
    BY <1>1, <1>2, <1>3, TcBegins

LEMMA GlobalCommitInv ==
    ASSUME Inv, GlobalCommit
    PROVE  Inv'
<1>1. PICK ok \in BOOLEAN : Proceed(tc.next, ok)
    BY DEF GlobalCommit
<1>2. /\ th["tc"].op = "idle" /\ tc.next \in {"TX_GLOBAL", "AUDIT_GLOBAL"}
      /\ UNCHANGED <<th, held>>
    BY DEF GlobalCommit, Calls
<1>3. tc.oper \in {"COMMIT", "AUDIT"}
    BY <1>2, SMT, SMTT(40) DEF Inv, RoleInv, TcState
<1>4. DataTyped' /\ th'["tc"].op = "idle"
    BY <1>2, SameData DEF GlobalCommit
<1>5. TcState'
    BY <1>1, <1>3, <1>4, ProceedInv
<1> QED
    BY <1>2, <1>4, <1>5, SameThreads

LEMMA OnTxResultStartInv ==
    ASSUME Inv, OnTxResultStart
    PROVE  Inv'
<1>1. /\ DataTyped' /\ tc' = tc /\ Calls("TX_RESULT")
      /\ Begin("tc", "TX_RESULT", "copy_run", TxEndLocks)
    BY SameData DEF OnTxResultStart, flags
<1>2. /\ "copy_run" \in Pcs("TX_RESULT") /\ "TX_RESULT" \in CommitOps
      /\ Request("TX_RESULT", "copy_run", TxEndLocks)
    BY DEF Pcs, CommitOps, Request
<1> QED
    BY <1>1, <1>2, TcBegins

LEMMA OnTxEndStartInv ==
    ASSUME Inv, OnTxEndStart
    PROVE  Inv'
<1>1. /\ DataTyped' /\ tc' = tc /\ Calls("TX_END")
      /\ Begin("tc", "TX_END", "tx_end", TxEndLocks)
    BY SameData DEF OnTxEndStart, flags
<1>2. /\ "tx_end" \in Pcs("TX_END") /\ "TX_END" \in CommitOps
      /\ Request("TX_END", "tx_end", TxEndLocks)
    BY DEF Pcs, CommitOps, Request
<1> QED
    BY <1>1, <1>2, TcBegins

LEMMA OnAuditStartInv ==
    ASSUME Inv, OnAuditStart
    PROVE  Inv'
<1>1. DataTyped' /\ Calls("AUDIT_START")
    BY SameData DEF OnAuditStart
<1>2. /\ {"audit_db", "audit_end"} \subseteq Pcs("AUDIT_START") /\ "AUDIT_START" \in AuditOps
      /\ Request("AUDIT_START", "audit_end", {W("AUDIT")})
      /\ Request("AUDIT_START", "audit_db", AuditStartLocks)
    BY DEF Pcs, AuditOps, Request
<1>3. CASE Begin("tc", "AUDIT_START", "audit_end", {W("AUDIT")}) /\ UNCHANGED tc
    BY <1>1, <1>2, <1>3, TcBegins
<1>4. CASE Begin("tc", "AUDIT_START", "audit_db", AuditStartLocks) /\ UNCHANGED tc
    BY <1>1, <1>2, <1>4, TcBegins
<1>5. CASE (\E ok \in BOOLEAN : Proceed("AUDIT_START", ok)) /\ UNCHANGED <<th, held>>
    <2>1. PICK ok \in BOOLEAN : Proceed("AUDIT_START", ok)
        BY <1>5
    <2>2. tc.next = "AUDIT_START" /\ th'["tc"].op = "idle"
        BY <1>1, <1>5 DEF Calls
    <2>3. tc.oper = "AUDIT"
        BY <2>2 DEF Inv, RoleInv, TcState, CommitOps
    <2>4. TcState'
        BY <2>1, <2>2, <2>3, ProceedInv
    <2> QED
        BY <1>1, <1>5, <2>4, SameThreads
<1> QED
    BY <1>3, <1>4, <1>5, Zenon DEF OnAuditStart

LEMMA AuditCallInv ==
    ASSUME Inv, AuditCall
    PROVE  Inv'
<1>1. DataTyped' /\ tc' = tc
    BY SameData DEF AuditCall, flags
<1>2. CASE \E op \in {"AUDIT_TX_START", "AUDIT_VOTE_RESULT", "AUDIT_RESULT"} :
              Calls(op) /\ Begin("tc", op, "audit_db", AuditTxLocks)
    <2>1. PICK op \in {"AUDIT_TX_START", "AUDIT_VOTE_RESULT", "AUDIT_RESULT"} :
             Calls(op) /\ Begin("tc", op, "audit_db", AuditTxLocks)
        BY <1>2
    <2>2. "audit_db" \in Pcs(op) /\ op \in AuditOps /\ Request(op, "audit_db", AuditTxLocks)
        BY DEF Pcs, AuditOps, Request
    <2> QED
        BY <1>1, <2>1, <2>2, TcBegins
<1>3. CASE Calls("AUDIT_END") /\ Begin("tc", "AUDIT_END", "audit_end", {W("AUDIT")})
    <2>1. /\ "audit_end" \in Pcs("AUDIT_END") /\ "AUDIT_END" \in AuditOps
          /\ Request("AUDIT_END", "audit_end", {W("AUDIT")})
        BY DEF Pcs, AuditOps, Request
    <2> QED
        BY <1>1, <1>3, <2>1, TcBegins
<1> QED
    BY <1>2, <1>3 DEF AuditCall

----------------------------------------------------------------------------
(* The steps of a body *)

\* What DalTxClose and a write do to the data.
LEMMA CloseData ==
    ASSUME Inv, NEW success, Close(success)
    PROVE  /\ db' \in [Datatypes -> Content] /\ view' \in [Datatypes -> Content]
           /\ written' \in BOOLEAN /\ pending' \in Nat
           /\ db' = view'
<1>1. (db' = view /\ view' = view) \/ (view' = db /\ db' = db)
    BY Zenon DEF Close
<1>2. written' = FALSE /\ pending' = 0
    BY Zenon DEF Close
<1> QED
    BY <1>1, <1>2 DEF Inv, Typed, DataTyped

LEMMA WriteData ==
    ASSUME Inv, NEW dt \in Datatypes, NEW content \in Content, NEW ok \in BOOLEAN,
           Write(dt, content, ok)
    PROVE  /\ db' \in [Datatypes -> Content] /\ view' \in [Datatypes -> Content]
           /\ written' \in BOOLEAN /\ pending' \in Nat
<1>1. Mixed \in Content
    BY SMT, SMTT(40) DEF Content
<1> QED
    BY <1>1 DEF Inv, Typed, DataTyped, Write

\* The types that the steps rely on.
LEMMA Types ==
    ASSUME Inv, NEW t \in Threads
    PROVE  /\ db \in [Datatypes -> Content] /\ view \in [Datatypes -> Content]
           /\ written \in BOOLEAN /\ pending \in Nat
           /\ batch \in [on : BOOLEAN, cnt : Nat, lost : BOOLEAN]
           /\ th[t].ok \in BOOLEAN
           /\ Empty \in Content /\ Mixed \in Content /\ Imported \in Content
           /\ Configs \subseteq Content
           /\ Datatypes = {"CAND", "RUN", "START", "IMPORT"}
BY SMT, SMTT(40) DEF Inv, Typed, DataTyped, Thread, Content, Datatypes

LEMMA EditWriteInv ==
    ASSUME Inv, NEW t \in Threads, th[t].op # "idle", EditWrite(t)
    PROVE  Inv'
<1>1. At(t, "edit") /\ UNCHANGED <<batch, tc>>
    BY ZenonT(40) DEF EditWrite, flags
<1>2. "edit_close" \in Pcs(th[t].op) /\ th[t].want = {}
    BY <1>1, Stage, SMT, SMTT(40) DEF At, Inv, Pcs
<1>3. PICK dt \in Datatypes : dt = IF th[t].op = "EDIT" THEN "CAND" ELSE "IMPORT"
    BY SMT, SMTT(40) DEF Datatypes
<1>4. \/ (\E c \in Content : Write(dt, c, TRUE)) /\ Step(t, "edit_close", TRUE)
      \/ Write(dt, Mixed, FALSE) /\ Step(t, "edit_close", FALSE)
      \/ /\ written' = FALSE /\ UNCHANGED <<db, view, pending>>
         /\ Step(t, "edit_close", FALSE)
    BY <1>3, Types, Zenon DEF EditWrite
<1>5. DataTyped'
    BY <1>1, <1>4, WriteData, Types, ZenonT(40) DEF DataTyped
<1>6. PICK ok \in BOOLEAN : Step(t, "edit_close", ok)
    BY <1>4, Zenon
<1>7. /\ "edit_close" \in PcNames /\ "edit_close" \notin Entering \cup {"batch_end", "db_commit"}
      /\ th[t].pc \in AboutToWrite
    BY <1>1 DEF PcNames, Entering, AboutToWrite, At
<1> QED
    BY <1>1, <1>2, <1>5, <1>6, <1>7, StepInv, SMT, SMTT(40)

LEMMA EditCloseInv ==
    ASSUME Inv, NEW t \in Threads, th[t].op # "idle", EditClose(t)
    PROVE  Inv'
<1>1. PICK closes, success, rollback :
         /\ IF closes THEN Close(success)
            ELSE /\ pending' = IF th[t].ok THEN pending + 1 ELSE pending
                 /\ UNCHANGED <<db, view, written>>
         /\ batch' = [batch EXCEPT !.cnt =
                        IF ~batch.on \/ rollback THEN @ ELSE IF LimitReached THEN 0 ELSE @ + 1]
    BY Zenon DEF EditClose
<1>2. DataTyped'
    BY <1>1, CloseData, Types DEF DataTyped, data
<1>3. End(t, th[t].ok) /\ th[t].ok \in BOOLEAN
    BY Types DEF EditClose
<1> QED
    BY <1>2, <1>3, EndInv

LEMMA ReadInv ==
    ASSUME Inv, NEW t \in Threads, th[t].op # "idle", Read(t)
    PROVE  Inv'
<1>1. DataTyped'
    BY CloseData, Types, Zenon DEF Read, DataTyped, data, flags
<1> QED
    BY <1>1, EndInv, Zenon DEF Read

LEMMA IsCandidateDirtyInv ==
    ASSUME Inv, NEW t \in Threads, th[t].op # "idle", IsCandidateDirty(t)
    PROVE  Inv'
<1>1. PICK ok \in BOOLEAN : IsCandidateDirtyNoLock(ok) /\ End(t, ok)
    BY DEF IsCandidateDirty
<1>2. DataTyped'
    BY <1>1, CloseData, Types, Zenon DEF IsCandidateDirty, IsCandidateDirtyNoLock, DataTyped, data
<1> QED
    BY <1>1, <1>2, EndInv

LEMMA OnBatchEndInv ==
    ASSUME Inv, NEW t \in Threads, th[t].op # "idle", OnBatchEnd(t)
    PROVE  Inv'
<1>1. DataTyped'
    BY CloseData, Types, ZenonT(40) DEF OnBatchEnd, DataTyped
<1> QED
    BY <1>1, EndInv, Zenon DEF OnBatchEnd

\* Fail ends the request, or goes on to the end of a transaction or of an audit.
LEMMA FailInv ==
    ASSUME Inv, DataTyped', NEW t \in Threads, th[t].op # "idle", Fail(t)
    PROVE  Inv'
<1>1. CASE End(t, FALSE)
    BY <1>1, EndInv, Zenon
<1>2. CASE /\ \/ th[t].op = "TX_START" /\ Go(t, "TX_START", "tx_end", TxEndLocks)
              \/ th[t].op = "AUDIT_START" /\ Go(t, "AUDIT_START", "audit_end", {W("AUDIT")})
           /\ Release(t) /\ UNCHANGED tc
    <2>1. PICK op, pc, locks : /\ op = th[t].op /\ Go(t, op, pc, locks)
                               /\ \/ op = "TX_START" /\ pc = "tx_end" /\ locks = TxEndLocks
                                  \/ op = "AUDIT_START" /\ pc = "audit_end" /\ locks = {W("AUDIT")}
        BY <1>2, SMT, SMTT(40)
    <2>2. pc \in Pcs(op) /\ Request(op, pc, locks)
        BY <2>1 DEF Pcs, Request
    <2>3. KeepsMutex(t, op, pc, NoLock) /\ held' = [held EXCEPT ![t] = NoLock]
        BY <1>2 DEF KeepsMutex, NoLock, LockNames, Release
    <2>4. MayDo(t, op)
        <3>1. op \in OpsOf(t)
            BY <2>1 DEF Inv, RoleInv, Fits
        <3> QED
            BY <2>1, <3>1, SMT, SMTT(40) DEF MayDo, Inv, RoleInv
    <2> QED
        BY <1>2, <2>1, <2>2, <2>3, <2>4, RequestInv, ZenonT(40)
<1> QED
    BY <1>1, <1>2, Zenon DEF Fail

LEMMA DbCommitInv ==
    ASSUME Inv, NEW t \in Threads, th[t].op # "idle", DbCommitIfInBatchMode(t)
    PROVE  Inv'
<1>1. th[t].pc = "db_commit" /\ UNCHANGED batch
    BY DEF DbCommitIfInBatchMode, At, flags
<1>2. DataTyped'
    BY <1>1, CloseData, Types, ZenonT(40) DEF DbCommitIfInBatchMode, DataTyped, data
<1>3. CASE End(t, TRUE) \/ Fail(t)
    BY <1>2, <1>3, EndInv, FailInv, Zenon
<1>4. CASE /\ th[t].op # "BATCH_START"
           /\ Go(t, th[t].op, AfterDbCommit(th[t].op)[1], AfterDbCommit(th[t].op)[2])
           /\ held' = [held EXCEPT ![t] = [NoLock EXCEPT !["MUTEX"] = held[t]["MUTEX"]]]
           /\ UNCHANGED tc
    <2>1. PICK op, pc, locks : /\ op = th[t].op /\ pc = AfterDbCommit(op)[1]
                               /\ locks = AfterDbCommit(op)[2]
        BY SMT, SMTT(40)
    <2>2. op \in {"IMPORT", "MERGE", "CLEAR_IMPORT", "SAVE", "CLEAR_STARTUP", "ABORT", "TX_START"}
        BY <1>1, <1>4, <2>1, Stage, ZenonT(40) DEF Inv, SingleOps
    <2>3. pc \in Pcs(op) /\ Request(op, pc, locks) /\ (pc \in Entering => op \in {"IMPORT", "MERGE"})
          /\ pc # "db_commit"
        BY <2>1, <2>2, ZenonT(40) DEF AfterDbCommit, Pcs, Request, Entering
    <2>4. PICK h : h = [NoLock EXCEPT !["MUTEX"] = held[t]["MUTEX"]]
        BY Zenon
    <2>5. op # "CLEAR_IMPORT" => held[t]["MUTEX"] = "-"
        BY <1>1, <2>1 DEF Inv, LockInv, LocksFit
    <2>6. held[t] \in [LockNames -> {"-", "R", "W"}]
        BY DEF Inv, Typed
    <2>7. KeepsMutex(t, op, pc, h)
        BY <2>3, <2>4, <2>5, <2>6 DEF KeepsMutex, NoLock, LockNames
    <2>8. MayDo(t, op)
        <3>1. op \in OpsOf(t)
            BY <2>1 DEF Inv, RoleInv, Fits
        <3> QED
            BY <2>1, <3>1 DEF MayDo, Inv, RoleInv
    <2> QED
        BY <1>2, <1>4, <2>1, <2>3, <2>4, <2>7, <2>8, RequestInv, Zenon
<1> QED
    BY <1>3, <1>4, Zenon DEF DbCommitIfInBatchMode

LEMMA ImportEnterInv ==
    ASSUME Inv, NEW t \in Threads, th[t].op # "idle", ImportEnter(t)
    PROVE  Inv'
<1>1. DataTyped' /\ tc' = tc
    BY SameData DEF ImportEnter, flags
<1>2. PICK op, pc, locks : /\ Begin(t, op, pc, locks)
                           /\ \/ /\ th[t].pc = "import_enter" /\ op = "IMPORT"
                                 /\ pc = "validate" /\ locks = ImportLocks
                              \/ /\ th[t].pc = "merge_enter" /\ op = "MERGE" /\ pc = "validate"
                                 /\ \E mode \in {"R", "W"} : locks = MergeLocks(mode)
                              \/ /\ th[t].pc = "clear_enter" /\ op = "CLEAR_IMPORT"
                                 /\ pc = "db_commit" /\ locks = AllWrite
    BY DEF ImportEnter, At
<1>3. pc \in Pcs(op) /\ Request(op, pc, locks) /\ pc \notin Entering
    BY <1>2, SMT, SMTT(40) DEF Pcs, Request, Entering
<1>4. op = th[t].op
    BY <1>2, Stage, SMT, SMTT(40) DEF Inv
<1>5. \A l \in LockNames \ {"MUTEX"} : held[t][l] = "-"
    BY <1>2, Zenon DEF Inv, LockInv, LocksFit, Entering
<1>6. held[t] \in [LockNames -> {"-", "R", "W"}] /\ held' = [held EXCEPT ![t] = held[t]]
    BY <1>2 DEF Inv, Typed, Begin
<1>7. KeepsMutex(t, op, pc, held[t])
    BY <1>2, <1>3, <1>5, <1>6, SMT, SMTT(40) DEF KeepsMutex
<1>8. MayDo(t, op)
    <2>1. op \in OpsOf(t)
        BY <1>4 DEF Inv, RoleInv, Fits
    <2> QED
        BY <1>4, <2>1, ZenonT(40) DEF MayDo, Inv, RoleInv
<1>9. Go(t, op, pc, locks)
    BY <1>2 DEF Begin
<1> QED
    BY <1>1, <1>3, <1>6, <1>7, <1>8, <1>9, RequestInv, ZenonT(40)

LEMMA ImportRefusedInv ==
    ASSUME Inv, NEW t \in Threads, th[t].op # "idle", ImportRefused(t)
    PROVE  Inv'
<1>1. DataTyped' /\ End(t, FALSE)
    BY SameData, Zenon DEF ImportRefused, flags
<1> QED
    BY <1>1, EndInv, Zenon

LEMMA ValidateImportInv ==
    ASSUME Inv, NEW t \in Threads, th[t].op # "idle", ValidateImport(t)
    PROVE  Inv'
<1>1. th[t].pc = "validate" /\ th[t].want = {} /\ UNCHANGED batch
    BY DEF ValidateImport, At
<1>2. DataTyped'
    BY <1>1, CloseData, Types, Zenon DEF ValidateImport, IsCandidateDirtyNoLock, DataTyped, data
<1>3. CASE Step(t, "import_write", TRUE) /\ UNCHANGED tc
    <2>1. /\ "import_write" \in Pcs(th[t].op)
          /\ "import_write" \in PcNames
          /\ "import_write" \notin Entering \cup {"batch_end", "db_commit"}
          /\ th[t].pc \in AboutToWrite
        BY <1>1, Stage DEF Pcs, PcNames, Entering, AboutToWrite, Inv
    <2> QED
        BY <1>1, <1>2, <1>3, <2>1, StepInv, ZenonT(40)
<1>4. CASE End(t, FALSE)
    BY <1>2, <1>4, EndInv, ZenonT(40)
<1> QED
    BY <1>3, <1>4, Zenon DEF ValidateImport

LEMMA ImportWriteInv ==
    ASSUME Inv, NEW t \in Threads, th[t].op # "idle", ImportWrite(t)
    PROVE  Inv'
<1>1. th[t].pc = "import_write" /\ th[t].want = {} /\ UNCHANGED <<batch, tc>>
    BY DEF ImportWrite, At, flags
<1>2. PICK ok \in BOOLEAN, dt \in Datatypes, c \in Content :
         Write(dt, c, ok) /\ Step(t, "import_close", ok)
    BY Types, ZenonT(40) DEF ImportWrite
<1>3. DataTyped'
    BY <1>1, <1>2, WriteData, Types, SMT, SMTT(40) DEF DataTyped
<1>4. /\ "import_close" \in Pcs(th[t].op)
      /\ "import_close" \in PcNames
      /\ "import_close" \notin Entering \cup {"batch_end", "db_commit"}
      /\ th[t].pc \in AboutToWrite
    BY <1>1, Stage DEF Pcs, PcNames, Entering, AboutToWrite, Inv
<1> QED
    BY <1>1, <1>2, <1>3, <1>4, StepInv, SMT, SMTT(40)

LEMMA ImportCloseInv ==
    ASSUME Inv, NEW t \in Threads, th[t].op # "idle", ImportClose(t)
    PROVE  Inv'
<1>1. DataTyped' /\ End(t, th[t].ok) /\ th[t].ok \in BOOLEAN
    BY CloseData, Types, SMT, SMTT(40) DEF ImportClose, DataTyped
<1> QED
    BY <1>1, EndInv

LEMMA ClearImportInv ==
    ASSUME Inv, NEW t \in Threads, th[t].op # "idle", ClearImport(t)
    PROVE  Inv'
<1>1. UNCHANGED batch
    BY SMT, SMTT(40) DEF ClearImport
<1>2. CASE /\ th[t].pc = "clear_import" /\ th[t].want = {} /\ UNCHANGED tc
           /\ \E ok \in BOOLEAN : Write("IMPORT", Empty, ok) /\ Step(t, "clear_close", ok)
    <2>1. PICK ok \in BOOLEAN : Write("IMPORT", Empty, ok) /\ Step(t, "clear_close", ok)
        BY <1>2
    <2>2. DataTyped'
        BY <1>1, <2>1, WriteData, Types, SMT, SMTT(40) DEF DataTyped
    <2>3. /\ "clear_close" \in Pcs(th[t].op)
          /\ "clear_close" \in PcNames
          /\ "clear_close" \notin Entering \cup {"batch_end", "db_commit"}
          /\ th[t].pc \in AboutToWrite
        BY <1>2, Stage DEF Pcs, PcNames, Entering, AboutToWrite, Inv
    <2> QED
        BY <1>2, <2>1, <2>2, <2>3, StepInv, SMT, SMTT(40)
<1>3. CASE Close(th[t].ok) /\ End(t, th[t].ok)
    <2>1. DataTyped' /\ th[t].ok \in BOOLEAN
        BY <1>1, <1>3, CloseData, Types, SMT, SMTT(40) DEF DataTyped
    <2> QED
        BY <1>3, <2>1, EndInv, SMT, SMTT(40)
<1> QED
    BY <1>2, <1>3, SMT, SMTT(40) DEF ClearImport, At

LEMMA TxUpdateControllerInv ==
    ASSUME Inv, NEW t \in Threads, th[t].op # "idle", TxUpdateController(t)
    PROVE  Inv'
<1>1. DataTyped'
    BY CloseData, Types, ZenonT(40) DEF TxUpdateController, DataTyped, flags
<1> QED
    BY <1>1, EndInv, FailInv, Zenon DEF TxUpdateController

LEMMA OnTxVoteInv ==
    ASSUME Inv, NEW t \in Threads, th[t].op # "idle", OnTxVote(t)
    PROVE  Inv'
<1>1. DataTyped'
    BY CloseData, Types, SMT, SMTT(40) DEF OnTxVote, DataTyped
<1> QED
    BY <1>1, EndInv, SMT, SMTT(40) DEF OnTxVote

LEMMA TxCopyCandidateToRunningInv ==
    ASSUME Inv, NEW t \in Threads, th[t].op # "idle", TxCopyCandidateToRunning(t)
    PROVE  Inv'
<1>1. th[t].pc = "copy_run" /\ th[t].want = {} /\ UNCHANGED <<batch, tc>>
    BY SMT, SMTT(40) DEF TxCopyCandidateToRunning, At, flags
<1>2. PICK ok \in BOOLEAN : Write("RUN", view["CAND"], ok) /\ Step(t, "tx_result", ok)
    BY DEF TxCopyCandidateToRunning
<1>3. DataTyped'
    <2>1. view["CAND"] \in Content /\ "RUN" \in Datatypes
        BY Types, SMT, SMTT(40)
    <2> QED
        BY <1>1, <1>2, <2>1, WriteData, Types, SMT, SMTT(40) DEF DataTyped
<1>4. /\ "tx_result" \in Pcs(th[t].op)
      /\ "tx_result" \in PcNames
      /\ "tx_result" \notin Entering \cup {"batch_end", "db_commit"}
      /\ th[t].pc \in AboutToWrite
    BY <1>1, Stage DEF Pcs, PcNames, Entering, AboutToWrite, Inv
<1> QED
    BY <1>1, <1>2, <1>3, <1>4, StepInv, SMT, SMTT(40)

LEMMA OnTxCommitCtrlrStatusInv ==
    ASSUME Inv, NEW t \in Threads, th[t].op # "idle", OnTxCommitCtrlrStatus(t)
    PROVE  Inv'
<1>1. DataTyped' /\ End(t, th[t].ok) /\ th[t].ok \in BOOLEAN
    BY CloseData, Types DEF OnTxCommitCtrlrStatus, DataTyped
<1> QED
    BY <1>1, EndInv

LEMMA OnTxEndInv ==
    ASSUME Inv, NEW t \in Threads, th[t].op # "idle", OnTxEnd(t)
    PROVE  Inv'
<1>1. DataTyped' /\ End(t, FALSE)
    BY CloseData, Types, Zenon DEF OnTxEnd, DataTyped
<1> QED
    BY <1>1, EndInv, Zenon

LEMMA ClearStartupInv ==
    ASSUME Inv, NEW t \in Threads, th[t].op # "idle", ClearStartup(t)
    PROVE  Inv'
<1>1. UNCHANGED batch /\ th[t].pc = "clear_startup" /\ th[t].want = {}
    BY DEF ClearStartup, At, flags
<1>2. CASE /\ Write("START", Empty, TRUE) /\ UNCHANGED tc
           /\ Step(t, IF th[t].op = "SAVE" THEN "copy_startup" ELSE "startup_close", TRUE)
    <2>1. DataTyped'
        BY <1>1, <1>2, WriteData, Types, ZenonT(40) DEF DataTyped
    <2>2. PICK pc : pc = IF th[t].op = "SAVE" THEN "copy_startup" ELSE "startup_close"
        BY SMT, SMTT(40)
    <2>3. /\ pc \in Pcs(th[t].op)
          /\ pc \in PcNames
          /\ pc \notin Entering \cup {"batch_end", "db_commit"}
          /\ th[t].pc \in AboutToWrite
        BY <1>1, <2>2, Stage DEF Pcs, PcNames, Entering, AboutToWrite, Inv
    <2> QED
        BY <1>1, <1>2, <2>1, <2>2, <2>3, StepInv, Zenon
<1>3. CASE Close(FALSE) /\ End(t, FALSE)
    <2>1. DataTyped'
        BY <1>1, <1>3, CloseData, Types, ZenonT(40) DEF DataTyped
    <2> QED
        BY <1>3, <2>1, EndInv, Zenon
<1> QED
    BY <1>2, <1>3, Zenon DEF ClearStartup

LEMMA CopyRunningToStartupInv ==
    ASSUME Inv, NEW t \in Threads, th[t].op # "idle", CopyRunningToStartup(t)
    PROVE  Inv'
<1>1. th[t].pc = "copy_startup" /\ th[t].want = {} /\ UNCHANGED <<batch, tc>>
    BY SMT, SMTT(40) DEF CopyRunningToStartup, At, flags
<1>2. PICK ok \in BOOLEAN : /\ Write("START", view["RUN"], ok /\ view["START"] = Empty)
                            /\ Step(t, "startup_close", ok)
    BY SMT, SMTT(40) DEF CopyRunningToStartup
<1>3. DataTyped'
    <2>1. /\ view["RUN"] \in Content /\ "START" \in Datatypes
          /\ (ok /\ view["START"] = Empty) \in BOOLEAN
        BY Types, SMT, SMTT(40)
    <2> QED
        BY <1>1, <1>2, <2>1, WriteData, Types, Zenon DEF DataTyped
<1>4. /\ "startup_close" \in Pcs(th[t].op)
      /\ "startup_close" \in PcNames
      /\ "startup_close" \notin Entering \cup {"batch_end", "db_commit"}
      /\ th[t].pc \in Writing
    BY <1>1, Stage DEF Pcs, PcNames, Entering, Writing, Inv
<1> QED
    BY <1>1, <1>2, <1>3, <1>4, StepInv

LEMMA StartupCloseInv ==
    ASSUME Inv, NEW t \in Threads, th[t].op # "idle", StartupClose(t)
    PROVE  Inv'
<1>1. DataTyped' /\ End(t, th[t].ok) /\ th[t].ok \in BOOLEAN
    BY CloseData, Types, SMT, SMTT(40) DEF StartupClose, DataTyped, flags
<1> QED
    BY <1>1, EndInv

LEMMA CopyRunningToCandidateInv ==
    ASSUME Inv, NEW t \in Threads, th[t].op # "idle", CopyRunningToCandidate(t)
    PROVE  Inv'
<1>1. UNCHANGED batch /\ th[t].pc = "copy_cand" /\ th[t].want = {}
    BY DEF CopyRunningToCandidate, At, flags
<1>2. CASE Write("CAND", Mixed, FALSE) /\ Step(t, "copy_cand_rest", TRUE) /\ UNCHANGED tc
    <2>1. DataTyped'
        BY <1>1, <1>2, WriteData, Types, ZenonT(40) DEF DataTyped
    <2>2. /\ "copy_cand_rest" \in Pcs(th[t].op)
          /\ "copy_cand_rest" \in PcNames
          /\ "copy_cand_rest" \notin Entering \cup {"batch_end", "db_commit"}
          /\ th[t].pc \in AboutToWrite
        BY <1>1, Stage DEF Pcs, PcNames, Entering, AboutToWrite, Inv
    <2> QED
        BY <1>1, <1>2, <2>1, <2>2, StepInv, Zenon
<1>3. CASE Close(FALSE) /\ End(t, FALSE)
    <2>1. DataTyped'
        BY <1>1, <1>3, CloseData, Types, Zenon DEF DataTyped
    <2> QED
        BY <1>3, <2>1, EndInv, Zenon
<1> QED
    BY <1>2, <1>3, Zenon DEF CopyRunningToCandidate

LEMMA OnAbortCandidateConfigInv ==
    ASSUME Inv, NEW t \in Threads, th[t].op # "idle", OnAbortCandidateConfig(t)
    PROVE  Inv'
<1>1. UNCHANGED batch
    BY DEF OnAbortCandidateConfig
<1>2. CASE /\ view' = [view EXCEPT !["CAND"] = IF @ = Mixed THEN view["RUN"] ELSE Mixed]
           /\ db' = view' /\ written' = FALSE /\ pending' = 0
           /\ End(t, TRUE)
    <2>1. DataTyped'
        BY <1>1, <1>2, Types DEF DataTyped
    <2> QED
        BY <1>2, <2>1, EndInv, Zenon
<1>3. CASE Close(FALSE) /\ End(t, FALSE)
    <2>1. DataTyped'
        BY <1>1, <1>3, CloseData, Types, Zenon DEF DataTyped
    <2> QED
        BY <1>3, <2>1, EndInv, Zenon
<1> QED
    BY <1>2, <1>3, Zenon DEF OnAbortCandidateConfig

LEMMA AuditDbInv ==
    ASSUME Inv, NEW t \in Threads, th[t].op # "idle", AuditDb(t)
    PROVE  Inv'
<1>1. DataTyped'
    BY SameData DEF AuditDb
<1> QED
    BY <1>1, EndInv, FailInv, Zenon DEF AuditDb

LEMMA OnAuditEndInv ==
    ASSUME Inv, NEW t \in Threads, th[t].op # "idle", OnAuditEnd(t)
    PROVE  Inv'
<1>1. DataTyped' /\ End(t, FALSE)
    BY SameData, Zenon DEF OnAuditEnd
<1> QED
    BY <1>1, EndInv, Zenon

LEMMA InvInit ==
    ASSUME Init
    PROVE  Inv
<1>1. Idle \in Thread /\ Idle.op = "idle" /\ Idle.pc = "idle" /\ Idle.want = {}
    BY SMT, SMTT(40) DEF Idle, Thread, OpNames, PcNames
<1>2. \A t \in Threads : th[t] = Idle /\ held[t] = NoLock
    BY DEF Init
<1>3. NoLock \in [LockNames -> {"-", "R", "W"}] /\ \A l \in LockNames : NoLock[l] = "-"
    BY SMT, SMTT(40) DEF NoLock
<1>4. DataTyped
    <2>1. db \in [Datatypes -> Content] /\ view \in [Datatypes -> Content]
        BY SMT, SMTT(40) DEF Init, Content
    <2>2. /\ written = FALSE /\ pending = 0
          /\ batch = [on |-> FALSE, cnt |-> 0, lost |-> FALSE]
        BY DEF Init
    <2> QED
        BY <2>1, <2>2 DEF DataTyped
<1>5. Typed
    BY <1>1, <1>3, <1>4, SMT, SMTT(40) DEF Init, Typed
<1>6. \A t \in Threads : Fits(t, th[t])
    BY <1>1, <1>2 DEF Fits, Pcs
<1>7. {"user", "tc"} \subseteq Threads
    BY SMT, SMTT(40) DEF Threads
<1>8. TcState
    BY <1>1, <1>2, <1>7, SMT, SMTT(40) DEF Init, TcState, Content, SingleOps
<1>9. LocksFit(Idle, NoLock)
    BY <1>1, <1>3, SMT, SMTT(40) DEF LocksFit, Writing, AboutToWrite, Entering, OnCandidate
<1>10. LockInv
    BY <1>2, <1>3, <1>9 DEF LockInv
<1> QED
    BY <1>1, <1>2, <1>5, <1>6, <1>7, <1>8, <1>10, SMT, SMTT(40) DEF Inv, RoleInv

LEMMA InvNext ==
    ASSUME Inv, [Next]_vars
    PROVE  Inv'
<1>1. CASE Start
    BY <1>1, EditStartInv, ReadStartInv, OnBatchStartInv, OnBatchAliveInv, BatchEndStartInv,
       BatchTimeOutInv, ImportStartInv, TcStartInv, OnTxStartInv, OnTxVoteStartInv,
       GlobalCommitInv, OnTxResultStartInv, OnTxEndStartInv, OnAuditStartInv, AuditCallInv,
       DirtyStartInv, ZenonT(40) DEF Start
<1>2. CASE \E t \in Busy : IF th[t].want # {} THEN Lock(t) ELSE Body(t)
    <2>1. PICK t \in Threads : th[t].op # "idle" /\ (Lock(t) \/ Body(t))
        BY <1>2 DEF Busy
    <2>2. CASE Lock(t)
        BY <2>2, LockStepInv
    <2>3. CASE Body(t)
        BY <2>1, <2>3, EditWriteInv, EditCloseInv, ReadInv, IsCandidateDirtyInv, OnBatchEndInv,
           DbCommitInv, ImportEnterInv, ImportRefusedInv, ValidateImportInv, ImportWriteInv,
           ImportCloseInv, ClearImportInv, TxUpdateControllerInv, OnTxVoteInv,
           TxCopyCandidateToRunningInv, OnTxCommitCtrlrStatusInv, OnTxEndInv, ClearStartupInv,
           CopyRunningToStartupInv, StartupCloseInv, CopyRunningToCandidateInv,
           OnAbortCandidateConfigInv, AuditDbInv, OnAuditEndInv, ZenonT(40) DEF Body
    <2> QED
        BY <2>1, <2>2, <2>3
<1>3. CASE UNCHANGED vars
    <2>1. UNCHANGED <<th, held, tc, data, batch>>
        BY <1>3, SMT, SMTT(40) DEF vars, data, flags
    <2>2. DataTyped' /\ TcState'
        BY <2>1, SameData, TcSame DEF Inv, RoleInv
    <2> QED
        BY <2>1, <2>2, SameThreads
<1> QED
    BY <1>1, <1>2, <1>3 DEF Next

\* Every thread is at a step of a request that it may make, TC calls the handlers of
\* its transactions one by one, no lock that one thread writes under is held by
\* another, and each step has the locks under which the code makes it.
THEOREM InvHolds == Spec => []Inv
BY InvInit, InvNext, PTL DEF Spec

----------------------------------------------------------------------------
(* No circular wait *)

\* A thread of S waits for one of S, for a lock of at least the rank n.
WaitsAbove(S, n) ==
    \E t, u \in S, l \in LockSet :
       /\ l \in First(th[t].want) /\ held[u][l.on] # "-"
       /\ l.on \in LockNames /\ Rank[l.on] \in 0..5 /\ Rank[l.on] >= n

\* The owner of the lock waits for a lock of a higher rank.
LEMMA WaitsHigher ==
    ASSUME Inv, NEW S \in SUBSET Waiting, NEW n \in Nat, WaitsAbove(S, n),
           \A t \in S : \E u \in S : WaitsFor(t, u)
    PROVE  WaitsAbove(S, n + 1)
<1>1. PICK t \in S, u \in S, l \in LockSet :
         /\ l \in First(th[t].want) /\ held[u][l.on] # "-"
         /\ l.on \in LockNames /\ Rank[l.on] \in 0..5 /\ Rank[l.on] >= n
    BY DEF WaitsAbove
<1>2. PICK v \in S : WaitsFor(u, v)
    BY SMT, SMTT(40)
<1>3. PICK m \in First(th[u].want) :
         IF m.mode = "R" THEN held[v][m.on] = "W" ELSE held[v][m.on] # "-"
    BY <1>2, SMT, SMTT(40) DEF WaitsFor
<1>4. u \in Threads /\ th[u] \in Thread /\ LocksFit(th[u], held[u])
    BY DEF Waiting, Inv, Typed, LockInv
<1>5. m \in th[u].want /\ m \in LockSet /\ m.on \in LockNames /\ Rank[m.on] \in 0..5
    BY <1>3, <1>4, SMT, SMTT(40) DEF First, Thread, LockSet, Rank, LockNames, Datatypes
<1>6. Rank[l.on] < Rank[m.on]
    BY <1>1, <1>4, <1>5, ZenonT(40) DEF LocksFit
<1>7. Rank[m.on] >= n + 1 /\ held[v][m.on] # "-"
    <2>1. PICK i, j \in 0..5 : i = Rank[l.on] /\ j = Rank[m.on]
        BY <1>1, <1>5, Zenon
    <2>2. i >= n /\ i < j
        BY <1>1, <1>6, <2>1, Zenon
    <2>3. j >= n + 1
        BY <2>2
    <2>4. held[v][m.on] # "-"
        BY <1>3
    <2> QED
        BY <2>1, <2>3, <2>4, Zenon
<1> QED
    BY <1>3, <1>5, <1>7, SMT, SMTT(40) DEF WaitsAbove

LEMMA InvNoCircularWait ==
    ASSUME Inv
    PROVE  NoCircularWait
<1> SUFFICES ASSUME NEW S \in (SUBSET Waiting) \ {{}},
                    \A t \in S : \E u \in S : WaitsFor(t, u)
             PROVE  FALSE
    BY SMT, SMTT(40) DEF NoCircularWait
<1>1. WaitsAbove(S, 0)
    <2>1. PICK t \in S, u \in S : WaitsFor(t, u)
        OBVIOUS
    <2>2. PICK l \in First(th[t].want) :
             IF l.mode = "R" THEN held[u][l.on] = "W" ELSE held[u][l.on] # "-"
        BY <2>1, SMT, SMTT(40) DEF WaitsFor
    <2>3. t \in Threads /\ th[t] \in Thread
        BY DEF Waiting, Inv, Typed
    <2>4. l \in LockSet /\ l.on \in LockNames /\ Rank[l.on] \in 0..5
        BY <2>2, <2>3 DEF First, Thread, LockSet, Rank, LockNames, Datatypes
    <2> QED
        BY <2>2, <2>4 DEF WaitsAbove
<1>2. WaitsAbove(S, 1)
    BY <1>1, WaitsHigher
<1>3. WaitsAbove(S, 2)
    BY <1>2, WaitsHigher
<1>4. WaitsAbove(S, 3)
    BY <1>3, WaitsHigher
<1>5. WaitsAbove(S, 4)
    BY <1>4, WaitsHigher
<1>6. WaitsAbove(S, 5)
    BY <1>5, WaitsHigher
<1>7. WaitsAbove(S, 6)
    BY <1>6, WaitsHigher
<1> QED
    BY <1>7 DEF WaitsAbove

\* No threads wait for the locks of each other in a circle, however many clients ask
\* for the state of the candidate at the same time: what a thread holds always comes
\* before what it waits for, in the order of ConfigLock and import_mutex_lock_.
THEOREM NoCircularWaitHolds == Spec => []NoCircularWait
BY InvHolds, InvNoCircularWait, PTL

----------------------------------------------------------------------------
(* What a step leaves alone *)

\* Only the thread t moves.
Moves(t) == \A u \in Threads \ {t} : th'[u] = th[u] /\ held'[u] = held[u]

LEMMA Movers ==
    ASSUME Inv, NEW t \in Threads
    PROVE  /\ \A op, pc, locks : Begin(t, op, pc, locks) => Moves(t)
           /\ \A pc, ok : Step(t, pc, ok) => Moves(t)
           /\ \A ok : End(t, ok) => Moves(t)
           /\ Fail(t) => Moves(t)
           /\ Lock(t) => Moves(t)
           /\ DbCommitIfInBatchMode(t) => Moves(t)
<1> USE DEF Moves, Inv, Typed
<1>1. ASSUME NEW op, NEW pc, NEW locks, Begin(t, op, pc, locks) PROVE Moves(t)
    BY <1>1 DEF Begin, Go
<1>2. ASSUME NEW pc, NEW ok, Step(t, pc, ok) PROVE Moves(t)
    BY <1>2 DEF Step
<1>3. ASSUME NEW ok, End(t, ok) PROVE Moves(t)
    BY <1>3, SMT, SMTT(40) DEF End, Release
<1>4. Fail(t) => Moves(t)
    BY <1>3, Zenon DEF Fail, Go, Release
<1>5. Lock(t) => Moves(t)
    BY DEF Lock
<1>6. DbCommitIfInBatchMode(t) => Moves(t)
    BY <1>3, <1>4, ZenonT(40) DEF DbCommitIfInBatchMode, Go
<1> QED
    BY <1>1, <1>2, <1>3, <1>4, <1>5, <1>6, ZenonT(40)

LEMMA BodyMoves ==
    ASSUME Inv, NEW t \in Threads, Body(t)
    PROVE  Moves(t)
BY Movers, Zenon
   DEF Body, EditWrite, EditClose, Read, IsCandidateDirty, OnBatchEnd, ImportEnter,
       ImportRefused, ValidateImport, ImportWrite, ImportClose, ClearImport,
       TxUpdateController, OnTxVote, TxCopyCandidateToRunning, OnTxCommitCtrlrStatus, OnTxEnd,
       ClearStartup, CopyRunningToStartup, StartupClose, CopyRunningToCandidate,
       OnAbortCandidateConfig, AuditDb, OnAuditEnd

----------------------------------------------------------------------------
(* A batch has a timer *)

\* The only step that a batch timer runs is the one of OnBatchEnd.
LEMMA TimerRuns ==
    ASSUME Inv, Body("timer")
    PROVE  OnBatchEnd("timer")
<1>1. "timer" \in Threads
    BY DEF Threads
<1>2. PICK pc : pc = th["timer"].pc
    BY SMT, SMTT(40)
<1>3. pc \in {"idle", "batch_end"}
    BY <1>1, <1>2, SMT, SMTT(40) DEF Inv, RoleInv, Fits, OpsOf, Pcs
<1> QED
    BY <1>2, <1>3, ZenonT(40)
       DEF Body, At, EditWrite, EditClose, Read, IsCandidateDirty, OnBatchEnd,
           DbCommitIfInBatchMode, ImportEnter, ImportRefused, ValidateImport, ImportWrite,
           ImportClose, ClearImport, TxUpdateController, OnTxVote, TxCopyCandidateToRunning,
           OnTxCommitCtrlrStatus, OnTxEnd, ClearStartup, CopyRunningToStartup, StartupClose,
           CopyRunningToCandidate, OnAbortCandidateConfig, AuditDb, OnAuditEnd

LEMMA BodyTimer ==
    ASSUME Inv, NEW t \in Threads, Body(t), ~OnBatchEnd(t)
    PROVE  timer' = timer /\ batch'.on = batch.on /\ batch'.lost = batch.lost
<1>1. CASE EditClose(t)
    <2>1. timer' = timer
        BY <1>1 DEF EditClose
    <2>2. PICK n : batch' = [batch EXCEPT !.cnt = n]
        BY <1>1, Zenon DEF EditClose
    <2> QED
        BY <2>1, <2>2, Types
<1>2. CASE ~EditClose(t)
    BY <1>2, ZenonT(40)
       DEF Body, flags, EditWrite, Read, IsCandidateDirty,
           DbCommitIfInBatchMode, ImportEnter, ImportRefused, ValidateImport, ImportWrite,
           ImportClose, ClearImport, TxUpdateController, OnTxVote, TxCopyCandidateToRunning,
           OnTxCommitCtrlrStatus, OnTxEnd, ClearStartup, CopyRunningToStartup, StartupClose,
           CopyRunningToCandidate, OnAbortCandidateConfig, AuditDb, OnAuditEnd
<1> QED
    BY <1>1, <1>2

LEMMA TimerNext ==
    ASSUME Inv, TimerInv, [Next]_vars
    PROVE  TimerInv'
<1> USE DEF TimerInv, BatchHasTimer
<1>1. "timer" \in Threads /\ th \in [Threads -> Thread]
    BY DEF Threads, Inv, Typed
<1>2. batch \in [on : BOOLEAN, cnt : Nat, lost : BOOLEAN]
    BY <1>1, Types
<1>3. ASSUME timer' = timer, batch'.on = batch.on, batch'.lost = batch.lost,
             th'["timer"].op = "idle" => th["timer"].op = "idle"
      PROVE  TimerInv'
    BY <1>3
<1>4. ASSUME NEW t \in Threads, Lock(t)
      PROVE  TimerInv'
    <2>1. th'["timer"].op = th["timer"].op
        BY <1>1, <1>4 DEF Lock, Thread
    <2> QED
        BY <1>3, <1>4, <2>1 DEF Lock, flags
<1>5. ASSUME NEW t \in Threads, OnBatchEnd(t)
      PROVE  TimerInv'
    <2>1. batch'.on = FALSE
        BY <1>2, <1>5 DEF OnBatchEnd
    <2>2. timer' \in {timer, [timer EXCEPT !.mine = FALSE], Cancelled(timer)}
        BY <1>5 DEF OnBatchEnd
    <2>3. CASE timer' = Cancelled(timer)
        <3>1. PICK n : n = IF timer.mine THEN timer.armed - 1 ELSE timer.armed
            OBVIOUS
        <3>2. n \in Nat
            BY <3>1, SMT, SMTT(40)
        <3>3. timer' = [armed |-> n, mine |-> FALSE]
            BY <2>3, <3>1 DEF Cancelled
        <3> QED
            BY <2>1, <3>2, <3>3
    <2>4. CASE timer' = [timer EXCEPT !.mine = FALSE]
        BY <2>1, <2>4, ZenonT(40)
    <2> QED
        BY <2>1, <2>2, <2>3, <2>4
<1>6. ASSUME NEW t \in Threads, Body(t), ~OnBatchEnd(t)
      PROVE  TimerInv'
    <2>1. t # "timer"
        BY <1>6, TimerRuns
    <2>2. th'["timer"] = th["timer"]
        BY <1>1, <1>6, <2>1, BodyMoves, SMT, SMTT(40) DEF Moves
    <2> QED
        BY <1>3, <1>6, <2>2, BodyTimer
<1>7. CASE OnBatchStart
    <2>1. CASE /\ batch' = [on |-> TRUE, cnt |-> 0, lost |-> FALSE]
               /\ timer' = Armed(timer)
        BY <2>1, SMT, SMTT(40) DEF Armed
    <2>2. CASE Begin("user", "BATCH_START", "db_commit", AllWrite) /\ UNCHANGED <<batch, timer>>
        <3>1. th'["timer"] = th["timer"]
            BY <1>1, <2>2 DEF Begin, Go
        <3> QED
            BY <1>3, <2>2, <3>1
    <2> QED
        BY <1>7, <2>1, <2>2, SMT, SMTT(40) DEF OnBatchStart
<1>8. CASE OnBatchAlive
    <2>1. th' = th
        BY <1>8 DEF OnBatchAlive
    <2>2. CASE timer' = Armed(Cancelled(timer)) /\ batch' = [batch EXCEPT !.lost = FALSE]
        <3>1. timer'.armed \in Nat \ {0} /\ timer'.mine = TRUE /\ timer' \in [armed : Nat, mine : BOOLEAN]
            BY <2>2 DEF Armed, Cancelled
        <3> QED
            BY <3>1
    <2>3. CASE timer' = Cancelled(timer) /\ batch' = [batch EXCEPT !.lost = TRUE]
        <3>1. timer' \in [armed : Nat, mine : BOOLEAN] /\ timer'.mine = FALSE /\ batch'.lost = TRUE
            BY <1>2, <2>3 DEF Cancelled
        <3> QED
            BY <3>1
    <2> QED
        BY <1>8, <2>2, <2>3 DEF OnBatchAlive
<1>9. CASE BatchTimeOut
    <2>1. th'["timer"].op = "BATCH_END"
        BY <1>1, <1>9 DEF BatchTimeOut, Begin, Go
    <2>2. timer.armed > 0 /\ timer.armed - 1 \in Nat
        BY <1>9, SMT, SMTT(40) DEF BatchTimeOut
    <2>3. CASE timer' = [armed |-> timer.armed - 1, mine |-> FALSE]
        BY <2>1, <2>2, <2>3
    <2>4. CASE /\ timer.armed > IF timer.mine THEN 1 ELSE 0
               /\ timer' = [timer EXCEPT !.armed = @ - 1]
        <3>1. timer' \in [armed : Nat, mine : BOOLEAN] /\ timer'.mine = timer.mine
              /\ timer'.armed = timer.armed - 1
            BY <2>2, <2>4
        <3>2. timer'.mine => timer'.armed > 0
            BY <2>4, <3>1, SMT, SMTT(40)
        <3> QED
            BY <2>1, <3>1, <3>2
    <2> QED
        BY <1>9, <2>3, <2>4 DEF BatchTimeOut
<1>10. ASSUME NEW t \in Threads \ {"timer"}, NEW op, NEW pc, NEW locks,
              Begin(t, op, pc, locks) \/ UNCHANGED <<th, held>>, UNCHANGED <<timer, batch>>
       PROVE  TimerInv'
    <2>1. th'["timer"] = th["timer"]
        BY <1>1, <1>10 DEF Begin, Go
    <2> QED
        BY <1>3, <1>10, <2>1, SMT, SMTT(40)
<1>11. {"user", "tc"} \subseteq Threads \ {"timer"}
    BY DEF Threads
<1>12. CASE Start
    <2>1. ASSUME NEW t \in Threads, ReadStart(t) \/ DirtyStart(t)
          PROVE  TimerInv'
        <3>1. t # "timer" /\ UNCHANGED <<timer, batch>> /\ \E op, pc, locks : Begin(t, op, pc, locks)
            BY <2>1, ConfigAssumption DEF ReadStart, DirtyStart, flags
        <3> QED
            BY <1>10, <3>1, SMT, SMTT(40)
    <2>2. CASE EditStart \/ BatchEndStart \/ ImportStart
        BY <1>10, <1>11, <2>2, Zenon DEF EditStart, BatchEndStart, ImportStart, flags
    <2>3. CASE TcStart \/ OnTxStart \/ OnTxVoteStart \/ GlobalCommit \/ OnTxResultStart
               \/ OnTxEndStart \/ OnAuditStart \/ AuditCall
        BY <1>10, <1>11, <2>3, ZenonT(40)
           DEF TcStart, OnTxStart, OnTxVoteStart, GlobalCommit, OnTxResultStart, OnTxEndStart,
               OnAuditStart, AuditCall, flags
    <2> QED
        BY <1>7, <1>8, <1>9, <1>12, <2>1, <2>2, <2>3, ZenonT(40) DEF Start
<1>13. CASE UNCHANGED vars
    BY <1>3, <1>13, SMT, SMTT(40) DEF vars, flags
<1>14. CASE \E t \in Busy : IF th[t].want # {} THEN Lock(t) ELSE Body(t)
    BY <1>4, <1>5, <1>6, <1>14 DEF Busy
<1> QED
    BY <1>12, <1>13, <1>14 DEF Next

\* A batch always ends: whatever the clients do, in batch mode a timer is armed or its
\* callback under way, unless the client was told that its timer could not be armed
\* again (OnBatchStart, OnBatchAlive, OnBatchEnd).
THEOREM BatchHasTimerHolds == Spec => []BatchHasTimer
<1>1. Init => TimerInv
    BY DEF Init, TimerInv, BatchHasTimer
<1>2. Inv /\ TimerInv /\ [Next]_vars => TimerInv'
    BY TimerNext
<1>3. TimerInv => BatchHasTimer
    BY DEF TimerInv
<1> QED
    BY <1>1, <1>2, <1>3, InvHolds, PTL DEF Spec

----------------------------------------------------------------------------
(* The marks of a transaction *)

\* While TC waits for the same handler, or begins to run it.
LEMMA MarkSame ==
    ASSUME MarkInv, UNCHANGED <<tc, commit, alarms>>,
           th'["tc"].op = "idle" => th["tc"].op = "idle"
    PROVE  MarkInv'
BY DEF MarkInv, MarksAreTakenBack

\* TC goes on after op.
LEMMA MarkProceed ==
    ASSUME Inv, MarkInv, NEW op, NEW ok \in BOOLEAN, Proceed(op, ok),
           \/ tc.oper \in SingleOps /\ op = tc.oper
           \/ tc.oper \in {"COMMIT", "AUDIT"} /\ op = tc.next,
           commit' => commit, alarms' => alarms \/ op \in {"TX_GLOBAL", "AUDIT_GLOBAL"},
           op = "TX_END" \/ (op = "TX_START" /\ ~ok) => ~commit',
           op \in {"TX_RESULT", "AUDIT_RESULT"} => ~alarms'
    PROVE  MarkInv'
<1>1. TcState
    BY SMT, SMTT(40) DEF Inv, RoleInv
<1>2. tc.stuck => tc.oper \in SingleOps
    BY <1>1, SMT, SMTT(40) DEF TcState
<1>3. ~tc.stuck => (commit => tc.oper = "COMMIT")
                   /\ (alarms => tc.next \in {"TX_RESULT", "AUDIT_RESULT"})
    BY SMT, SMTT(40) DEF MarkInv, MarksAreTakenBack
<1>4. CASE IsOver /\ tc'.stuck
    BY <1>4, SMT, SMTT(40) DEF IsOver, MarkInv, MarksAreTakenBack
<1>5. CASE IsOver /\ Finished(op, ok) /\ tc'.stuck = tc.stuck
    <2>1. tc.stuck \/ ~commit'
        BY <1>1, <1>3, <1>5, SMT, SMTT(40) DEF Finished, SingleOps, TcState, AuditOps, CommitOps
    <2>2. tc.stuck \/ ~alarms'
        BY <1>1, <1>3, <1>5, SMT, SMTT(40) DEF Finished, SingleOps, TcState, AuditOps, CommitOps
    <2> QED
        BY <1>5, <2>1, <2>2, SMT, SMTT(40) DEF IsOver, MarkInv, MarksAreTakenBack
<1>6. CASE /\ tc.oper \in {"COMMIT", "AUDIT"} /\ tc'.oper = tc.oper /\ tc'.stuck = tc.stuck
           /\ Follows(op, ok, tc'.next)
    <2>1. ~tc.stuck
        BY <1>2, <1>6, SMT, SMTT(40) DEF SingleOps
    <2>2. tc'.next # "TX_START"
        BY <1>6, SMT, SMTT(40) DEF Follows
    <2>3. commit' => tc'.oper = "COMMIT"
        BY <1>3, <1>6, <2>1, SMT, SMTT(40)
    <2>4. op = tc.next
        BY <1>6 DEF SingleOps
    <2>5. alarms' => op \in {"TX_GLOBAL", "AUDIT_GLOBAL"}
        BY <1>3, <2>1, <2>4, SMT, SMTT(40)
    <2>6. alarms' => tc'.next \in {"TX_RESULT", "AUDIT_RESULT"}
        BY <1>6, <2>5, SMT, SMTT(40) DEF Follows
    <2> QED
        BY <2>2, <2>3, <2>6, SMT, SMTT(40) DEF MarkInv, MarksAreTakenBack
<1> QED
    BY <1>1, <1>4, <1>5, <1>6, ProceedTo, SMT, SMTT(40)

LEMMA MarkEnd ==
    ASSUME Inv, MarkInv, NEW ok \in BOOLEAN, End("tc", ok), th["tc"].op # "idle",
           commit' => commit, alarms' => alarms,
           th["tc"].op = "TX_END" \/ (th["tc"].op = "TX_START" /\ ~ok) => ~commit',
           th["tc"].op \in {"TX_RESULT", "AUDIT_RESULT"} => ~alarms'
    PROVE  MarkInv'
<1>1. Proceed(th["tc"].op, ok)
    BY SMT, SMTT(40) DEF End
<1>2. \/ tc.oper \in SingleOps /\ th["tc"].op = tc.oper
      \/ tc.oper \in {"COMMIT", "AUDIT"} /\ th["tc"].op = tc.next
    BY SMT, SMTT(40) DEF Inv, RoleInv, TcState
<1> QED
    BY <1>1, <1>2, MarkProceed

LEMMA MarkFail ==
    ASSUME Inv, MarkInv, Fail("tc"), th["tc"].op # "idle", commit' = commit, alarms' => alarms,
           th["tc"].op \in {"TX_RESULT", "AUDIT_RESULT"} => ~alarms', th["tc"].op # "TX_END"
    PROVE  MarkInv'
<1>1. CASE End("tc", FALSE) /\ th["tc"].op # "TX_START"
    BY <1>1, MarkEnd, ZenonT(40)
<1>2. CASE /\ \/ Go("tc", "TX_START", "tx_end", TxEndLocks)
              \/ Go("tc", "AUDIT_START", "audit_end", {W("AUDIT")})
           /\ UNCHANGED tc
    <2>1. "tc" \in Threads /\ th \in [Threads -> Thread]
        BY SMT, SMTT(40) DEF Threads, Inv, Typed
    <2>2. th'["tc"].op # "idle"
        BY <1>2, <2>1, SMT, SMTT(40) DEF Go
    <2> QED
        BY <1>2, <2>2 DEF MarkInv, MarksAreTakenBack
<1> QED
    BY <1>1, <1>2, Zenon DEF Fail

\* The steps of another thread than TC's.
LEMMA OtherBody ==
    ASSUME Inv, NEW t \in Threads, t # "tc", Body(t)
    PROVE  /\ UNCHANGED <<tc, commit, alarms>> /\ th'["tc"] = th["tc"]
           /\ \/ EditWrite(t) \/ EditClose(t) \/ Read(t) \/ IsCandidateDirty(t) \/ OnBatchEnd(t)
              \/ DbCommitIfInBatchMode(t) \/ ImportEnter(t) \/ ImportRefused(t)
              \/ ValidateImport(t) \/ ImportWrite(t) \/ ImportClose(t) \/ ClearImport(t)
<1>1. th[t].pc \notin {"tx_start", "tx_vote", "copy_run", "tx_result", "tx_end", "clear_startup",
                       "copy_startup", "startup_close", "copy_cand", "copy_cand_rest",
                       "audit_db", "audit_end"}
    BY Stage, SMT, SMTT(40) DEF Inv
<1>2. \/ EditWrite(t) \/ EditClose(t) \/ Read(t) \/ IsCandidateDirty(t) \/ OnBatchEnd(t)
      \/ DbCommitIfInBatchMode(t) \/ ImportEnter(t) \/ ImportRefused(t)
      \/ ValidateImport(t) \/ ImportWrite(t) \/ ImportClose(t) \/ ClearImport(t)
    BY <1>1, Zenon DEF Body, At, TxUpdateController, OnTxVote, TxCopyCandidateToRunning,
           OnTxCommitCtrlrStatus, OnTxEnd, ClearStartup, CopyRunningToStartup, StartupClose,
           CopyRunningToCandidate, OnAbortCandidateConfig, AuditDb, OnAuditEnd
<1>3. \A ok : End(t, ok) => tc' = tc
    BY DEF End
<1>4. Fail(t) => tc' = tc
    BY <1>3, Zenon DEF Fail
<1>5. UNCHANGED <<tc, commit, alarms>>
    BY <1>2, <1>3, <1>4, Zenon
       DEF flags, EditWrite, EditClose, Read, IsCandidateDirty, OnBatchEnd,
           DbCommitIfInBatchMode, ImportEnter, ImportRefused, ValidateImport, ImportWrite,
           ImportClose, ClearImport
<1>6. "tc" \in Threads
    BY SMT, SMTT(40) DEF Threads
<1> QED
    BY <1>2, <1>5, <1>6, BodyMoves, SMT, SMTT(40) DEF Moves

\* The steps of TC's thread.
LEMMA TcBody ==
    ASSUME Inv, Body("tc")
    PROVE  \/ DbCommitIfInBatchMode("tc") \/ TxUpdateController("tc") \/ OnTxVote("tc")
           \/ TxCopyCandidateToRunning("tc") \/ OnTxCommitCtrlrStatus("tc") \/ OnTxEnd("tc")
           \/ ClearStartup("tc") \/ CopyRunningToStartup("tc") \/ StartupClose("tc")
           \/ CopyRunningToCandidate("tc") \/ OnAbortCandidateConfig("tc")
           \/ AuditDb("tc") \/ OnAuditEnd("tc")
<1>1. "tc" \in Threads
    BY SMT, SMTT(40) DEF Threads
<1>2. th["tc"].pc \notin {"edit", "edit_close", "read", "dirty", "batch_end", "import_enter",
                          "merge_enter", "clear_enter", "validate", "import_write",
                          "import_close", "clear_import", "clear_close"}
    BY <1>1, Stage, SMT, SMTT(40) DEF Inv
<1> QED
    BY <1>2, Zenon DEF Body, At, EditWrite, EditClose, Read, IsCandidateDirty, OnBatchEnd, ImportEnter,
           ImportRefused, ValidateImport, ImportWrite, ImportClose, ClearImport

LEMMA MarkTcBody ==
    ASSUME Inv, MarkInv, th["tc"].op # "idle", Body("tc")
    PROVE  MarkInv'
<1>1. "tc" \in Threads /\ th \in [Threads -> Thread] /\ th["tc"].ok \in BOOLEAN
    BY DEF Threads, Inv, Typed, Thread
<1>2. \A pc, ok : Step("tc", pc, ok) => th'["tc"].op = th["tc"].op
    BY <1>1 DEF Step, Thread
<1>3. CASE DbCommitIfInBatchMode("tc")
    <2>1. commit' = commit /\ alarms' = alarms
        BY <1>3 DEF DbCommitIfInBatchMode, flags
    <2>2. th["tc"].op \in SingleOps \cup {"TX_START"}
        BY <1>1, <1>3, Stage DEF Inv, DbCommitIfInBatchMode, At
    <2>3. CASE Fail("tc")
        BY <2>1, <2>2, <2>3, MarkFail DEF SingleOps
    <2>4. CASE /\ Go("tc", th["tc"].op, AfterDbCommit(th["tc"].op)[1],
                     AfterDbCommit(th["tc"].op)[2])
               /\ UNCHANGED tc
        <3>1. th'["tc"].op = th["tc"].op
            BY <1>1, <2>4 DEF Go
        <3> QED
            BY <2>1, <2>4, <3>1, MarkSame
    <2> QED
        BY <1>3, <2>2, <2>3, <2>4, Zenon DEF DbCommitIfInBatchMode, SingleOps
<1>4. CASE TxUpdateController("tc")
    <2>1. commit' = commit /\ alarms' = alarms /\ th["tc"].op = "TX_START"
        BY <1>1, <1>4, Stage, Zenon DEF Inv, TxUpdateController, At, flags
    <2>2. CASE End("tc", TRUE)
        BY <2>1, <2>2, MarkEnd, Zenon
    <2>3. CASE Fail("tc")
        BY <2>1, <2>3, MarkFail
    <2> QED
        BY <1>4, <2>2, <2>3, Zenon DEF TxUpdateController
<1>5. CASE OnTxVote("tc")
    <2>1. /\ commit' = commit /\ alarms' = (alarms /\ th["tc"].op = "TX_VOTE")
          /\ th["tc"].op \in {"TX_VOTE", "TX_VOTE_RESULT"}
        <3>1. th["tc"].pc = "tx_vote" /\ UNCHANGED commit
            BY <1>5, Zenon DEF OnTxVote, At
        <3>2. alarms' = (alarms /\ th["tc"].op = "TX_VOTE")
            BY <1>5, Zenon DEF OnTxVote
        <3>3. th["tc"].op \in {"TX_VOTE", "TX_VOTE_RESULT"}
            BY <1>1, <3>1, Stage, Zenon DEF Inv
        <3> QED
            BY <3>1, <3>2, <3>3, Zenon
    <2>2. PICK ok \in BOOLEAN : End("tc", ok)
        BY <1>5, SMT, SMTT(40) DEF OnTxVote
    <2> QED
        BY <2>1, <2>2, MarkEnd, ZenonT(40)
<1>6. CASE TxCopyCandidateToRunning("tc") \/ CopyRunningToStartup("tc")
    BY <1>2, <1>6, MarkSame, SMT, SMTT(40) DEF TxCopyCandidateToRunning, CopyRunningToStartup, flags
<1>7. CASE OnTxCommitCtrlrStatus("tc")
    <2>1. commit' = commit /\ ~alarms' /\ th["tc"].op = "TX_RESULT"
        BY <1>1, <1>7, Stage DEF Inv, OnTxCommitCtrlrStatus, At
    <2>2. PICK ok \in BOOLEAN : End("tc", ok)
        BY <1>1, <1>7, Zenon DEF OnTxCommitCtrlrStatus
    <2> QED
        BY <2>1, <2>2, MarkEnd
<1>8. CASE OnTxEnd("tc")
    <2>1. ~commit' /\ alarms' = alarms /\ th["tc"].op \in {"TX_START", "TX_END"}
        BY <1>1, <1>8, Stage DEF Inv, OnTxEnd, At
    <2>2. End("tc", FALSE)
        BY <1>8, Zenon DEF OnTxEnd
    <2> QED
        BY <2>1, <2>2, MarkEnd, ZenonT(40)
<1>9. CASE ClearStartup("tc") \/ StartupClose("tc") \/ CopyRunningToCandidate("tc")
           \/ OnAbortCandidateConfig("tc")
    <2>1. commit' = commit /\ alarms' = alarms
        BY <1>9, Zenon DEF ClearStartup, StartupClose, CopyRunningToCandidate, OnAbortCandidateConfig, flags
    <2>2. th["tc"].op \in SingleOps
        BY <1>1, <1>9, Stage, ZenonT(40) DEF Inv, At, ClearStartup, StartupClose, CopyRunningToCandidate,
           OnAbortCandidateConfig, SingleOps
    <2>3. CASE \E ok \in BOOLEAN : End("tc", ok)
        BY <2>1, <2>2, <2>3, MarkEnd DEF SingleOps
    <2>4. CASE UNCHANGED tc /\ \E pc, ok : Step("tc", pc, ok)
        BY <1>2, <2>1, <2>4, MarkSame
    <2> QED
        BY <1>1, <1>9, <2>3, <2>4, Zenon
           DEF ClearStartup, StartupClose, CopyRunningToCandidate, OnAbortCandidateConfig
<1>10. CASE AuditDb("tc")
    <2>1. /\ commit' = commit
          /\ alarms' = (alarms /\ th["tc"].op \notin {"AUDIT_VOTE_RESULT", "AUDIT_RESULT"})
          /\ th["tc"].op \in {"AUDIT_START", "AUDIT_TX_START", "AUDIT_VOTE_RESULT", "AUDIT_RESULT"}
        BY <1>1, <1>10, Stage, Zenon DEF Inv, AuditDb, At
    <2>2. CASE End("tc", TRUE)
        BY <2>1, <2>2, MarkEnd, Zenon
    <2>3. CASE Fail("tc")
        BY <2>1, <2>3, MarkFail, Zenon
    <2> QED
        BY <1>10, <2>2, <2>3, ZenonT(40) DEF AuditDb
<1>11. CASE OnAuditEnd("tc")
    <2>1. commit' = commit /\ alarms' = alarms /\ th["tc"].op \in {"AUDIT_START", "AUDIT_END"}
        BY <1>1, <1>11, Stage, Zenon DEF Inv, OnAuditEnd, At
    <2>2. End("tc", FALSE)
        BY <1>11, ZenonT(40) DEF OnAuditEnd
    <2> QED
        BY <2>1, <2>2, MarkEnd, Zenon
<1> QED
    BY <1>3, <1>4, <1>5, <1>6, <1>7, <1>8, <1>9, <1>10, <1>11, TcBody, ZenonT(40)

LEMMA MarkNext ==
    ASSUME Inv, MarkInv, [Next]_vars
    PROVE  MarkInv'
<1>1. "tc" \in Threads /\ th \in [Threads -> Thread]
    BY DEF Threads, Inv, Typed
<1>2. ASSUME NEW t \in Threads, Lock(t)
      PROVE  MarkInv'
    <2>1. th'["tc"].op = th["tc"].op
        BY <1>1, <1>2 DEF Lock, Thread
    <2> QED
        BY <1>2, <2>1, MarkSame DEF Lock, flags
<1>3. ASSUME NEW t \in Threads, th[t].op # "idle", Body(t)
      PROVE  MarkInv'
    <2>1. CASE t = "tc"
        BY <1>3, <2>1, MarkTcBody
    <2>2. CASE t # "tc"
        BY <1>3, <2>2, OtherBody, MarkSame, Zenon
    <2> QED
        BY <2>1, <2>2
<1>4. ASSUME NEW t \in Threads \ {"tc"}, NEW op, NEW pc, NEW locks,
             Begin(t, op, pc, locks) \/ UNCHANGED <<th, held>>, UNCHANGED <<tc, commit, alarms>>
      PROVE  MarkInv'
    <2>1. th'["tc"] = th["tc"]
        BY <1>1, <1>4 DEF Begin, Go
    <2> QED
        BY <1>4, <2>1, MarkSame, SMT, SMTT(40)
<1>5. ASSUME NEW op, op # "idle", NEW pc, NEW locks, Begin("tc", op, pc, locks),
             UNCHANGED <<tc, commit, alarms>>
      PROVE  MarkInv'
    <2>1. th'["tc"].op # "idle"
        BY <1>1, <1>5 DEF Begin, Go
    <2> QED
        BY <1>5, <2>1, MarkSame
<1>6. {"user", "timer"} \subseteq Threads \ {"tc"}
    BY DEF Threads
<1>7. CASE TcStart
    <2>1. TcState /\ tc.oper = "none" /\ tc.next = "none" /\ commit' = commit /\ alarms' = alarms
        BY <1>7 DEF TcStart, TcFree, Inv, RoleInv, TcState, flags
    <2>2. tc.stuck \/ (~commit /\ ~alarms)
        BY <2>1 DEF MarkInv, MarksAreTakenBack
    <2>3. CASE \E op \in SingleOps : tc' = [tc EXCEPT !.oper = op]
        BY <2>1, <2>2, <2>3 DEF TcState, MarkInv, MarksAreTakenBack, SingleOps
    <2>4. CASE /\ ~tc.stuck
               /\ \/ tc' = [tc EXCEPT !.oper = "COMMIT", !.next = "TX_START"]
                  \/ tc' = [tc EXCEPT !.oper = "AUDIT", !.next = "AUDIT_START"]
        BY <2>1, <2>2, <2>4, SMT, SMTT(40) DEF TcState, MarkInv, MarksAreTakenBack
    <2> QED
        BY <1>7, <2>3, <2>4 DEF TcStart, SingleOps
<1>8. CASE OnTxStart
    <2>1. tc' = tc /\ alarms' = alarms /\ tc.next = "TX_START"
        BY <1>8, SMT, SMTT(40) DEF OnTxStart, Calls
    <2>2. tc.oper = "COMMIT"
        BY <2>1, SMT, SMTT(40) DEF Inv, RoleInv, TcState, AuditOps
    <2>3. th'["tc"].op # "idle"
        BY <1>1, <1>8 DEF OnTxStart, Begin, Go
    <2> QED
        BY <2>1, <2>2, <2>3 DEF MarkInv, MarksAreTakenBack
<1>9. CASE GlobalCommit
    <2>1. PICK ok \in BOOLEAN : Proceed(tc.next, ok)
        BY <1>9 DEF GlobalCommit
    <2>2. commit' = commit /\ tc.next \in {"TX_GLOBAL", "AUDIT_GLOBAL"}
        BY <1>9, SMT, SMTT(40) DEF GlobalCommit, Calls
    <2>3. tc.oper \in {"COMMIT", "AUDIT"}
        BY <2>2 DEF Inv, RoleInv, TcState
    <2> QED
        BY <2>1, <2>2, <2>3, MarkProceed
<1>10. CASE OnAuditStart
    <2>1. commit' = commit /\ alarms' = alarms /\ tc.next = "AUDIT_START"
        BY <1>10, ZenonT(40) DEF OnAuditStart, Calls
    <2>2. tc.oper = "AUDIT"
        BY <2>1 DEF Inv, RoleInv, TcState, CommitOps
    <2>3. CASE \E ok \in BOOLEAN : Proceed("AUDIT_START", ok)
        BY <2>1, <2>2, <2>3, MarkProceed
    <2>4. CASE UNCHANGED tc /\ \E pc, locks : Begin("tc", "AUDIT_START", pc, locks)
        BY <1>5, <2>1, <2>4, SMT, SMTT(40)
    <2> QED
        BY <1>10, <2>3, <2>4, Zenon DEF OnAuditStart
<1>11. CASE OnTxVoteStart \/ OnTxResultStart \/ OnTxEndStart \/ AuditCall
    BY <1>5, <1>11
       DEF OnTxVoteStart, OnTxResultStart, OnTxEndStart, AuditCall, flags
<1>12. CASE EditStart \/ OnBatchStart \/ OnBatchAlive \/ BatchEndStart
            \/ BatchTimeOut \/ ImportStart
    BY <1>4, <1>6, <1>12, Zenon
       DEF EditStart, OnBatchStart, OnBatchAlive, BatchEndStart, BatchTimeOut,
           ImportStart, flags
<1>13. ASSUME NEW t \in Threads, ReadStart(t) \/ DirtyStart(t)
       PROVE  MarkInv'
    <2>1. t # "tc" /\ UNCHANGED <<tc, commit, alarms>> /\ \E op, pc, locks : Begin(t, op, pc, locks)
        BY <1>13, ConfigAssumption DEF ReadStart, DirtyStart, flags
    <2> QED
        BY <1>4, <2>1, SMT, SMTT(40)
<1>14. CASE Start
    BY <1>7, <1>8, <1>9, <1>10, <1>11, <1>12, <1>13, <1>14, ZenonT(40) DEF Start
<1>15. CASE UNCHANGED vars
    BY <1>15, MarkSame, SMT, SMTT(40) DEF vars, flags
<1>16. CASE \E t \in Busy : IF th[t].want # {} THEN Lock(t) ELSE Body(t)
    BY <1>2, <1>3, <1>16 DEF Busy
<1> QED
    BY <1>14, <1>15, <1>16 DEF Next

\* MarkInv always holds: the first handler of a commit finds no commit marked.
LEMMA MarkInvHolds == Spec => []MarkInv
<1>1. Init => MarkInv
    BY DEF Init, MarkInv, MarksAreTakenBack
<1>2. Inv /\ MarkInv /\ [Next]_vars => MarkInv'
    BY MarkNext
<1> QED
    BY <1>1, <1>2, InvHolds, PTL DEF Spec

\* What a transaction marks in UPLL it takes back, unless TC gave it up with a system
\* failure: no later commit is refused with "Another commit is in progress", and path
\* fault alarms wait only between a global commit and its result.
THEOREM MarksAreTakenBackHolds == Spec => []MarksAreTakenBack
<1>1. MarkInv => MarksAreTakenBack
    BY DEF MarkInv
<1> QED
    BY <1>1, MarkInvHolds, PTL
=============================================================================
