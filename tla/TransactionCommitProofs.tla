----------------------- MODULE TransactionCommitProofs -----------------------
(***************************************************************************)
(* What the abstract transaction guarantees, for any set of participants:  *)
(* its steps say when somebody may commit, abort or answer; here is what   *)
(* follows for the outcome as a whole.                                     *)
(***************************************************************************)
EXTENDS TransactionCommit, TLAPS

StateType == state \in [Participants -> {"working", "prepared", "committed", "aborted"}]

\* Once somebody has committed nobody has aborted, and everybody involved has at
\* least voted for the transaction.
Atomic ==
    In("committed") # {} =>
        /\ In("aborted") = {}
        /\ involved \subseteq In("prepared") \cup In("committed")

\* Success was answered only if everybody involved has committed.
Truthful == answer = "success" => involved \subseteq In("committed")

Inv == StateType /\ involved \subseteq Participants /\ Atomic /\ Truthful

\* A participant that goes to a state leaves every other one.
LEMMA Moved ==
    ASSUME StateType, NEW p \in Participants,
           NEW s \in {"working", "prepared", "committed", "aborted"},
           state' = [state EXCEPT ![p] = s]
    PROVE  /\ StateType'
           /\ In(s)' = In(s) \cup {p}
           /\ \A t : t # s => In(t)' = In(t) \ {p}
BY DEF StateType, In


\* A step of a participant keeps the outcome atomic.
LEMMA ParticipantStep ==
    ASSUME Inv, NEW p \in Participants, Prepare(p) \/ Commit(p) \/ Abort(p)
    PROVE  StateType' /\ involved' \subseteq Participants /\ Atomic'
<1>1. CASE Prepare(p)
  <2>1. StateType' /\ In("committed")' = In("committed") \ {p}
    BY <1>1, Moved, Zenon DEF Inv, Prepare
  <2>2. In("committed")' = {}
    BY <1>1, <2>1 DEF Prepare
  <2> QED BY <1>1, <2>1, <2>2 DEF Prepare, Atomic
<1>2. CASE Commit(p)
  <2>1. /\ StateType'
        /\ In("committed")' = In("committed") \cup {p}
        /\ In("aborted")' = In("aborted") \ {p}
        /\ In("prepared")' = In("prepared") \ {p}
    BY <1>2, Moved, Zenon DEF Inv, Commit
  <2> QED BY <1>2, <2>1 DEF Commit, Atomic, Inv
<1>3. CASE Abort(p)
  <2>1. StateType' /\ In("committed")' = In("committed") \ {p}
    BY <1>3, Moved, Zenon DEF Inv, Abort
  <2>2. In("committed")' = {}
    BY <1>3, <2>1 DEF Abort
  <2> QED BY <1>3, <2>1, <2>2 DEF Abort, Atomic, Inv
<1> QED BY <1>1, <1>2, <1>3

\* Two-phase commit is all or nothing: as soon as one daemon has committed, none
\* has aborted and all that are involved have voted for the transaction; and TC
\* answers success only when all of them have committed.
THEOREM CommitIsAtomic == Spec => [](Atomic /\ Truthful)
<1>1. Init => Inv
    BY DEF Init, Inv, StateType, Working, Atomic, Truthful, In
<1>2. Inv /\ [Next]_vars => Inv'
  <2> SUFFICES ASSUME Inv, [Next]_vars PROVE Inv'
    OBVIOUS
  <2>1. CASE Start
    BY <2>1 DEF Start, Inv, StateType, Working, Atomic, Truthful, In
  <2>2. CASE Proceed
    <3>1. StateType' /\ involved' \subseteq Participants /\ Atomic'
      <4>1. CASE UNCHANGED <<state, involved>>
        BY <4>1 DEF Inv, StateType, Atomic, In
      <4> QED BY <2>2, <4>1, ParticipantStep DEF Proceed
    <3>2. Truthful'
        BY <2>2, <3>1 DEF Proceed, Answer, Truthful, In
    <3> QED BY <3>1, <3>2 DEF Inv
  <2>3. CASE UNCHANGED vars
    BY <2>3 DEF vars, Inv, StateType, Atomic, Truthful, In
  <2> QED BY <2>1, <2>2, <2>3 DEF Next
<1>3. Inv => Atomic /\ Truthful
    BY DEF Inv
<1> QED BY <1>1, <1>2, <1>3, PTL DEF Spec
=============================================================================
