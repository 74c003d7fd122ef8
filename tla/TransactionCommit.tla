------------------------- MODULE TransactionCommit -------------------------
(***************************************************************************)
(* What a transaction of TC promises, whatever messages it takes: the      *)
(* daemons it involves all commit or none of them does, and success is     *)
(* reported only when all of them have.  TcTransaction implements this.    *)
(***************************************************************************)
CONSTANT Participants

VARIABLES
    state,     \* of each participant: working, prepared, committed or aborted
    involved,  \* the participants the transaction is known to concern
    answer     \* what the client has been told

vars == <<state, involved, answer>>

Working == [p \in Participants |-> "working"]

In(s) == {p \in Participants : state[p] = s}

Init == state = Working /\ involved = {} /\ answer = "none"

\* A new transaction, or none: what the last one did is history.
Start ==
    /\ state' = Working
    /\ involved' \subseteq Participants
    /\ answer' = "none"

\* p votes for the transaction, which may reveal that it concerns others as well.
Prepare(p) ==
    /\ In("committed") \cup In("aborted") = {}
    /\ state' = [state EXCEPT ![p] = "prepared"]
    /\ involved \subseteq involved' /\ involved' \subseteq Participants

\* p commits: every participant involved has voted for it and none has aborted.
Commit(p) ==
    /\ involved \subseteq In("prepared") \cup In("committed")
    /\ In("aborted") = {}
    /\ state' = [state EXCEPT ![p] = "committed"]
    /\ UNCHANGED involved

\* p drops the transaction: nobody has committed.
Abort(p) ==
    /\ In("committed") = {}
    /\ state' = [state EXCEPT ![p] = "aborted"]
    /\ UNCHANGED involved

\* The client may be told at any moment, once, and told success only if
\* everybody has committed.  The step of a participant whose acknowledgement
\* is lost is also the one that ends the transaction.
Answer ==
    /\ answer' \in {"none", "failure", "success"}
    /\ answer' = "success" => \A p \in involved' : state'[p] = "committed"

Proceed ==
    /\ answer = "none"
    /\ \/ UNCHANGED <<state, involved>>
       \/ \E p \in Participants : Prepare(p) \/ Commit(p) \/ Abort(p)
    /\ Answer

Next == Start \/ Proceed

Spec == Init /\ [][Next]_vars
=============================================================================
