-------------------------- MODULE MCPfcTaskQueue --------------------------
(* Instances of PfcTaskQueue for model checking. *)
EXTENDS PfcTaskQueue, TLC

Threads == Permutations(Dispatchers) \cup Permutations(Clients)
=============================================================================
