---------------------------- MODULE MCUpllDbConn ----------------------------
(* UpllDbConn for TLC: threads and addresses are interchangeable. *)
EXTENDS UpllDbConn, TLC

Symmetry == Permutations(Threads) \cup Permutations(Conns)
=============================================================================
