-------------------------- MODULE MCPfcThreadPool --------------------------
(***************************************************************************)
(* Instances of PfcThreadPool for TLC.                                     *)
(***************************************************************************)
EXTENDS PfcThreadPool

\* Physical threads and jobs are interchangeable.
Symmetry == Permutations(Threads) \cup Permutations(Jobs)
=============================================================================
