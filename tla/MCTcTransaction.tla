-------------------------- MODULE MCTcTransaction --------------------------
(***************************************************************************)
(* TcTransaction for TLC. The configurations bound it; see README.md.      *)
(***************************************************************************)
EXTENDS TcTransaction
=============================================================================
