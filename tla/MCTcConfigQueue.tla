--------------------------- MODULE MCTcConfigQueue ---------------------------
(* Small instances of TcConfigQueue for TLC. *)
EXTENDS TcConfigQueue, TLC

CONSTANTS s1, s2, s3

ThreeSessions == {s1, s2, s3}
AllTimeouts == {"zero", "finite", "infinite"}
Unlimited == {"infinite"}

Symmetry == Permutations(ThreeSessions)
=============================================================================
