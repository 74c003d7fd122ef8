---------------------------- MODULE MCUpllConfig ----------------------------
(* UpllConfig for TLC: nothing has been saved at the start, and TC runs at *)
(* most MaxOperations operations beside any number of requests of clients. *)
(* Complete configurations are interchangeable.                            *)
EXTENDS UpllConfig, TLC

CONSTANT MaxOperations

VARIABLE operations   \* that TC has started

MCInit == Init /\ db["START"] = Empty /\ operations = 0

MCNext ==
    /\ Next
    /\ operations' = IF tc.oper = "none" /\ tc'.oper # "none" THEN operations + 1 ELSE operations
    /\ operations' <= MaxOperations

MCSpec == MCInit /\ [][MCNext]_<<vars, operations>>

Symmetry == Permutations(Configs)
=============================================================================
