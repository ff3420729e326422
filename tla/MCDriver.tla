------------------------------ MODULE MCDriver ------------------------------
(* Model checking of Driver: two processes of the user who loads the       *)
(* module, one of another.                                                 *)
EXTENDS Driver

CONSTANTS p1, p2, p3, root, user, v1, v2

MCUid == [p \in Procs |-> IF p = p3 THEN user ELSE root]
=============================================================================
