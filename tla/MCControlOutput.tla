-------------------------- MODULE MCControlOutput ---------------------------
(* TLC instances of ControlOutput. *)
EXTENDS ControlOutputProps

CONSTANTS p1, p2

MCMaxBytes == [p \in {p1, p2} |-> IF p = p1 THEN 2 ELSE 1]
=============================================================================
