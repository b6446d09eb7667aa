--------------------------- MODULE MCInputEvents ----------------------------
(* TLC instances of InputEvents. *)
EXTENDS InputEventsProps, TLC

CONSTANTS c1, c2, x1, x2

Symmetry == Permutations(Conns) \cup Permutations(Apps)
=============================================================================
