---------------------------- MODULE MCAcceptLoop ----------------------------
(* TLC instances of AcceptLoop. *)
EXTENDS AcceptLoopProps, TLC

CONSTANTS p1, p2, p3, t1, t2, c1, c2, f1, f2, f3

Symmetry == Permutations(Pids) \cup Permutations(Tokens) \cup Permutations(Conns)
                \cup Permutations(Fds)
=============================================================================
