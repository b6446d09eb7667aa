---------------------------- MODULE MCSessionDir ----------------------------
(* TLC instances of SessionDir: a few daemons, hosts and names. *)
EXTENDS SessionDirProps, TLC

CONSTANTS d1, d2, d3, h1, h2, n, n1, p1

(* "demo", "demo-1": the second can also be asked for directly. *)
NumberedNames == (n :> <<n, n1>>) @@ (n1 :> <<n1>>)

OneName == n :> <<n>>

Symmetry == Permutations(Daemons) \cup Permutations(Hosts)
=============================================================================
