----------------------------- MODULE MCSharing -----------------------------
(* TLC instances of Sharing. *)
EXTENDS SharingProps, TLC

OneSession == [p \in Panes |-> 1]
LaterSession == [p \in Panes |-> IF p = FirstPane THEN 1 ELSE 2]
=============================================================================
