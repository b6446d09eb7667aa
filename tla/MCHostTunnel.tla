---------------------------- MODULE MCHostTunnel ----------------------------
(* TLC instances of HostTunnel. *)
EXTENDS HostTunnelProps, TLC

CONSTANTS a1, a2, a3
=============================================================================
