--------------------------- MODULE HostTunnelProps ---------------------------
(***************************************************************************)
(* What a host's connection to the relay promises.                         *)
(***************************************************************************)
EXTENDS HostTunnel

(* Every variable has its type.                                              *)
TypeOK ==
  /\ st \in [Ips -> States \cup {"none"}]
  /\ resolving \in BOOLEAN /\ dnsRetry \in BOOLEAN /\ waiting \in BOOLEAN
  /\ attempts \in 0..MaxAttempts
  /\ lastIp \in Ips \cup {NoIp} /\ writer \in Ips \cup {NoIp}
  /\ capTimer \in BOOLEAN /\ layoutFailed \in BOOLEAN
  /\ hostSet \in BOOLEAN /\ up \in SUBSET Ips /\ freedUsed \in BOOLEAN

Trying == Clients(st) # {}
Busy == resolving \/ dnsRetry \/ waiting \/ Trying

(* A lookup, a pause before a lookup, a pause before reconnecting and SSH    *)
(* clients exclude each other: assert(!ev_dnsbase) of lookup_and_connect     *)
(* holds, no second set of clients races the first one.                      *)
OneActivity ==
  /\ resolving => ~dnsRetry /\ ~waiting /\ ~Trying
  /\ dnsRetry => ~waiting /\ ~Trying
  /\ waiting => ~Trying

(* A client whose server was recognized is alone: the user is asked for keys *)
(* once, the session is shared with one relay.                               *)
SingleWinner == \A i \in Ips : st[i] \in Verified => Clients(st) = {i}

(* The encoder writes to the client that is ready, if there is one, and the  *)
(* timer of the negotiation runs for that client only: nothing refers to a   *)
(* client that was freed.                                                    *)
NoDangling ==
  /\ \A i \in Ips : st[i] = "ready" <=> writer = i
  /\ capTimer => writer # NoIp

(* The server that worked last gets one chance, at once; from then on any    *)
(* server of the name may be taken.                                          *)
LastServerOnce == waiting /\ lastIp # NoIp => attempts = 1

(* Whatever fails and in whatever order, callbacks that outlive their client *)
(* or come in another order than they were asked for do no harm: one         *)
(* activity, one winner, nothing that refers to a client that is gone, and   *)
(* one chance for the server that worked last.                               *)
TunnelSafe == OneActivity /\ SingleWinner /\ NoDangling /\ LastServerOnce

(* The host never gives up by itself: it stops trying when the relay refused *)
(* the session, or when it was about to look up an empty name.               *)
NeverGivesUp == [][Busy => Busy' \/ layoutFailed \/ ~hostSet]_vars

(* While the relay has a server that stays up, and does not refuse the       *)
(* session, the host is connected again and again, whichever servers fail:   *)
(* unless the program used freed memory, after which it may do anything.     *)
Reconnects == []hostSet /\ []~layoutFailed /\ []~freedUsed => []<>(writer # NoIp)

(* What LastServerOnce rests on: an address is remembered while its client   *)
(* is up, and until the first retry.                                         *)
LastIpFresh ==
  lastIp # NoIp =>
    \/ writer # NoIp /\ attempts = 0
    \/ waiting /\ attempts = 1
    \/ layoutFailed /\ ~Busy

IInv == TypeOK /\ OneActivity /\ SingleWinner /\ NoDangling /\ LastIpFresh
=============================================================================
