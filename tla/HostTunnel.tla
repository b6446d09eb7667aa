----------------------------- MODULE HostTunnel -----------------------------
(***************************************************************************)
(* How a host keeps its connection to a relay: it looks the relay's name   *)
(* up, races one SSH client against each address, keeps the first whose    *)
(* server key it recognizes, and when that one is lost waits, tries the    *)
(* address that worked last, then looks the name up again.                 *)
(*                                                                         *)
(* All of this runs in callbacks of one event loop: an action is a         *)
(* callback.  A callback that passes several SSH states without waiting is *)
(* cut where libssh may answer SSH_AGAIN, which is where the code may      *)
(* return.  Abstractions: at most one SSH client per address; states that  *)
(* no callback leaves a client in are left out; a delay is only compared,  *)
(* time does not pass.  What is sent on the tunnel is module Sharing.      *)
(***************************************************************************)
EXTENDS Naturals, FiniteSets

CONSTANTS
  Ips,            \* addresses the relay's name may resolve to
  NoIp,
  Genuine,        \* those whose server has the configured fingerprint
  Lasting,        \* those that are never down: used in the fairness only
  KeyLocked,      \* the user's key needs a passphrase and no agent holds it
  LossAtStart     \* the connection may break while the tunnel starts

ASSUME AddressAssumption ==
  /\ NoIp \notin Ips
  /\ Genuine \subseteq Ips /\ Lasting \subseteq Genuine
  /\ KeyLocked \in BOOLEAN /\ LossAtStart \in BOOLEAN

VARIABLES
  st,           \* st[i]: the state of the SSH client for address i, or "none"
  resolving,    \* ev_dnsbase # NULL: a lookup is running
  dnsRetry,     \* ev_dns_retry # NULL
  waiting,      \* ev_connection_retry # NULL
  attempts,     \* reconnect_attempts, up to where the delay stops growing
  lastIp,       \* last_server_ip
  writer,       \* the client that gets the encoder's data (ready_callback)
  capTimer,     \* ev_layout_capability # NULL
  layoutFailed, \* layout_failed
  hostSet,      \* option tmtv-server-host is not empty
  up,           \* addresses where a server answers
  freedUsed     \* a callback went on with a client it had freed

sessionVars == <<resolving, dnsRetry, waiting, attempts, lastIp>>
tunnelVars == <<writer, capTimer, layoutFailed>>
envVars == <<hostSet, up>>
vars == <<st, sessionVars, tunnelVars, envVars, freedUsed>>

States == {"connect", "auth_none", "auth_pubkey", "open", "bootstrap", "ready"}

\* the server's key has been accepted
Verified == States \ {"connect"}

Clients(s) == {i \in Ips : s[i] # "none"}

MaxAttempts == 5     \* more attempts do not change the delay

AtMost(n, limit) == IF n >= limit THEN limit ELSE n

Init ==
  /\ st = [i \in Ips |-> "none"]
  /\ resolving = TRUE /\ dnsRetry = FALSE /\ waiting = FALSE /\ attempts = 0
  /\ lastIp = NoIp /\ writer = NoIp /\ capTimer = FALSE /\ layoutFailed = FALSE
  /\ hostSet = TRUE /\ up \in {u \in SUBSET Ips : Lasting \subseteq u}
  /\ freedUsed = FALSE

-----------------------------------------------------------------------------
(* tmate_reconnect_session, after n attempts, with the timer armed or not.   *)
ReconnectSession(n, armed) ==
  IF layoutFailed \/ armed
  THEN attempts' = n /\ waiting' = armed
  ELSE attempts' = AtMost(n + 1, MaxAttempts) /\ waiting' = TRUE

(* kill_ssh_client for the clients that are in st and not in s: a client in  *)
(* SSH_READY takes the encoder's callback and the timer with it, the last    *)
(* one to go arms the timer.                                                 *)
KillTo(s) ==
  /\ st' = s
  /\ writer' = IF writer # NoIp /\ s[writer] # "ready" THEN NoIp ELSE writer
  /\ capTimer' = (capTimer /\ \E i \in Ips : s[i] = "ready")
  /\ IF Clients(s) = {} THEN ReconnectSession(attempts, waiting)
     ELSE UNCHANGED <<waiting, attempts>>

Kill(i) == KillTo([st EXCEPT ![i] = "none"])

LookupAndConnect == resolving' = (resolving \/ hostSet)

-----------------------------------------------------------------------------
(* Timers and the resolver *)

OnDnsRetry ==
  /\ dnsRetry /\ dnsRetry' = FALSE
  /\ LookupAndConnect
  /\ UNCHANGED <<st, waiting, attempts, lastIp, tunnelVars, envVars, freedUsed>>

DnsFailsQuietly ==
  /\ resolving /\ resolving' = FALSE
  /\ UNCHANGED <<st, waiting, attempts, dnsRetry, lastIp, tunnelVars, envVars, freedUsed>>

DnsFails ==
  /\ resolving /\ resolving' = FALSE
  /\ dnsRetry' = TRUE
  /\ UNCHANGED <<st, waiting, attempts, lastIp, tunnelVars, envVars, freedUsed>>

(* The name has the addresses found: all clients exist before the first one  *)
(* connects.  Those in refused fail at once.                                 *)
DnsAnswers(found, refused) ==
  /\ resolving /\ resolving' = FALSE
  /\ KillTo([i \in Ips |-> IF i \notin found THEN st[i]
                           ELSE IF i \in refused THEN "none" ELSE "connect"])
  /\ UNCHANGED <<dnsRetry, lastIp, layoutFailed, envVars, freedUsed>>

OnReconnectRetryKeepsIp(failsAtOnce) ==
  /\ waiting
  /\ UNCHANGED lastIp
  /\ IF lastIp = NoIp
     THEN waiting' = FALSE /\ LookupAndConnect /\ UNCHANGED <<st, attempts>>
     ELSE /\ UNCHANGED resolving
          /\ IF failsAtOnce
             THEN ReconnectSession(attempts, FALSE) /\ UNCHANGED st
             ELSE /\ st' = [st EXCEPT ![lastIp] = "connect"]
                  /\ waiting' = FALSE /\ UNCHANGED attempts
  /\ UNCHANGED <<dnsRetry, tunnelVars, envVars, freedUsed>>

(* on_reconnect_retry: the last server first, any server when that fails.    *)
OnReconnectRetry(failsAtOnce) ==
  /\ waiting
  /\ IF lastIp = NoIp
     THEN /\ waiting' = FALSE /\ LookupAndConnect
          /\ UNCHANGED <<st, attempts, lastIp>>
     ELSE /\ lastIp' = NoIp
          /\ UNCHANGED resolving
          /\ IF failsAtOnce
             THEN ReconnectSession(attempts, FALSE) /\ UNCHANGED st
             ELSE /\ st' = [st EXCEPT ![lastIp] = "connect"]
                  /\ waiting' = FALSE /\ UNCHANGED attempts
  /\ UNCHANGED <<dnsRetry, tunnelVars, envVars, freedUsed>>

-----------------------------------------------------------------------------
(* on_ssh_client_event *)

Move(i, from, to) ==
  /\ st[i] = from /\ st' = [st EXCEPT ![i] = to]
  /\ UNCHANGED <<sessionVars, tunnelVars, envVars, freedUsed>>

ConnectedRaceGoesOn(i) ==
  /\ st[i] = "connect" /\ i \in up
  /\ IF i \in Genuine THEN KillTo([st EXCEPT ![i] = "auth_none"]) ELSE Kill(i)
  /\ UNCHANGED <<resolving, dnsRetry, lastIp, layoutFailed, envVars, freedUsed>>

(* The key exchange is over: a server with the right key ends the race.      *)
Connected(i) ==
  /\ st[i] = "connect" /\ i \in up
  /\ IF i \in Genuine
     THEN KillTo([j \in Ips |-> IF j = i THEN "auth_none" ELSE "none"])
     ELSE Kill(i)
  /\ UNCHANGED <<resolving, dnsRetry, lastIp, layoutFailed, envVars, freedUsed>>

NoneAccepted(i) == i \in up /\ Move(i, "auth_none", "open")
NoneDenied(i) == i \in up /\ Move(i, "auth_none", "auth_pubkey")

(* A key that needs a passphrase is not tried: the client stays as it is.    *)
KeyAccepted(i) == i \in up /\ ~KeyLocked /\ Move(i, "auth_pubkey", "open")
ChannelOpened(i) == i \in up /\ Move(i, "open", "bootstrap")

(* libssh reports an error; no key was accepted.                             *)
Fails(i) ==
  /\ st[i] \in States \ {"ready"}
  /\ Kill(i)
  /\ UNCHANGED <<resolving, dnsRetry, lastIp, layoutFailed, envVars, freedUsed>>

(* The subsystem is accepted: SSH_READY.  What the encoder holds is written  *)
(* from within tmate_encoder_set_ready_callback.                             *)
Bootstrapped(i) ==
  /\ st[i] = "bootstrap" /\ i \in up
  /\ st' = [st EXCEPT ![i] = "ready"]
  /\ attempts' = 0 /\ writer' = i /\ capTimer' = TRUE /\ lastIp' = i
  /\ UNCHANGED <<resolving, dnsRetry, waiting, layoutFailed, envVars, freedUsed>>

(* That write finds the connection lost: on_encoder_write kills and frees    *)
(* the client, then SSH_BOOTSTRAP goes on and uses it.                       *)
BootstrapLost(i) ==
  /\ LossAtStart
  /\ st[i] = "bootstrap" /\ i \in up
  /\ st' = [st EXCEPT ![i] = "none"]
  /\ writer' = NoIp /\ capTimer' = FALSE
  /\ lastIp' = i \* read from freed memory
  /\ ReconnectSession(0, waiting)
  /\ freedUsed' = TRUE
  /\ UNCHANGED <<resolving, dnsRetry, layoutFailed, envVars>>

(* read_channel gets an error, or on_encoder_write, from the event loop,     *)
(* finds the connection lost.                                                *)
Lost(i) ==
  /\ st[i] = "ready"
  /\ Kill(i)
  /\ UNCHANGED <<resolving, dnsRetry, lastIp, layoutFailed, envVars, freedUsed>>

(* tmate_snapshot_error: an answer of the relay, or none in 5 seconds, ends  *)
(* sharing.                                                                  *)
Refused ==
  /\ \E i \in Ips : st[i] = "ready"
  /\ layoutFailed' = TRUE
  /\ UNCHANGED <<st, sessionVars, writer, capTimer, envVars, freedUsed>>

(* tmate_capabilities_ready: the relay can do what the host needs            *)
Negotiated ==
  /\ capTimer /\ ~layoutFailed /\ capTimer' = FALSE
  /\ UNCHANGED <<st, sessionVars, writer, layoutFailed, envVars, freedUsed>>

-----------------------------------------------------------------------------
(* The world *)

SetHost ==
  /\ hostSet' = ~hostSet
  /\ UNCHANGED <<st, sessionVars, tunnelVars, up, freedUsed>>

GoesDown(i) ==
  /\ i \in up \ Lasting /\ up' = up \ {i}
  /\ UNCHANGED <<st, sessionVars, tunnelVars, hostSet, freedUsed>>

ComesUp(i) ==
  /\ i \in Ips \ up /\ up' = up \cup {i}
  /\ UNCHANGED <<st, sessionVars, tunnelVars, hostSet, freedUsed>>

-----------------------------------------------------------------------------
Timers == OnDnsRetry \/ \E b \in BOOLEAN : OnReconnectRetry(b)

Resolver == DnsFails \/ \E found \in SUBSET Ips \ {{}} : \E refused \in SUBSET found :
              DnsAnswers(found, refused)

Progress(i) ==
  Connected(i) \/ NoneAccepted(i) \/ NoneDenied(i) \/ KeyAccepted(i) \/ ChannelOpened(i)
    \/ Bootstrapped(i) \/ BootstrapLost(i)

World == SetHost \/ \E i \in Ips : GoesDown(i) \/ ComesUp(i)

(* Once freed memory was used, what the program does is undefined.           *)
Program ==
  /\ ~freedUsed
  /\ \/ Timers \/ Resolver \/ Refused \/ Negotiated
     \/ \E i \in Ips : Progress(i) \/ Fails(i) \/ Lost(i)

Next == Program \/ World

Spec == Init /\ [][Next]_vars

(* Timers fire and lookups end.  So does a handshake: a server that is up    *)
(* answers or ends it after TMATE_SSH_GRACE_PERIOD, TCP_USER_TIMEOUT and     *)
(* keep-alive find one that is not.  The name resolves in the end, to        *)
(* lasting servers too, and such a server does not fail every time.          *)
Fairness ==
  /\ WF_vars(~freedUsed /\ OnDnsRetry)
  /\ WF_vars(~freedUsed /\ \E b \in BOOLEAN : OnReconnectRetry(b))
  /\ WF_vars(~freedUsed /\ Resolver)
  /\ \A i \in Ips : WF_vars(~freedUsed /\ (Progress(i) \/ Fails(i)))
  /\ SF_vars(~freedUsed /\ \E found \in SUBSET Ips : \E refused \in SUBSET (found \ Lasting) :
       Lasting \subseteq found /\ DnsAnswers(found, refused))
  /\ \A i \in Lasting :
       /\ SF_vars(~freedUsed /\ Connected(i))
       /\ SF_vars(~freedUsed /\ (NoneAccepted(i) \/ KeyAccepted(i)))
       /\ SF_vars(~freedUsed /\ ChannelOpened(i))
       /\ SF_vars(~freedUsed /\ Bootstrapped(i))

FairSpec == Spec /\ Fairness
=============================================================================
