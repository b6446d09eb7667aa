---------------------------- MODULE InputSocket -----------------------------
(***************************************************************************)
(* The socket on the host through which applications (games, chats) follow *)
(* the viewers of the session: the list of users the host keeps, the       *)
(* applications that are connected, and the input mode they ask the        *)
(* session daemon for.                                                     *)
(*                                                                         *)
(* An action is a callback of the host's event loop.  Abstractions: an     *)
(* application sends well-formed messages, or is disconnected; keys typed  *)
(* by viewers pass through without changing anything and are left out.     *)
(***************************************************************************)
EXTENDS Naturals, Sequences, FiniteSets

CONSTANTS
  Apps,         \* connections of applications
  Polite        \* do applications subscribe before they set the mirror?

ASSUME AppsAssumption == Polite \in BOOLEAN

VARIABLES
  app,          \* app[a]: an application's connection and its mirror flag
  users,        \* input_users: their ids
  toDaemon,     \* input modes on the way to the daemon
  freedUsed     \* a callback went on with an application it had freed

socketVars == <<app, users, toDaemon, freedUsed>>

NoApp == [at |-> "none", mirror |-> TRUE]
Subscribers(as) == {a \in Apps : as[a].at = "subscribed"}

SocketInit ==
  /\ app = [a \in Apps |-> NoApp] /\ users = {} /\ toDaemon = <<>>
  /\ freedUsed = FALSE

-----------------------------------------------------------------------------
(* tmtv_input_send_mode: what is written without a connection is lost, the   *)
(* encoder is replaced before the next one.                                  *)
Sent(q, up, on, mirror) == IF up THEN Append(q, [on |-> on, mirror |-> mirror]) ELSE q

AppsWithoutQuiet(as, gone, q, up) ==
  /\ app' = [a \in Apps |-> IF a \in gone THEN NoApp ELSE as[a]]
  /\ toDaemon' = q

(* input_app_free for the applications in gone; the last subscriber switches *)
(* the mode off.                                                             *)
AppsWithout(as, gone, q, up) ==
  /\ app' = [a \in Apps |-> IF a \in gone THEN NoApp ELSE as[a]]
  /\ toDaemon' = IF gone \cap Subscribers(as) # {} /\ Subscribers(as) \ gone = {}
                 THEN Sent(q, up, FALSE, TRUE) ELSE q

(* on_input_accept *)
Accept(a) ==
  /\ app[a].at = "none"
  /\ app' = [app EXCEPT ![a] = [at |-> "connected", mirror |-> TRUE]]
  /\ UNCHANGED <<users, toDaemon, freedUsed>>

SubscribeLast(a, up) ==
  /\ app[a].at # "none"
  /\ app' = [app EXCEPT ![a].at = "subscribed"]
  /\ toDaemon' = IF Subscribers(app) = {a} THEN Sent(toDaemon, up, TRUE, app[a].mirror) ELSE toDaemon
  /\ UNCHANGED <<users, freedUsed>>

(* SUBSCRIBE: the list of users, and the mode when it is the only one.       *)
Subscribe(a, up) ==
  /\ app[a].at # "none"
  /\ app' = [app EXCEPT ![a].at = "subscribed"]
  /\ toDaemon' = IF Subscribers(app') = {a} THEN Sent(toDaemon, up, TRUE, app[a].mirror) ELSE toDaemon
  /\ UNCHANGED <<users, freedUsed>>

(* The list cannot be written: the application is freed, and the callback    *)
(* goes on with it.                                                          *)
SubscribeLost(a, up) ==
  /\ app[a].at # "none"
  /\ AppsWithout([app EXCEPT ![a].at = "subscribed"], {a}, toDaemon, up)
  /\ freedUsed' = TRUE
  /\ UNCHANGED users

(* SET_MIRROR: switches the mode on, whoever asks.                           *)
SetMirror(a, mirror, up) ==
  /\ app[a].at \in IF Polite THEN {"subscribed"} ELSE {"connected", "subscribed"}
  /\ app' = [app EXCEPT ![a].mirror = mirror]
  /\ toDaemon' = Sent(toDaemon, up, TRUE, mirror)
  /\ UNCHANGED <<users, freedUsed>>

(* on_app_read: end of file, an error, a malformed message                   *)
AppGone(a, up) ==
  /\ app[a].at # "none"
  /\ AppsWithout(app, {a}, toDaemon, up)
  /\ UNCHANGED <<users, freedUsed>>

(* tmtv_input_on_user_join, tmtv_input_on_user_leave: subscribers that do    *)
(* not take the message are disconnected.                                    *)
UserChange(msg, up) ==
  /\ users' = IF msg.kind = "join" THEN users \cup msg.ids ELSE users \ msg.ids
  /\ \E failed \in SUBSET Subscribers(app) : AppsWithout(app, failed, toDaemon, up)
  /\ UNCHANGED freedUsed

Applications(up) ==
  \E a \in Apps :
    \/ Accept(a) \/ Subscribe(a, up) \/ SubscribeLost(a, up) \/ AppGone(a, up)
    \/ \E mirror \in BOOLEAN : SetMirror(a, mirror, up)
=============================================================================
