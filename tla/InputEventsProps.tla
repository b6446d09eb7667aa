-------------------------- MODULE InputEventsProps --------------------------
(***************************************************************************)
(* What an application on the host can rely on.                            *)
(***************************************************************************)
EXTENDS InputEvents

Message == [kind : {"join", "leave"}, ids : SUBSET Ids]
Mode == [on : BOOLEAN, mirror : BOOLEAN]

ViewerTypes ==
  /\ conn \in [Conns -> [at : Stages, ro : BOOLEAN, id : WebIds]]
  /\ ssh \subseteq Pids
  /\ nextId \in WebIds /\ webSharing \in BOOLEAN
  /\ inputMode \in Mode /\ counts \in [ssh : Nat, web : Nat]
  /\ disowned \subseteq Ids /\ toHost \in Seq(Message)

SocketTypes ==
  /\ app \in [Apps -> [at : {"none", "connected", "subscribed"}, mirror : BOOLEAN]]
  /\ users \subseteq Ids /\ toDaemon \in Seq(Mode) /\ freedUsed \in BOOLEAN

LinkTypes == up \in BOOLEAN /\ conns \in 1..MaxConns /\ (up \/ conns < MaxConns)

(* Every variable has its type; viewers are announced by ids of their own.   *)
TypeOK == ViewerTypes /\ SocketTypes /\ LinkTypes

(* The host will count i among the users, once it has read what is on its    *)
(* way.                                                                      *)
Mentions(m, kind, i) == m.kind = kind /\ i \in m.ids
WillKnow(i) ==
  \/ /\ i \in users
     /\ \A k \in DOMAIN toHost : ~Mentions(toHost[k], "leave", i)
  \/ \E k \in DOMAIN toHost :
       /\ Mentions(toHost[k], "join", i)
       /\ \A m \in DOMAIN toHost : m > k => ~Mentions(toHost[m], "leave", i)

(* What the daemon will do once it has read what is on its way.              *)
WillBeOn == IF toDaemon = <<>> THEN inputMode.on ELSE toDaemon[Len(toDaemon)].on

(* In input mode no viewer that can type is missing from the host's list,    *)
(* whatever happened on the way: but those whose id a POST had that broke    *)
(* off, or another viewer that left.                                         *)
NobodyMissing ==
  inputMode.on => \A i \in Users(conn, ssh) \ disowned : WillKnow(i)

(* A viewer that goes while the daemon is in input mode goes from the host's *)
(* list, too.                                                                *)
LeaveAnnounced ==
  [][inputMode.on /\ inputMode'.on =>
       \A i \in Users(conn, ssh) \ Users(conn, ssh)' : ~WillKnow(i)']_vars

(* While web sharing is off there is not even an unfinished request.         *)
NoWebWithoutSharing == ~webSharing => \A c \in Conns : conn[c].at = "none"

(* Every viewer is shown the number of web viewers.                          *)
WebCountShown == counts.web = Cardinality(WebViewersOf(conn))

(* What everybody is shown of the web viewers is true after every callback,  *)
(* also after one that frees many connections at once.                       *)
WebViewersRight == NoWebWithoutSharing /\ WebCountShown

(* As long as applications subscribe first, the daemon is, or is about to be, *)
(* in input mode for a subscriber only; and for every one, until the         *)
(* connection is lost.                                                       *)
ModeFollowsSubscribers ==
  /\ Polite /\ Subscribers(app) = {} => ~WillBeOn
  /\ up /\ conns = 1 /\ Subscribers(app) # {} => WillBeOn

(* An application that has subscribed learns of each viewer that stays, as   *)
(* long as the connection does.                                              *)
ViewersReachApps ==
  \A i \in Ids :
    up /\ conns = 1 /\ Subscribers(app) # {} /\ i \in Users(conn, ssh)
      ~> \/ i \in users
         \/ i \notin Users(conn, ssh) \/ i \in disowned
         \/ Subscribers(app) = {} \/ ~up \/ freedUsed
=============================================================================
