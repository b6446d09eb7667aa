------------------------- MODULE InputEventsProofs --------------------------
(***************************************************************************)
(* Proofs about InputEvents, for any finite sets of connections and SSH    *)
(* viewers, any applications and any bounds.                               *)
(***************************************************************************)
EXTENDS InputEventsProps, FiniteSetTheorems, SequenceTheorems, TLAPS

LEMMA Constants ==
  /\ IsFiniteSet(Conns) /\ IsFiniteSet(Pids) /\ Pids \subseteq Nat \ {0}
  /\ MaxViewerId \in Nat /\ MaxClients \in Nat
  /\ MaxConns \in Nat \ {0} /\ MaxQueue \in Nat \ {0}
  BY ViewersAssumption, BoundsAssumption

(* Every step is one of these. *)
LEMMA Steps ==
  ASSUME Next
  PROVE  \/ \E c \in Conns :
              /\ up /\ UNCHANGED <<socketVars, linkVars>>
              /\ \/ AcceptFd(c) \/ BadRequest(c) \/ Post(c) \/ PostBody(c) \/ Disconnect(c)
                 \/ \E ro \in BOOLEAN : Watch(c, ro)
         \/ \E enabled \in BOOLEAN : up /\ WebSharing(enabled) /\ UNCHANGED <<socketVars, linkVars>>
         \/ \E p \in Pids : up /\ (SshJoin(p) \/ SshLeave(p)) /\ UNCHANGED <<socketVars, linkVars>>
         \/ AppsStep \/ HostReads \/ DaemonReads \/ Lost \/ Connect
  BY DEF Next, ViewersStep, Viewers, Browser

-----------------------------------------------------------------------------
(* What the callbacks share *)

LEMMA CountTypes ==
  ASSUME NEW cs, NEW s, s \subseteq Pids, BroadcastViewerCount(cs, s)
  PROVE  /\ counts' \in [ssh : Nat, web : Nat]
         /\ counts'.web = Cardinality(WebViewersOf(cs))
<1>1. IsFiniteSet(s) /\ IsFiniteSet(WebViewersOf(cs))
  BY Constants, FS_Subset DEF WebViewersOf
<1>2. Cardinality(s) \in Nat /\ Cardinality(WebViewersOf(cs)) \in Nat
  BY <1>1, FS_CardinalityType
<1> QED
  BY <1>2 DEF BroadcastViewerCount

LEMMA TellTypes ==
  ASSUME NEW kind \in {"join", "leave"}, NEW ids \in SUBSET Ids, toHost \in Seq(Message), Tell(kind, ids)
  PROVE  toHost' \in Seq(Message)
<1>1. [kind |-> kind, ids |-> ids] \in Message
  BY DEF Message
<1> QED
  BY <1>1 DEF Tell

LEMMA IdsNamed ==
  ASSUME ViewerTypes
  PROVE  /\ WebUsers(conn) \subseteq Ids /\ Users(conn, ssh) \subseteq Ids
         /\ \A gone \in SUBSET Conns : Leaving(gone) \subseteq Ids
<1>1. \A c \in Conns : conn[c].id \in WebIds
  BY DEF ViewerTypes
<1>2. \A i \in WebIds : i > 0 => i \in Ids
  BY Constants DEF WebIds, Ids
<1> QED
  BY <1>1, <1>2 DEF WebUsers, WebViewersOf, Users, Leaving, ViewerTypes, Ids

LEMMA BlankTypes ==
  ASSUME NEW stage \in Stages
  PROVE  /\ Blank(stage) \in [at : Stages, ro : BOOLEAN, id : WebIds]
         /\ Blank(stage).at = stage
  BY Constants DEF Blank, WebIds

LEMMA FreeTypes ==
  ASSUME ViewerTypes, NEW gone \in SUBSET Conns, WsClientFree(gone),
         webSharing' \in BOOLEAN, UNCHANGED inputMode
  PROVE  ViewerTypes'
<1> DEFINE rest == [c \in Conns |-> IF c \in gone THEN NoConn ELSE conn[c]]
           left == IF inputMode.on THEN Leaving(gone) ELSE {}
<1>1. NoConn \in [at : Stages, ro : BOOLEAN, id : WebIds]
  BY BlankTypes DEF NoConn, Stages
<1>2. conn' \in [Conns -> [at : Stages, ro : BOOLEAN, id : WebIds]]
  BY <1>1 DEF WsClientFree, ViewerTypes
<1>3. left \in SUBSET Ids
  BY IdsNamed
<1>4. toHost' \in Seq(Message)
  BY <1>3, TellTypes DEF WsClientFree, ViewerTypes
<1>5. disowned' \subseteq Ids
  BY <1>3 DEF WsClientFree, ViewerTypes
<1>6. counts' \in [ssh : Nat, web : Nat]
  BY CountTypes DEF WsClientFree, ViewerTypes
<1> QED
  BY <1>2, <1>4, <1>5, <1>6 DEF WsClientFree, ViewerTypes

LEMMA BecomeTypes ==
  ASSUME ViewerTypes, NEW c \in Conns, NEW new \in [at : Stages, ro : BOOLEAN, id : WebIds], Become(c, new)
  PROVE  ViewerTypes'
  BY DEF Become, ViewerTypes

-----------------------------------------------------------------------------
(* Type correctness *)

LEMMA TypeInit == Init => TypeOK
<1> SUFFICES ASSUME Init PROVE TypeOK
  OBVIOUS
<1>1. NoConn \in [at : Stages, ro : BOOLEAN, id : WebIds]
  BY BlankTypes DEF NoConn, Stages
<1>2. ViewerTypes
  BY <1>1, Constants DEF Init, ViewersInit, ViewerTypes, Mode, WebIds
<1>3. SocketTypes
  <2>1. NoApp \in [at : {"none", "connected", "subscribed"}, mirror : BOOLEAN]
    BY DEF NoApp
  <2>2. app \in [Apps -> [at : {"none", "connected", "subscribed"}, mirror : BOOLEAN]]
    BY <2>1 DEF Init, SocketInit
  <2> QED
    BY <2>2, EmptySeq DEF Init, SocketInit, SocketTypes
<1>4. LinkTypes
  BY Constants DEF Init, LinkTypes
<1> QED
  BY <1>2, <1>3, <1>4 DEF TypeOK

LEMMA HandlePostTypes ==
  ASSUME ViewerTypes, NEW c \in Conns, NEW id \in WebIds, HandlePost(c, id)
  PROVE  ViewerTypes'
<1>1. CASE \E stage \in {"refused", "body"} : Become(c, [at |-> stage, ro |-> FALSE, id |-> id])
  <2>1. PICK stage \in {"refused", "body"} : Become(c, [at |-> stage, ro |-> FALSE, id |-> id])
    BY <1>1
  <2>2. [at |-> stage, ro |-> FALSE, id |-> id] \in [at : Stages, ro : BOOLEAN, id : WebIds]
    BY DEF Stages
  <2> QED
    BY <2>1, <2>2, BecomeTypes
<1>2. CASE Become(c, Blank("head"))
  BY <1>2, BlankTypes, BecomeTypes DEF Stages
<1> QED
  BY <1>1, <1>2 DEF HandlePost

LEMMA BrowserTypes ==
  ASSUME ViewerTypes, NEW c \in Conns,
         AcceptFd(c) \/ BadRequest(c) \/ Post(c) \/ PostBody(c) \/ Disconnect(c)
           \/ \E ro \in BOOLEAN : Watch(c, ro)
  PROVE  ViewerTypes'
<1>1. CASE AcceptFd(c) \/ BadRequest(c)
  <2>1. Become(c, Blank("head")) \/ Become(c, Blank("flush"))
    BY <1>1 DEF AcceptFd, BadRequest
  <2> QED
    BY <2>1, BlankTypes, BecomeTypes DEF Stages
<1>2. CASE Post(c)
  <2>1. CASE \E id \in WebIds : HandlePost(c, id)
    BY <2>1, HandlePostTypes
  <2>2. CASE Become(c, [at |-> "refused", ro |-> TRUE, id |-> 0])
    <3>1. [at |-> "refused", ro |-> TRUE, id |-> 0] \in [at : Stages, ro : BOOLEAN, id : WebIds]
      BY Constants DEF Stages, WebIds
    <3> QED
      BY <2>2, <3>1, BecomeTypes
  <2> QED
    BY <1>2, <2>1, <2>2 DEF Post
<1>3. CASE PostBody(c)
  <2>1. conn[c].id \in WebIds
    BY DEF ViewerTypes
  <2> QED
    BY <1>3, <2>1, HandlePostTypes DEF PostBody
<1>4. CASE Disconnect(c)
  BY <1>4, FreeTypes DEF Disconnect, ViewerTypes
<1>5. CASE \E ro \in BOOLEAN : Watch(c, ro)
  <2>1. PICK ro \in BOOLEAN : Watch(c, ro)
    BY <1>5
  <2>2. nextId + 1 \in WebIds /\ nextId + 1 \in Ids
    BY <2>1, Constants DEF Watch, ViewerTypes, WebIds, Ids
  <2>3. [at |-> "stream", ro |-> ro, id |-> nextId + 1] \in [at : Stages, ro : BOOLEAN, id : WebIds]
    BY <2>2 DEF Stages
  <2>4. conn' \in [Conns -> [at : Stages, ro : BOOLEAN, id : WebIds]]
    BY <2>1, <2>3 DEF Watch, ViewerTypes
  <2>5. counts' \in [ssh : Nat, web : Nat]
    BY <2>1, CountTypes DEF Watch, ViewerTypes
  <2>6. toHost' \in Seq(Message)
    BY <2>1, <2>2, TellTypes DEF Watch, SendUserJoin, ViewerTypes
  <2> QED
    BY <2>1, <2>2, <2>4, <2>5, <2>6 DEF Watch, SendUserJoin, ViewerTypes
<1> QED
  BY <1>1, <1>2, <1>3, <1>4, <1>5

LEMMA SentTypes ==
  ASSUME NEW q \in Seq(Mode), NEW u, NEW on \in BOOLEAN, NEW mirror \in BOOLEAN
  PROVE  Sent(q, u, on, mirror) \in Seq(Mode)
<1>1. [on |-> on, mirror |-> mirror] \in Mode
  BY DEF Mode
<1>2. Append(q, [on |-> on, mirror |-> mirror]) \in Seq(Mode)
  BY <1>1
<1> QED
  BY <1>2 DEF Sent

LEMMA AppsWithoutTypes ==
  ASSUME NEW as \in [Apps -> [at : {"none", "connected", "subscribed"}, mirror : BOOLEAN]],
         NEW gone, NEW q \in Seq(Mode), NEW u, AppsWithout(as, gone, q, u)
  PROVE  /\ app' \in [Apps -> [at : {"none", "connected", "subscribed"}, mirror : BOOLEAN]]
         /\ toDaemon' \in Seq(Mode)
<1>1. NoApp \in [at : {"none", "connected", "subscribed"}, mirror : BOOLEAN]
  BY DEF NoApp
<1>2. app' \in [Apps -> [at : {"none", "connected", "subscribed"}, mirror : BOOLEAN]]
  BY <1>1 DEF AppsWithout
<1>3. toDaemon' \in Seq(Mode)
  BY SentTypes DEF AppsWithout
<1> QED
  BY <1>2, <1>3

LEMMA AppsTypes ==
  ASSUME SocketTypes, NEW u, Applications(u)
  PROVE  SocketTypes'
<1>1. PICK a \in Apps : \/ Accept(a) \/ Subscribe(a, u) \/ SubscribeLost(a, u) \/ AppGone(a, u)
                        \/ \E mirror \in BOOLEAN : SetMirror(a, mirror, u)
  BY DEF Applications
<1>3. app[a].mirror \in BOOLEAN
  BY DEF SocketTypes
<1>4. CASE Accept(a)
  BY <1>4 DEF Accept, SocketTypes
<1>5. CASE Subscribe(a, u)
  <2>1. app' \in [Apps -> [at : {"none", "connected", "subscribed"}, mirror : BOOLEAN]]
    BY <1>5 DEF Subscribe, SocketTypes
  <2>2. toDaemon' \in Seq(Mode)
    BY <1>5, <1>3, SentTypes DEF Subscribe, SocketTypes
  <2> QED
    BY <1>5, <2>1, <2>2 DEF Subscribe, SocketTypes
<1>6. CASE SubscribeLost(a, u)
  <2>1. [app EXCEPT ![a].at = "subscribed"]
          \in [Apps -> [at : {"none", "connected", "subscribed"}, mirror : BOOLEAN]]
    BY DEF SocketTypes
  <2> QED
    BY <1>6, <2>1, AppsWithoutTypes DEF SubscribeLost, SocketTypes
<1>7. CASE AppGone(a, u)
  BY <1>7, AppsWithoutTypes DEF AppGone, SocketTypes
<1>8. CASE \E mirror \in BOOLEAN : SetMirror(a, mirror, u)
  <2>1. PICK mirror \in BOOLEAN : SetMirror(a, mirror, u)
    BY <1>8
  <2>2. app' \in [Apps -> [at : {"none", "connected", "subscribed"}, mirror : BOOLEAN]]
    BY <2>1 DEF SetMirror, SocketTypes
  <2>3. toDaemon' \in Seq(Mode)
    BY <2>1, SentTypes DEF SetMirror, SocketTypes
  <2> QED
    BY <2>1, <2>2, <2>3 DEF SetMirror, SocketTypes
<1> QED
  BY <1>1, <1>4, <1>5, <1>6, <1>7, <1>8

LEMMA TypeStep == TypeOK /\ [Next]_vars => TypeOK'
<1> SUFFICES ASSUME TypeOK, [Next]_vars PROVE TypeOK'
  OBVIOUS
<1> USE DEF TypeOK
<1>1. CASE UNCHANGED vars
  BY <1>1 DEF vars, viewerVars, socketVars, linkVars, ViewerTypes, SocketTypes, LinkTypes
<1>2. ASSUME UNCHANGED <<socketVars, linkVars>> PROVE SocketTypes' /\ LinkTypes'
  BY <1>2 DEF socketVars, linkVars, SocketTypes, LinkTypes
<1>3. ASSUME NEW c \in Conns, UNCHANGED <<socketVars, linkVars>>,
             AcceptFd(c) \/ BadRequest(c) \/ Post(c) \/ PostBody(c) \/ Disconnect(c)
               \/ \E ro \in BOOLEAN : Watch(c, ro)
      PROVE  TypeOK'
  BY <1>2, <1>3, BrowserTypes
<1>4. ASSUME NEW enabled \in BOOLEAN, WebSharing(enabled), UNCHANGED <<socketVars, linkVars>>
      PROVE  TypeOK'
  <2>1. CASE enabled
    BY <1>2, <1>4, <2>1 DEF WebSharing, ViewerTypes
  <2>2. CASE ~enabled
    BY <1>2, <1>4, <2>2, FreeTypes DEF WebSharing
  <2> QED
    BY <2>1, <2>2
<1>5. ASSUME NEW p \in Pids, SshJoin(p), UNCHANGED <<socketVars, linkVars>>
      PROVE  TypeOK'
  <2>1. ssh' \subseteq Pids /\ p \in Ids
    BY <1>5 DEF SshJoin, ViewerTypes, Ids
  <2>2. toHost' \in Seq(Message)
    BY <1>5, <2>1, TellTypes DEF SshJoin, SendUserJoin, ViewerTypes
  <2>3. counts' \in [ssh : Nat, web : Nat]
    BY <1>5, <2>1, CountTypes DEF SshJoin
  <2> QED
    BY <1>2, <1>5, <2>1, <2>2, <2>3 DEF SshJoin, SendUserJoin, ViewerTypes
<1>6. ASSUME NEW p \in Pids, SshLeave(p), UNCHANGED <<socketVars, linkVars>>
      PROVE  TypeOK'
  <2>1. ssh' \subseteq Pids /\ p \in Ids
    BY <1>6 DEF SshLeave, ViewerTypes, Ids
  <2>2. toHost' \in Seq(Message)
    BY <1>6, <2>1, TellTypes DEF SshLeave, ViewerTypes
  <2>3. counts' \in [ssh : Nat, web : Nat]
    BY <1>6, CountTypes DEF SshLeave, ViewerTypes
  <2> QED
    BY <1>2, <1>6, <2>1, <2>2, <2>3 DEF SshLeave, ViewerTypes
<1>7. CASE AppsStep
  BY <1>7, AppsTypes DEF AppsStep, viewerVars, linkVars, ViewerTypes, LinkTypes
<1>8. CASE HostReads
  <2>1. Head(toHost) \in Message /\ Tail(toHost) \in Seq(Message)
    BY <1>8, HeadTailProperties DEF HostReads, ViewerTypes
  <2>2. Head(toHost).ids \subseteq Ids
    BY <2>1 DEF Message
  <2>3. SocketTypes'
    BY <1>8, <2>2, AppsWithoutTypes DEF HostReads, UserChange, SocketTypes
  <2> QED
    BY <1>8, <2>1, <2>3 DEF HostReads, linkVars, ViewerTypes, LinkTypes
<1>9. CASE DaemonReads
  <2>1. Head(toDaemon) \in Mode /\ Tail(toDaemon) \in Seq(Mode)
    BY <1>9, HeadTailProperties DEF DaemonReads, SocketTypes
  <2>2. toHost' \in Seq(Message) /\ disowned' \subseteq Ids
    BY <1>9, IdsNamed, TellTypes DEF DaemonReads, InputMode, ViewerTypes
  <2> QED
    BY <1>9, <2>1, <2>2 DEF DaemonReads, InputMode, linkVars, ViewerTypes, SocketTypes, LinkTypes
<1>10. CASE Lost
  <2>1. NoConn \in [at : Stages, ro : BOOLEAN, id : WebIds]
    BY BlankTypes DEF NoConn, Stages
  <2>2. ViewerTypes'
    BY <1>10, <2>1, Constants DEF Lost, NewDaemon, ViewerTypes, Mode, WebIds
  <2> QED
    BY <1>10, <2>2, EmptySeq DEF Lost, SocketTypes, LinkTypes
<1>11. CASE Connect
  <2>1. ViewerTypes' /\ SocketTypes'
    BY <1>11 DEF Connect, viewerVars, socketVars, ViewerTypes, SocketTypes
  <2>2. LinkTypes'
    BY <1>11, Constants DEF Connect, LinkTypes
  <2> QED
    BY <2>1, <2>2
<1> QED
  BY Steps, <1>1, <1>3, <1>4, <1>5, <1>6, <1>7, <1>8, <1>9, <1>10, <1>11

(* Every variable keeps its type: nobody is announced without an id, and no *)
(* callback leaves a connection in a stage that it cannot be in.            *)
THEOREM TypeCorrect == Spec => []TypeOK
  BY TypeInit, TypeStep, PTL DEF Spec
-----------------------------------------------------------------------------
(* Web sharing, and the number of web viewers *)

LEMMA FreeClears ==
  ASSUME NEW gone \in SUBSET Conns, WsClientFree(gone)
  PROVE  \A c \in Conns : conn'[c] = IF c \in gone THEN NoConn ELSE conn[c]
  BY DEF WsClientFree

LEMMA SharingInit == Init => NoWebWithoutSharing
  BY DEF Init, ViewersInit, NoWebWithoutSharing, NoConn, Blank

LEMMA SharingStep == TypeOK /\ NoWebWithoutSharing /\ [Next]_vars => NoWebWithoutSharing'
<1> SUFFICES ASSUME TypeOK, NoWebWithoutSharing, [Next]_vars PROVE NoWebWithoutSharing'
  OBVIOUS
<1>t. conn \in [Conns -> [at : Stages, ro : BOOLEAN, id : WebIds]] /\ NoConn.at = "none"
  BY DEF TypeOK, ViewerTypes, NoConn, Blank
<1>1. ASSUME UNCHANGED <<conn, webSharing>> PROVE NoWebWithoutSharing'
  BY <1>1 DEF NoWebWithoutSharing
<1>2. ASSUME NEW c \in Conns, NEW new, conn[c].at # "none" \/ webSharing, Become(c, new)
      PROVE  NoWebWithoutSharing'
  BY <1>2, <1>t DEF Become, NoWebWithoutSharing
<1>3. ASSUME NEW c \in Conns,
             AcceptFd(c) \/ BadRequest(c) \/ Post(c) \/ PostBody(c)
      PROVE  NoWebWithoutSharing'
  <2>1. \E new : Become(c, new)
    BY <1>3 DEF AcceptFd, BadRequest, Post, PostBody, HandlePost
  <2>2. conn[c].at # "none" \/ webSharing
    BY <1>3 DEF AcceptFd, BadRequest, Post, PostBody
  <2> QED
    BY <2>1, <2>2, <1>2
<1>4. ASSUME NEW c \in Conns, Disconnect(c) PROVE NoWebWithoutSharing'
  BY <1>4, <1>t, FreeClears DEF Disconnect, NoWebWithoutSharing
<1>5. ASSUME NEW c \in Conns, NEW ro \in BOOLEAN, Watch(c, ro) PROVE NoWebWithoutSharing'
  BY <1>5 DEF Watch, NoWebWithoutSharing
<1>6. ASSUME NEW enabled \in BOOLEAN, WebSharing(enabled) PROVE NoWebWithoutSharing'
  <2>1. CASE enabled
    BY <1>6, <2>1 DEF WebSharing, NoWebWithoutSharing
  <2>2. CASE ~enabled
    <3> DEFINE gone == {c \in Conns : conn[c].at # "none"}
    <3>1. WsClientFree(gone)
      BY <1>6, <2>2 DEF WebSharing
    <3> HIDE DEF gone
    <3>2. \A c \in Conns : conn'[c] = IF c \in gone THEN NoConn ELSE conn[c]
      BY <3>1, FreeClears DEF gone
    <3> QED
      BY <3>2, <1>t DEF gone, NoWebWithoutSharing
  <2> QED
    BY <2>1, <2>2
<1>7. CASE Lost
  BY <1>7, <1>t DEF Lost, NewDaemon, NoWebWithoutSharing
<1>8. CASE UNCHANGED vars \/ AppsStep \/ HostReads \/ DaemonReads \/ Connect
  BY <1>8, <1>1 DEF vars, viewerVars, AppsStep, HostReads, DaemonReads, InputMode, Connect
<1>9. ASSUME NEW p \in Pids, SshJoin(p) \/ SshLeave(p) PROVE NoWebWithoutSharing'
  BY <1>9, <1>1 DEF SshJoin, SshLeave
<1> QED
  BY Steps, <1>3, <1>4, <1>5, <1>6, <1>7, <1>8, <1>9

(* Once the host has switched web sharing off (tmate_disconnect_ws_clients)  *)
(* not even an unfinished request is left, and none can come in.             *)
THEOREM SharingEnds == Spec => []NoWebWithoutSharing
  BY TypeCorrect, SharingInit, SharingStep, PTL DEF Spec

(* A connection that is no viewer before and after changes no count.         *)
LEMMA SameViewers ==
  ASSUME TypeOK, NEW c \in Conns, NEW new, conn[c].at # "stream", new.at # "stream",
         conn' = [conn EXCEPT ![c] = new]
  PROVE  WebViewersOf(conn') = WebViewersOf(conn)
  BY DEF WebViewersOf, TypeOK, ViewerTypes

LEMMA NoNewViewer ==
  ASSUME NEW c \in Conns, AcceptFd(c) \/ BadRequest(c) \/ Post(c) \/ PostBody(c)
  PROVE  conn[c].at # "stream" /\ \E new : Become(c, new) /\ new.at # "stream"
<1>1. conn[c].at # "stream"
  BY DEF AcceptFd, BadRequest, Post, PostBody
<1>2. \A stage : Blank(stage).at = stage
  BY DEF Blank
<1>3. ASSUME NEW id, HandlePost(c, id) PROVE \E new : Become(c, new) /\ new.at # "stream"
  <2>1. CASE \E stage \in {"refused", "body"} : Become(c, [at |-> stage, ro |-> FALSE, id |-> id])
    <3>1. PICK stage \in {"refused", "body"} : Become(c, [at |-> stage, ro |-> FALSE, id |-> id])
      BY <2>1
    <3>2. [at |-> stage, ro |-> FALSE, id |-> id].at # "stream"
      OBVIOUS
    <3> QED
      BY <3>1, <3>2
  <2>2. CASE Become(c, Blank("head"))
    BY <1>2, <2>2
  <2> QED
    BY <1>3, <2>1, <2>2 DEF HandlePost
<1>4. CASE AcceptFd(c) \/ BadRequest(c)
  BY <1>1, <1>2, <1>4 DEF AcceptFd, BadRequest
<1>5. CASE PostBody(c)
  BY <1>1, <1>3, <1>5 DEF PostBody
<1>6. CASE Post(c)
  <2>1. CASE \E id \in WebIds : HandlePost(c, id)
    BY <1>1, <1>3, <2>1
  <2>2. CASE Become(c, [at |-> "refused", ro |-> TRUE, id |-> 0])
    <3>1. [at |-> "refused", ro |-> TRUE, id |-> 0].at # "stream"
      OBVIOUS
    <3> QED
      BY <1>1, <2>2, <3>1
  <2> QED
    BY <1>6, <2>1, <2>2 DEF Post
<1> QED
  BY <1>4, <1>5, <1>6

LEMMA CountInit == Init => WebCountShown
<1> SUFFICES ASSUME Init PROVE WebCountShown
  OBVIOUS
<1>1. WebViewersOf(conn) = {}
  BY DEF Init, ViewersInit, WebViewersOf, NoConn, Blank
<1> QED
  BY <1>1, FS_EmptySet DEF Init, ViewersInit, WebCountShown

LEMMA CountFree ==
  ASSUME TypeOK, WebCountShown, NEW gone \in SUBSET Conns, WsClientFree(gone)
  PROVE  WebCountShown'
<1> DEFINE rest == [c \in Conns |-> IF c \in gone THEN NoConn ELSE conn[c]]
<1>1. CASE \E c \in gone : HandshakeDone(c)
  <2>1. BroadcastViewerCount(rest, ssh) /\ conn' = rest
    BY <1>1 DEF WsClientFree
  <2>2. counts'.web = Cardinality(WebViewersOf(rest))
    BY <2>1, CountTypes DEF TypeOK, ViewerTypes
  <2> QED
    BY <2>1, <2>2 DEF WebCountShown
<1>2. CASE ~\E c \in gone : HandshakeDone(c)
  <2>1. conn' = rest /\ counts' = counts
    BY <1>2 DEF WsClientFree
  <2>2. WebViewersOf(rest) = WebViewersOf(conn)
    BY <1>2 DEF WebViewersOf, HandshakeDone, NoConn, Blank
  <2> QED
    BY <2>1, <2>2 DEF WebCountShown
<1> QED
  BY <1>1, <1>2

LEMMA CountStep == TypeOK /\ WebCountShown /\ [Next]_vars => WebCountShown'
<1> SUFFICES ASSUME TypeOK, WebCountShown, [Next]_vars PROVE WebCountShown'
  OBVIOUS
<1>1. ASSUME UNCHANGED <<conn, counts>> PROVE WebCountShown'
  BY <1>1 DEF WebCountShown
<1>2. ASSUME NEW c \in Conns, NEW new, Become(c, new), conn[c].at # "stream", new.at # "stream"
      PROVE  WebCountShown'
  <2>1. WebViewersOf(conn') = WebViewersOf(conn) /\ counts' = counts
    BY <1>2, SameViewers DEF Become
  <2> QED
    BY <2>1 DEF WebCountShown
<1>3. ASSUME NEW c \in Conns, AcceptFd(c) \/ BadRequest(c) \/ Post(c) \/ PostBody(c)
      PROVE  WebCountShown'
  BY <1>2, <1>3, NoNewViewer
<1>4. ASSUME NEW c \in Conns, Disconnect(c) PROVE WebCountShown'
  BY <1>4, CountFree DEF Disconnect
<1>5. ASSUME NEW c \in Conns, NEW ro \in BOOLEAN, Watch(c, ro) PROVE WebCountShown'
  <2>1. counts'.web = Cardinality(WebViewersOf(conn'))
    BY <1>5, CountTypes DEF Watch, TypeOK, ViewerTypes
  <2> QED
    BY <2>1 DEF WebCountShown
<1>6. ASSUME NEW enabled \in BOOLEAN, WebSharing(enabled) PROVE WebCountShown'
  <2>1. CASE enabled
    BY <1>6, <2>1, <1>1 DEF WebSharing
  <2>2. CASE ~enabled
    BY <1>6, <2>2, CountFree DEF WebSharing
  <2> QED
    BY <2>1, <2>2
<1>7. CASE Lost
  <2>1. WebViewersOf(conn') = {}
    BY <1>7 DEF Lost, NewDaemon, WebViewersOf, NoConn, Blank
  <2> QED
    BY <1>7, <2>1, FS_EmptySet DEF Lost, NewDaemon, WebCountShown
<1>8. CASE UNCHANGED vars \/ AppsStep \/ HostReads \/ DaemonReads \/ Connect
  BY <1>8, <1>1 DEF vars, viewerVars, AppsStep, HostReads, DaemonReads, InputMode, Connect
<1>9. ASSUME NEW p \in Pids, SshJoin(p) \/ SshLeave(p) PROVE WebCountShown'
  <2>1. conn' = conn /\ ssh \subseteq Pids
    BY <1>9 DEF SshJoin, SshLeave, TypeOK, ViewerTypes
  <2>2. CASE SshJoin(p)
    <3>1. ssh' \subseteq Pids /\ BroadcastViewerCount(conn, ssh')
      BY <2>1, <2>2 DEF SshJoin
    <3> QED
      BY <2>1, <3>1, CountTypes DEF WebCountShown
  <2>3. CASE SshLeave(p)
    BY <2>1, <2>3, CountTypes DEF SshLeave, WebCountShown
  <2> QED
    BY <1>9, <2>2, <2>3
<1> QED
  BY Steps, <1>3, <1>4, <1>5, <1>6, <1>7, <1>8, <1>9

(* The number of web viewers that everybody is shown is right after every    *)
(* callback, whichever way a connection comes or goes.                       *)
THEOREM CountRight == Spec => []WebCountShown
  BY TypeCorrect, CountInit, CountStep, PTL DEF Spec

(* Web viewers exist while web sharing is on only, and are counted.          *)
THEOREM WebViewersAreRight == Spec => []WebViewersRight
<1>1. NoWebWithoutSharing /\ WebCountShown => WebViewersRight
  BY DEF WebViewersRight
<1> QED
  BY <1>1, SharingEnds, CountRight, PTL
-----------------------------------------------------------------------------
(* What the host will know *)

LEMMA AppendParts ==
  ASSUME NEW S, NEW q \in Seq(S), NEW m \in S
  PROVE  /\ Append(q, m) \in Seq(S) /\ Len(q) \in Nat /\ Len(Append(q, m)) = Len(q) + 1
         /\ DOMAIN q = 1..Len(q) /\ DOMAIN Append(q, m) = 1..Len(q) + 1
         /\ \A k \in 1..Len(q) : Append(q, m)[k] = q[k]
         /\ Append(q, m)[Len(q) + 1] = m
<1>1. Append(q, m) \in Seq(S) /\ Len(Append(q, m)) = Len(q) + 1
  OBVIOUS
<1>2. DOMAIN Append(q, m) = 1..Len(q) + 1 /\ DOMAIN q = 1..Len(q) /\ Len(q) \in Nat
  BY <1>1, LenProperties
<1>3. \A k \in 1..Len(q) : Append(q, m)[k] = q[k]
  OBVIOUS
<1>4. Append(q, m)[Len(q) + 1] = m
  OBVIOUS
<1> QED
  BY <1>1, <1>2, <1>3, <1>4

LEMMA KnowKept ==
  ASSUME toHost \in Seq(Message), NEW m \in Message, NEW i, WillKnow(i),
         toHost' = Append(toHost, m), users' = users, ~Mentions(m, "leave", i)
  PROVE  WillKnow(i)'
<1>1. /\ Len(toHost) \in Nat
      /\ DOMAIN toHost = 1..Len(toHost) /\ DOMAIN toHost' = 1..Len(toHost) + 1
      /\ \A k \in 1..Len(toHost) : toHost'[k] = toHost[k]
      /\ toHost'[Len(toHost) + 1] = m
  BY AppendParts
<1>2. \A k \in DOMAIN toHost' : k \in DOMAIN toHost \/ k = Len(toHost) + 1
  BY <1>1
<1>3. CASE i \in users /\ \A k \in DOMAIN toHost : ~Mentions(toHost[k], "leave", i)
  BY <1>1, <1>2, <1>3 DEF WillKnow
<1>4. CASE \E k \in DOMAIN toHost :
             /\ Mentions(toHost[k], "join", i)
             /\ \A n \in DOMAIN toHost : n > k => ~Mentions(toHost[n], "leave", i)
  BY <1>1, <1>2, <1>4 DEF WillKnow
<1> QED
  BY <1>3, <1>4 DEF WillKnow

LEMMA KnowJoined ==
  ASSUME toHost \in Seq(Message), NEW m \in Message, NEW i, Mentions(m, "join", i),
         toHost' = Append(toHost, m)
  PROVE  WillKnow(i)'
<1>1. /\ Len(toHost) \in Nat
      /\ DOMAIN toHost' = 1..Len(toHost) + 1
      /\ toHost'[Len(toHost) + 1] = m
  BY AppendParts
<1> QED
  BY <1>1 DEF WillKnow

LEMMA KnowNot ==
  ASSUME toHost \in Seq(Message), NEW m \in Message, NEW i, Mentions(m, "leave", i),
         toHost' = Append(toHost, m)
  PROVE  ~WillKnow(i)'
<1>1. /\ Len(toHost) \in Nat
      /\ DOMAIN toHost' = 1..Len(toHost) + 1
      /\ toHost'[Len(toHost) + 1] = m
  BY AppendParts
<1>2. ~Mentions(m, "join", i)
  BY DEF Mentions
<1> QED
  BY <1>1, <1>2 DEF WillKnow

LEMMA KnowRead ==
  ASSUME toHost \in Seq(Message), HostReads, NEW i, WillKnow(i)
  PROVE  WillKnow(i)'
<1> DEFINE h == Head(toHost)
<1>1. /\ Len(toHost) \in Nat \ {0} /\ DOMAIN toHost = 1..Len(toHost)
      /\ toHost' \in Seq(Message) /\ DOMAIN toHost' = 1..Len(toHost) - 1
      /\ \A k \in 1..Len(toHost) - 1 : toHost'[k] = toHost[k + 1]
      /\ h = toHost[1] /\ h \in Message
  <2>1. toHost # <<>> /\ toHost' = Tail(toHost)
    BY DEF HostReads
  <2>2. Tail(toHost) \in Seq(Message) /\ Len(Tail(toHost)) = Len(toHost) - 1
        /\ Len(toHost) \in Nat \ {0} /\ h \in Message /\ h = toHost[1]
    BY <2>1, HeadTailProperties, EmptySeq
  <2>3. \A k \in 1..Len(toHost) - 1 : Tail(toHost)[k] = toHost[k + 1]
    BY <2>1, <2>2
  <2> QED
    BY <2>1, <2>2, <2>3, LenProperties
<1>2. users' = IF h.kind = "join" THEN users \cup h.ids ELSE users \ h.ids
  BY DEF HostReads, UserChange
<1> HIDE DEF h
<1>3. \A k \in DOMAIN toHost' : k + 1 \in DOMAIN toHost
  BY <1>1
<1>4. h.kind \in {"join", "leave"} /\ 1 \in DOMAIN toHost
  BY <1>1 DEF Message
<1>5. CASE i \in users /\ \A k \in DOMAIN toHost : ~Mentions(toHost[k], "leave", i)
  <2>1. i \in users'
    BY <1>1, <1>2, <1>4, <1>5 DEF Mentions
  <2>2. \A k \in DOMAIN toHost' : ~Mentions(toHost'[k], "leave", i)
    BY <1>1, <1>3, <1>5
  <2> QED
    BY <2>1, <2>2 DEF WillKnow
<1>6. CASE \E k \in DOMAIN toHost :
             /\ Mentions(toHost[k], "join", i)
             /\ \A n \in DOMAIN toHost : n > k => ~Mentions(toHost[n], "leave", i)
  <2>1. PICK k \in DOMAIN toHost :
               /\ Mentions(toHost[k], "join", i)
               /\ \A n \in DOMAIN toHost : n > k => ~Mentions(toHost[n], "leave", i)
    BY <1>6
  <2>2. CASE k = 1
    <3>1. i \in users'
      BY <1>1, <1>2, <2>1, <2>2 DEF Mentions
    <3>2. \A n \in DOMAIN toHost' : ~Mentions(toHost'[n], "leave", i)
      BY <1>1, <1>3, <2>1, <2>2
    <3> QED
      BY <3>1, <3>2 DEF WillKnow
  <2>3. CASE k # 1
    <3>1. k - 1 \in DOMAIN toHost' /\ toHost'[k - 1] = toHost[k]
      BY <1>1, <2>3
    <3>2. \A n \in DOMAIN toHost' : n > k - 1 => ~Mentions(toHost'[n], "leave", i)
      BY <1>1, <1>3, <2>1, <3>1
    <3> QED
      BY <2>1, <3>1, <3>2 DEF WillKnow
  <2> QED
    BY <2>2, <2>3
<1> QED
  BY <1>5, <1>6 DEF WillKnow
-----------------------------------------------------------------------------
(* Who is announced, and who is announced to have left *)

(* A connection that is no viewer before and after is no user, either.       *)
LEMMA SameUsers ==
  ASSUME TypeOK, NEW c \in Conns, NEW new, conn[c].at # "stream", new.at # "stream",
         conn' = [conn EXCEPT ![c] = new]
  PROVE  WebUsers(conn') = WebUsers(conn)
<1>1. WebViewersOf(conn') = WebViewersOf(conn)
  BY SameViewers
<1>2. \A d \in WebViewersOf(conn) : conn'[d] = conn[d]
  BY DEF WebViewersOf, TypeOK, ViewerTypes
<1> QED
  BY <1>1, <1>2 DEF WebUsers

LEMMA BrowserUsers ==
  ASSUME TypeOK, NEW c \in Conns, AcceptFd(c) \/ BadRequest(c) \/ Post(c) \/ PostBody(c)
  PROVE  /\ UNCHANGED <<ssh, inputMode, disowned, toHost>>
         /\ Users(conn', ssh') = Users(conn, ssh)
<1> QED
  BY NoNewViewer, SameUsers DEF Become, Users

(* A viewer whose connection is freed is one of those that leave.            *)
LEMMA FreeUsers ==
  ASSUME TypeOK, NEW gone \in SUBSET Conns, WsClientFree(gone)
  PROVE  /\ Users(conn', ssh') \subseteq Users(conn, ssh)
         /\ Users(conn, ssh) \ Users(conn', ssh') \subseteq Leaving(gone)
<1>1. \A c \in Conns : conn'[c] = IF c \in gone THEN NoConn ELSE conn[c]
  BY FreeClears
<1>2. ssh' = ssh /\ NoConn.at # "stream"
  BY DEF WsClientFree, NoConn, Blank
<1>3. WebViewersOf(conn') = WebViewersOf(conn) \ gone
  BY <1>1, <1>2 DEF WebViewersOf
<1>4. WebUsers(conn') \subseteq WebUsers(conn)
  BY <1>1, <1>3 DEF WebUsers, WebViewersOf
<1>5. WebUsers(conn) \ WebUsers(conn') \subseteq Leaving(gone)
  <2> SUFFICES ASSUME NEW c \in WebViewersOf(conn), ~conn[c].ro, conn[c].id > 0,
                      conn[c].id \notin WebUsers(conn')
               PROVE  conn[c].id \in Leaving(gone)
    BY DEF WebUsers
  <2>1. c \in gone
    BY <1>1, <1>3 DEF WebUsers, WebViewersOf
  <2>2. HandshakeDone(c)
    BY DEF WebViewersOf, HandshakeDone
  <2> QED
    BY <2>1, <2>2 DEF Leaving
<1> QED
  BY <1>2, <1>4, <1>5 DEF Users

LEMMA LeaveMessage ==
  ASSUME NEW kind \in {"join", "leave"}, NEW ids \in SUBSET Ids
  PROVE  [kind |-> kind, ids |-> ids] \in Message
  BY DEF Message

LEMMA LeaveAnnouncedStep == TypeOK /\ [Next]_vars => [inputMode.on /\ inputMode'.on =>
       \A i \in Users(conn, ssh) \ Users(conn, ssh)' : ~WillKnow(i)']_vars
<1> SUFFICES ASSUME TypeOK, Next, inputMode.on, inputMode'.on,
                    NEW i \in Users(conn, ssh), i \notin Users(conn', ssh')
             PROVE  ~WillKnow(i)'
  BY DEF vars, viewerVars, Users
<1>t. toHost \in Seq(Message) /\ ViewerTypes
  BY DEF TypeOK, ViewerTypes
<1>1. ASSUME NEW gone \in SUBSET Conns, WsClientFree(gone) PROVE ~WillKnow(i)'
  <2>1. i \in Leaving(gone) /\ Leaving(gone) \in SUBSET Ids
    BY <1>1, <1>t, FreeUsers, IdsNamed
  <2>2. toHost' = Append(toHost, [kind |-> "leave", ids |-> Leaving(gone)])
    BY <1>1, <2>1 DEF WsClientFree, Tell
  <2>3. Mentions([kind |-> "leave", ids |-> Leaving(gone)], "leave", i)
    BY <2>1 DEF Mentions
  <2> QED
    BY <1>t, <2>1, <2>2, <2>3, KnowNot, LeaveMessage
<1>2. ASSUME NEW c \in Conns,
             \/ AcceptFd(c) \/ BadRequest(c) \/ Post(c) \/ PostBody(c) \/ Disconnect(c)
             \/ \E ro \in BOOLEAN : Watch(c, ro)
      PROVE  ~WillKnow(i)'
  <2>1. CASE AcceptFd(c) \/ BadRequest(c) \/ Post(c) \/ PostBody(c)
    BY <2>1, BrowserUsers
  <2>2. CASE Disconnect(c)
    BY <2>2, <1>1 DEF Disconnect
  <2>3. ASSUME NEW ro \in BOOLEAN, Watch(c, ro) PROVE FALSE
    <3>1. \A d \in WebViewersOf(conn) : d # c /\ conn'[d] = conn[d]
      BY <2>3, <1>t DEF Watch, WebViewersOf, ViewerTypes
    <3>2. WebUsers(conn) \subseteq WebUsers(conn') /\ ssh' = ssh
      BY <2>3, <3>1 DEF WebUsers, WebViewersOf, Watch
    <3> QED
      BY <3>2 DEF Users
  <2> QED
    BY <1>2, <2>1, <2>2, <2>3
<1>3. ASSUME NEW enabled \in BOOLEAN, WebSharing(enabled) PROVE ~WillKnow(i)'
  <2>1. CASE enabled
    BY <1>3, <2>1 DEF WebSharing, Users
  <2>2. CASE ~enabled
    BY <1>3, <2>2, <1>1 DEF WebSharing
  <2> QED
    BY <2>1, <2>2
<1>4. ASSUME NEW p \in Pids, SshJoin(p) PROVE FALSE
  BY <1>4 DEF SshJoin, Users
<1>5. ASSUME NEW p \in Pids, SshLeave(p) PROVE ~WillKnow(i)'
  <2>1. i = p
    BY <1>5 DEF SshLeave, Users
  <2>2. toHost' = Append(toHost, [kind |-> "leave", ids |-> {p}]) /\ {p} \in SUBSET Ids
    BY <1>5 DEF SshLeave, Tell, Ids
  <2>3. Mentions([kind |-> "leave", ids |-> {p}], "leave", i)
    BY <2>1 DEF Mentions
  <2> QED
    BY <1>t, <2>2, <2>3, KnowNot, LeaveMessage
<1>6. CASE Lost
  BY <1>6 DEF Lost, NewDaemon
<1>7. CASE AppsStep \/ HostReads \/ DaemonReads \/ Connect
  BY <1>7 DEF viewerVars, AppsStep, HostReads, DaemonReads, InputMode, Connect, Users
<1> QED
  BY Steps, <1>2, <1>3, <1>4, <1>5, <1>6, <1>7

(* Whoever stops watching while the daemon is in input mode is struck from   *)
(* the host's list: by ws_client_free or tmate_notify_client_left.           *)
THEOREM LeavesAnnounced == Spec => LeaveAnnounced
<1>1. TypeOK /\ [Next]_vars => [inputMode.on /\ inputMode'.on =>
        \A i \in Users(conn, ssh) \ Users(conn, ssh)' : ~WillKnow(i)']_vars
  BY LeaveAnnouncedStep
<1> QED
  BY <1>1, TypeCorrect, PTL DEF Spec, LeaveAnnounced
-----------------------------------------------------------------------------
(* Nobody is missing *)

LEMMA MissingInit == Init => NobodyMissing
  BY DEF Init, ViewersInit, NobodyMissing

(* Telling of a leave of others, or of any join, takes nobody off the list.  *)
LEMMA KnowTold ==
  ASSUME toHost \in Seq(Message), users' = users, NEW i, WillKnow(i),
         NEW kind \in {"join", "leave"}, NEW ids \in SUBSET Ids, Tell(kind, ids),
         kind = "join" \/ i \notin ids
  PROVE  WillKnow(i)'
<1>1. CASE ids = {}
  BY <1>1 DEF Tell, WillKnow
<1>2. CASE ids # {}
  <2>1. toHost' = Append(toHost, [kind |-> kind, ids |-> ids])
    BY <1>2 DEF Tell
  <2>2. ~Mentions([kind |-> kind, ids |-> ids], "leave", i)
    BY DEF Mentions
  <2> QED
    BY <2>1, <2>2, KnowKept, LeaveMessage
<1> QED
  BY <1>1, <1>2

LEMMA KnowJoin ==
  ASSUME toHost \in Seq(Message), NEW ids \in SUBSET Ids, Tell("join", ids), NEW i \in ids
  PROVE  WillKnow(i)'
<1>1. toHost' = Append(toHost, [kind |-> "join", ids |-> ids])
  BY DEF Tell
<1>2. Mentions([kind |-> "join", ids |-> ids], "join", i)
  BY DEF Mentions
<1> QED
  BY <1>1, <1>2, KnowJoined, LeaveMessage

LEMMA MissingFree ==
  ASSUME TypeOK, NobodyMissing, NEW gone \in SUBSET Conns, WsClientFree(gone),
         UNCHANGED <<inputMode, users>>
  PROVE  NobodyMissing'
<1> SUFFICES ASSUME inputMode.on, NEW i \in Users(conn', ssh'), i \notin disowned'
             PROVE  WillKnow(i)'
  BY DEF NobodyMissing, Users
<1>1. Leaving(gone) \in SUBSET Ids /\ toHost \in Seq(Message)
  BY IdsNamed DEF TypeOK, ViewerTypes
<1>2. Tell("leave", Leaving(gone))
  BY DEF WsClientFree
<1>3. i \in Users(conn, ssh)
  BY FreeUsers
<1>4. disowned' = (disowned \ (Users(conn, ssh) \ Users(conn', ssh')))
                     \cup (Leaving(gone) \cap Users(conn', ssh'))
  BY DEF WsClientFree
<1>5. i \notin disowned /\ i \notin Leaving(gone)
  BY <1>3, <1>4
<1>6. WillKnow(i)
  BY <1>3, <1>5 DEF NobodyMissing
<1> QED
  BY <1>1, <1>2, <1>5, <1>6, KnowTold

LEMMA MissingStep == TypeOK /\ NobodyMissing /\ [Next]_vars => NobodyMissing'
<1> SUFFICES ASSUME TypeOK, NobodyMissing, [Next]_vars PROVE NobodyMissing'
  OBVIOUS
<1>t. toHost \in Seq(Message) /\ ViewerTypes
  BY DEF TypeOK, ViewerTypes
<1>1. ASSUME UNCHANGED <<inputMode, disowned, toHost, users>>,
             Users(conn', ssh') = Users(conn, ssh)
      PROVE  NobodyMissing'
  BY <1>1 DEF NobodyMissing, WillKnow, Users
<1>2. ASSUME NEW ids \in SUBSET Ids, SendUserJoin(ids), UNCHANGED <<inputMode, users>>,
             Users(conn', ssh') \subseteq Users(conn, ssh) \cup ids
      PROVE  NobodyMissing'
  <2> SUFFICES ASSUME inputMode.on, NEW i \in Users(conn', ssh'), i \notin disowned'
               PROVE  WillKnow(i)'
    BY <1>2 DEF NobodyMissing, Users
  <2>1. Tell("join", ids) /\ disowned' = disowned \ ids
    BY <1>2 DEF SendUserJoin
  <2>2. CASE i \in ids
    BY <1>t, <2>1, <2>2, KnowJoin
  <2>3. CASE i \notin ids
    <3>1. WillKnow(i)
      BY <1>2, <2>1, <2>3 DEF NobodyMissing
    <3> QED
      BY <1>t, <1>2, <2>1, <3>1, KnowTold
  <2> QED
    BY <2>2, <2>3
<1>3. ASSUME NEW c \in Conns, UNCHANGED users,
             \/ AcceptFd(c) \/ BadRequest(c) \/ Post(c) \/ PostBody(c) \/ Disconnect(c)
             \/ \E ro \in BOOLEAN : Watch(c, ro)
      PROVE  NobodyMissing'
  <2>1. CASE AcceptFd(c) \/ BadRequest(c) \/ Post(c) \/ PostBody(c)
    BY <1>1, <1>3, <2>1, BrowserUsers
  <2>2. CASE Disconnect(c)
    BY <1>3, <2>2, MissingFree DEF Disconnect
  <2>3. ASSUME NEW ro \in BOOLEAN, Watch(c, ro) PROVE NobodyMissing'
    <3> DEFINE ids == IF ro THEN {} ELSE {nextId + 1}
    <3>1. ids \in SUBSET Ids
      BY <2>3, <1>t, Constants DEF Watch, ViewerTypes, WebIds, Ids
    <3>2. conn' = [conn EXCEPT ![c] = [at |-> "stream", ro |-> ro, id |-> nextId + 1]] /\ ssh' = ssh
      BY <2>3 DEF Watch
    <3>3. WebUsers(conn') \subseteq WebUsers(conn) \cup ids
      <4> SUFFICES ASSUME NEW d \in WebViewersOf(conn'), ~conn'[d].ro, conn'[d].id > 0
                   PROVE  conn'[d].id \in WebUsers(conn) \cup ids
        BY DEF WebUsers
      <4>1. CASE d = c
        <5>1. conn'[d] = [at |-> "stream", ro |-> ro, id |-> nextId + 1]
          BY <3>2, <4>1, <1>t DEF ViewerTypes
        <5>2. conn'[d].id = nextId + 1 /\ conn'[d].ro = ro
          BY <5>1
        <5> QED
          BY <5>2
      <4>2. CASE d # c
        <5>1. conn'[d] = conn[d] /\ d \in WebViewersOf(conn)
          BY <3>2, <4>2, <1>t DEF WebViewersOf, ViewerTypes
        <5> QED
          BY <5>1 DEF WebUsers
      <4> QED
        BY <4>1, <4>2
    <3>4. Users(conn', ssh') \subseteq Users(conn, ssh) \cup ids
      BY <3>2, <3>3 DEF Users
    <3>5. SendUserJoin(ids) /\ UNCHANGED inputMode
      BY <2>3 DEF Watch
    <3> HIDE DEF ids
    <3> QED
      BY <1>2, <1>3, <3>1, <3>4, <3>5
  <2> QED
    BY <1>3, <2>1, <2>2, <2>3
<1>4. ASSUME NEW enabled \in BOOLEAN, WebSharing(enabled), UNCHANGED users PROVE NobodyMissing'
  <2>1. CASE enabled
    BY <1>1, <1>4, <2>1 DEF WebSharing
  <2>2. CASE ~enabled
    BY <1>4, <2>2, MissingFree DEF WebSharing
  <2> QED
    BY <2>1, <2>2
<1>5. ASSUME NEW p \in Pids, SshJoin(p), UNCHANGED users PROVE NobodyMissing'
  <2>1. {p} \in SUBSET Ids /\ SendUserJoin({p}) /\ UNCHANGED inputMode
    BY <1>5 DEF SshJoin, Ids
  <2>2. Users(conn', ssh') \subseteq Users(conn, ssh) \cup {p}
    BY <1>5 DEF SshJoin, Users
  <2> QED
    BY <1>2, <1>5, <2>1, <2>2
<1>6. ASSUME NEW p \in Pids, SshLeave(p), UNCHANGED users PROVE NobodyMissing'
  <2> SUFFICES ASSUME inputMode.on, NEW i \in Users(conn', ssh'), i \notin disowned'
               PROVE  WillKnow(i)'
    BY <1>6 DEF NobodyMissing, SshLeave, Users
  <2>1. {p} \in SUBSET Ids /\ Tell("leave", {p}) /\ i \in Users(conn, ssh)
    BY <1>6 DEF SshLeave, Ids, Users
  <2>2. i # p /\ i \notin disowned
    BY <1>6 DEF SshLeave, Users
  <2>3. WillKnow(i)
    BY <2>1, <2>2 DEF NobodyMissing
  <2> QED
    BY <1>6, <1>t, <2>1, <2>2, <2>3, KnowTold
<1>7. CASE HostReads
  <2>1. ASSUME NEW i, WillKnow(i) PROVE WillKnow(i)'
    BY <1>7, <1>t, <2>1, KnowRead
  <2> QED
    BY <1>7, <2>1 DEF HostReads, NobodyMissing, Users, WebUsers, WebViewersOf
<1>8. CASE DaemonReads
  <2>1. users' = users /\ conn' = conn /\ ssh' = ssh
    BY <1>8 DEF DaemonReads, InputMode
  <2>2. CASE inputMode'.on /\ ~inputMode.on
    <3>1. Tell("join", Users(conn, ssh)) /\ Users(conn, ssh) \in SUBSET Ids
      BY <1>8, <1>t, <2>2, IdsNamed DEF DaemonReads, InputMode
    <3> QED
      BY <1>t, <2>1, <3>1, KnowJoin DEF NobodyMissing
  <2>3. CASE ~(inputMode'.on /\ ~inputMode.on)
    BY <1>8, <2>1, <2>3 DEF DaemonReads, InputMode, NobodyMissing, WillKnow
  <2> QED
    BY <2>2, <2>3
<1>9. CASE Lost
  BY <1>9 DEF Lost, NewDaemon, NobodyMissing
<1>10. CASE UNCHANGED vars \/ Connect
  BY <1>1, <1>10 DEF vars, viewerVars, socketVars, Connect
<1>11. CASE AppsStep
  <2>1. users' = users
    BY <1>11 DEF AppsStep, Applications, Accept, Subscribe, SubscribeLost, AppGone, SetMirror
  <2> QED
    BY <1>1, <1>11, <2>1 DEF AppsStep, viewerVars
<1> QED
  BY Steps, <1>3, <1>4, <1>5, <1>6, <1>7, <1>8, <1>9, <1>10, <1>11 DEF socketVars

(* In input mode no viewer that can type is missing from the host's list     *)
(* once everything is read, however the mode was switched on and off, and    *)
(* whoever came and went meanwhile; but for those whose id a POST had that   *)
(* was closed, or another viewer that left.                                  *)
THEOREM NobodyIsMissing == Spec => []NobodyMissing
  BY TypeCorrect, MissingInit, MissingStep, PTL DEF Spec
-----------------------------------------------------------------------------
(* The mode follows the subscribers *)

(* Without a connection nothing is on the way and no daemon is in the mode.  *)
DownIsOff == ~up => toDaemon = <<>> /\ ~inputMode.on

ModeInv == DownIsOff /\ ModeFollowsSubscribers

LEMMA ModeInit == Init => ModeInv
<1> SUFFICES ASSUME Init PROVE ModeInv
  OBVIOUS
<1>1. Subscribers(app) = {} /\ ~WillBeOn
  BY DEF Init, ViewersInit, SocketInit, Subscribers, NoApp, WillBeOn
<1> QED
  BY <1>1 DEF Init, ModeInv, DownIsOff, ModeFollowsSubscribers

LEMMA LastAppended ==
  ASSUME NEW S, NEW q \in Seq(S), NEW m \in S
  PROVE  Append(q, m) # <<>> /\ Append(q, m)[Len(Append(q, m))] = m
<1>1. Len(Append(q, m)) = Len(q) + 1 /\ Len(q) \in Nat /\ Append(q, m)[Len(q) + 1] = m
  BY AppendParts
<1>2. Append(q, m) # <<>>
  BY <1>1, EmptySeq
<1> QED
  BY <1>1, <1>2

LEMMA LastOfTail ==
  ASSUME NEW S, NEW q \in Seq(S), q # <<>>
  PROVE  /\ Len(q) \in Nat \ {0} /\ Head(q) = q[1]
         /\ Tail(q) = <<>> => Len(q) = 1
         /\ Tail(q) # <<>> => Tail(q)[Len(Tail(q))] = q[Len(q)]
<1>1. /\ Tail(q) \in Seq(S) /\ Len(Tail(q)) = Len(q) - 1 /\ Len(q) \in Nat \ {0} /\ Head(q) = q[1]
      /\ \A i \in 1..Len(Tail(q)) : Tail(q)[i] = q[i + 1]
  BY HeadTailProperties, EmptySeq
<1>2. Tail(q) = <<>> => Len(q) = 1
  BY <1>1, EmptySeq
<1>3. Tail(q) # <<>> => Tail(q)[Len(Tail(q))] = q[Len(q)]
  <2> SUFFICES ASSUME Tail(q) # <<>> PROVE Tail(q)[Len(Tail(q))] = q[Len(q)]
    OBVIOUS
  <2>1. Len(Tail(q)) \in Nat \ {0}
    BY <1>1, EmptySeq
  <2>2. Len(Tail(q)) \in 1..Len(Tail(q)) /\ Len(Tail(q)) + 1 = Len(q)
    BY <1>1, <2>1
  <2> QED
    BY <1>1, <2>2
<1> QED
  BY <1>1, <1>2, <1>3

LEMMA SentLast ==
  ASSUME toDaemon \in Seq(Mode), NEW on \in BOOLEAN, NEW mirror \in BOOLEAN,
         toDaemon' = Sent(toDaemon, up, on, mirror), up
  PROVE  WillBeOn' <=> on
<1> DEFINE m == [on |-> on, mirror |-> mirror]
<1>1. m \in Mode /\ m.on = on
  BY DEF Mode
<1>2. toDaemon' = Append(toDaemon, m)
  BY DEF Sent
<1> HIDE DEF m
<1>3. toDaemon' # <<>> /\ toDaemon'[Len(toDaemon')] = m
  BY <1>1, <1>2, LastAppended
<1> QED
  BY <1>1, <1>3 DEF WillBeOn

LEMMA SentNothing ==
  ASSUME ModeInv, NEW on, NEW mirror, toDaemon' = Sent(toDaemon, up, on, mirror),
         ~up, UNCHANGED inputMode
  PROVE  toDaemon' = toDaemon /\ toDaemon = <<>> /\ ~WillBeOn'
  BY DEF ModeInv, DownIsOff, Sent, WillBeOn

(* Whoever is freed, the last subscriber of all switches the mode off.       *)
LEMMA ModeWithout ==
  ASSUME TypeOK, ModeInv, NEW as \in [Apps -> [at : {"none", "connected", "subscribed"}, mirror : BOOLEAN]],
         NEW gone, AppsWithout(as, gone, toDaemon, up), UNCHANGED <<inputMode, up, conns>>,
         Subscribers(as) \ gone \subseteq Subscribers(app),
         gone \cap Subscribers(as) # {} \/ Subscribers(as) = Subscribers(app)
  PROVE  ModeInv'
<1>t. toDaemon \in Seq(Mode)
  BY DEF TypeOK, SocketTypes
<1>1. Subscribers(app') = Subscribers(as) \ gone
  BY DEF AppsWithout, Subscribers, NoApp
<1>2. CASE gone \cap Subscribers(as) # {} /\ Subscribers(as) \ gone = {}
  <2>1. toDaemon' = Sent(toDaemon, up, FALSE, TRUE)
    BY <1>2 DEF AppsWithout
  <2>2. ~WillBeOn'
    BY <1>t, <2>1, SentLast, SentNothing
  <2>3. DownIsOff'
    BY <2>1, SentNothing DEF ModeInv, DownIsOff
  <2> QED
    BY <1>1, <1>2, <2>2, <2>3 DEF ModeInv, ModeFollowsSubscribers
<1>3. CASE ~(gone \cap Subscribers(as) # {} /\ Subscribers(as) \ gone = {})
  <2>1. toDaemon' = toDaemon
    BY <1>3 DEF AppsWithout
  <2>2. WillBeOn' <=> WillBeOn
    BY <2>1 DEF WillBeOn
  <2>3. Subscribers(app') = {} => Subscribers(app) = {}
    BY <1>1, <1>3
  <2>4. Subscribers(app') # {} => Subscribers(app) # {}
    BY <1>1
  <2> QED
    BY <2>1, <2>2, <2>3, <2>4 DEF ModeInv, DownIsOff, ModeFollowsSubscribers
<1> QED
  BY <1>2, <1>3

LEMMA ModeApps ==
  ASSUME TypeOK, ModeInv, Applications(up), UNCHANGED <<inputMode, up, conns>>
  PROVE  ModeInv'
<1>1. PICK a \in Apps : \/ Accept(a) \/ Subscribe(a, up) \/ SubscribeLost(a, up) \/ AppGone(a, up)
                        \/ \E mirror \in BOOLEAN : SetMirror(a, mirror, up)
  BY DEF Applications
<1>t. /\ toDaemon \in Seq(Mode) /\ app[a].mirror \in BOOLEAN
      /\ app \in [Apps -> [at : {"none", "connected", "subscribed"}, mirror : BOOLEAN]]
  BY DEF TypeOK, SocketTypes
<1>2. CASE Accept(a)
  <2>1. Subscribers(app') = Subscribers(app) /\ toDaemon' = toDaemon
    BY <1>2, <1>t DEF Accept, Subscribers
  <2> QED
    BY <2>1 DEF ModeInv, DownIsOff, ModeFollowsSubscribers, WillBeOn
<1>3. CASE Subscribe(a, up)
  <2>1. Subscribers(app') = Subscribers(app) \cup {a}
    BY <1>3, <1>t DEF Subscribe, Subscribers
  <2>2. CASE Subscribers(app') = {a}
    <3>1. toDaemon' = Sent(toDaemon, up, TRUE, app[a].mirror)
      BY <1>3, <2>2 DEF Subscribe
    <3>2. up => WillBeOn'
      BY <1>t, <3>1, SentLast
    <3>3. DownIsOff'
      BY <3>1, SentNothing DEF ModeInv, DownIsOff
    <3> QED
      BY <2>1, <3>2, <3>3 DEF ModeInv, ModeFollowsSubscribers
  <2>3. CASE Subscribers(app') # {a}
    <3>1. Subscribers(app) # {} /\ toDaemon' = toDaemon
      BY <1>3, <2>1, <2>3 DEF Subscribe
    <3> QED
      BY <2>1, <3>1 DEF ModeInv, DownIsOff, ModeFollowsSubscribers, WillBeOn
  <2> QED
    BY <2>2, <2>3
<1>4. CASE SubscribeLost(a, up)
  <2> DEFINE as == [app EXCEPT ![a].at = "subscribed"]
  <2>1. as \in [Apps -> [at : {"none", "connected", "subscribed"}, mirror : BOOLEAN]]
        /\ Subscribers(as) = Subscribers(app) \cup {a}
    BY <1>t DEF Subscribers
  <2>2. AppsWithout(as, {a}, toDaemon, up)
    BY <1>4 DEF SubscribeLost
  <2> HIDE DEF as
  <2> QED
    BY <2>1, <2>2, ModeWithout
<1>5. CASE AppGone(a, up)
  BY <1>5, <1>t, ModeWithout DEF AppGone
<1>6. CASE \E mirror \in BOOLEAN : SetMirror(a, mirror, up)
  <2>1. PICK mirror \in BOOLEAN : SetMirror(a, mirror, up)
    BY <1>6
  <2>2. Subscribers(app') = Subscribers(app) /\ toDaemon' = Sent(toDaemon, up, TRUE, mirror)
    BY <2>1, <1>t DEF SetMirror, Subscribers
  <2>3. Polite => Subscribers(app) # {}
    BY <2>1 DEF SetMirror, Subscribers
  <2>4. (up => WillBeOn') /\ DownIsOff'
    BY <1>t, <2>2, SentLast, SentNothing DEF ModeInv, DownIsOff
  <2> QED
    BY <2>2, <2>3, <2>4 DEF ModeInv, ModeFollowsSubscribers
<1> QED
  BY <1>1, <1>2, <1>3, <1>4, <1>5, <1>6

LEMMA ModeStep == TypeOK /\ ModeInv /\ [Next]_vars => ModeInv'
<1> SUFFICES ASSUME TypeOK, ModeInv, [Next]_vars PROVE ModeInv'
  OBVIOUS
<1>1. ASSUME UNCHANGED <<app, toDaemon, inputMode, up, conns>> PROVE ModeInv'
  BY <1>1 DEF ModeInv, DownIsOff, ModeFollowsSubscribers, WillBeOn, Subscribers
<1>2. CASE UNCHANGED vars
  BY <1>1, <1>2 DEF vars, viewerVars, socketVars, linkVars
<1>3. CASE ViewersStep
  <2>1. UNCHANGED inputMode
    BY <1>3 DEF ViewersStep, Viewers, Browser, AcceptFd, BadRequest, Post, PostBody, HandlePost,
                Become, Watch, Disconnect, WebSharing, SshJoin, SshLeave
  <2> QED
    BY <1>1, <1>3, <2>1 DEF ViewersStep, socketVars, linkVars
<1>4. CASE AppsStep
  BY <1>4, ModeApps DEF AppsStep, viewerVars, linkVars
<1>5. CASE HostReads
  BY <1>5, ModeWithout DEF HostReads, UserChange, linkVars, TypeOK, SocketTypes
<1>6. CASE DaemonReads
  <2>1. toDaemon \in Seq(Mode) /\ toDaemon # <<>> /\ toDaemon' = Tail(toDaemon)
        /\ inputMode' = Head(toDaemon) /\ UNCHANGED <<app, up, conns>> /\ up
    BY <1>6 DEF DaemonReads, InputMode, linkVars, TypeOK, SocketTypes
  <2>2. WillBeOn' <=> WillBeOn
    <3>1. CASE Tail(toDaemon) = <<>>
      <4>1. Head(toDaemon) = toDaemon[Len(toDaemon)]
        BY <2>1, <3>1, LastOfTail
      <4> QED
        BY <2>1, <3>1, <4>1 DEF WillBeOn
    <3>2. CASE Tail(toDaemon) # <<>>
      <4>1. Tail(toDaemon)[Len(Tail(toDaemon))] = toDaemon[Len(toDaemon)]
        BY <2>1, <3>2, LastOfTail
      <4> QED
        BY <2>1, <3>2, <4>1 DEF WillBeOn
    <3> QED
      BY <3>1, <3>2
  <2> QED
    BY <2>1, <2>2 DEF ModeInv, DownIsOff, ModeFollowsSubscribers
<1>7. CASE Lost
  <2>1. ~up' /\ toDaemon' = <<>> /\ ~inputMode'.on
    BY <1>7 DEF Lost, NewDaemon
  <2> QED
    BY <2>1 DEF ModeInv, DownIsOff, ModeFollowsSubscribers, WillBeOn
<1>8. CASE Connect
  <2>1. conns' # 1
    BY <1>8, Constants DEF Connect, TypeOK, LinkTypes
  <2> QED
    BY <1>8, <2>1 DEF Connect, viewerVars, socketVars, ModeInv, DownIsOff,
                      ModeFollowsSubscribers, WillBeOn, Subscribers
<1> QED
  BY <1>2, <1>3, <1>4, <1>5, <1>6, <1>7, <1>8 DEF Next

(* While applications subscribe before they set the mirror, input_app_free   *)
(* leaves no daemon in input mode behind, in any order of arrivals and ends; *)
(* and the first connection of the host does not forget a subscriber.        *)
THEOREM ModeIsFollowed == Spec => []ModeFollowsSubscribers
<1>1. ModeInv => ModeFollowsSubscribers
  BY DEF ModeInv
<1> QED
  BY <1>1, TypeCorrect, ModeInit, ModeStep, PTL DEF Spec
=============================================================================
