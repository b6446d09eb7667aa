----------------------------- MODULE WebViewers -----------------------------
(***************************************************************************)
(* The viewers of one session daemon: the connections of browsers, each an *)
(* HTTP request that becomes an event stream or delivers typed keys, and   *)
(* the SSH viewers, which are clients of the daemon's own tmux server.     *)
(*                                                                         *)
(* While the host wants to know its viewers (input mode) the daemon tells  *)
(* it who comes and who goes.  An action is a callback of the daemon's one *)
(* event loop.  Abstractions: a request is what sse_do_handshake makes of  *)
(* it; a body is there or not; whether the host allows web input, and the  *)
(* limit of requests per second does, is open at each POST; what a         *)
(* connection keeps of an earlier request is forgotten where the next one  *)
(* overwrites it; the messages one callback sends are one message; which   *)
(* keys are typed and what is streamed are left out.                       *)
(***************************************************************************)
EXTENDS Integers, Sequences, FiniteSets

CONSTANTS
  Conns,        \* connections of browsers
  Pids,         \* processes of SSH viewers
  MaxViewerId,  \* bound: event streams one daemon starts, ids a POST names
  MaxClients    \* SSE_MAX_CLIENTS_PER_SESSION

ASSUME ViewersAssumption ==
  /\ IsFiniteSet(Conns) /\ IsFiniteSet(Pids) /\ Pids \subseteq Nat \ {0}
  /\ MaxViewerId \in Nat /\ MaxClients \in Nat

VARIABLES
  conn,         \* conn[c]: the ws_client of a connection
  ssh,          \* the SSH viewers: clients that have been identified
  nextId,       \* next_viewer_id
  webSharing,   \* web_sharing_enabled
  inputMode,    \* input_mode_enabled, input_mirror
  counts,       \* the viewer counts last broadcast, and shown in the status line
  disowned,     \* viewers the host was told have gone, because somebody else went
  toHost        \* on the way to the host: who joined, or who left

viewerVars == <<conn, ssh, nextId, webSharing, inputMode, counts, disowned, toHost>>

\* "head": no request yet; "body": a POST without its body; "stream": a viewer;
\* "flush" and "refused": closed once the answer, to a bad request or to a
\* POST, is written
Stages == {"none", "head", "body", "stream", "flush", "refused"}
Blank(stage) == [at |-> stage, ro |-> FALSE, id |-> 0]
NoConn == Blank("none")

WebIds == 0..MaxViewerId
Ids == (1..MaxViewerId) \cup Pids

HandshakeDone(c) == conn[c].at \in {"body", "stream", "refused"}

WebViewersOf(cs) == {c \in Conns : cs[c].at = "stream"}

\* whom the host is to know: SSH viewers count as read-write, their readonly
\* flag is never set
WebUsers(cs) == {cs[c].id : c \in {d \in WebViewersOf(cs) : ~cs[d].ro /\ cs[d].id > 0}}
Users(cs, s) == WebUsers(cs) \cup s

ViewersInit ==
  /\ conn = [c \in Conns |-> NoConn] /\ ssh = {}
  /\ nextId = 0 /\ webSharing \in BOOLEAN
  /\ inputMode = [on |-> FALSE, mirror |-> TRUE]
  /\ counts = [ssh |-> 0, web |-> 0]
  /\ disowned = {} /\ toHost = <<>>

-----------------------------------------------------------------------------
(* What the callbacks share *)

Tell(kind, ids) ==
  toHost' = IF ids = {} THEN toHost ELSE Append(toHost, [kind |-> kind, ids |-> ids])

SendUserJoin(ids) ==
  Tell("join", IF inputMode.on THEN ids ELSE {}) /\ disowned' = disowned \ ids

(* tmate_broadcast_viewer_count *)
BroadcastViewerCount(cs, s) ==
  counts' = [ssh |-> Cardinality(s), web |-> Cardinality(WebViewersOf(cs))]

(* What ws_client_free does for the connections in gone: each that got past  *)
(* its request takes the viewer it names with it, a POST too.                *)
Leaving(gone) ==
  {conn[c].id : c \in {d \in gone : HandshakeDone(d) /\ ~conn[d].ro /\ conn[d].id > 0}}

WsClientFree(gone) ==
  LET rest == [c \in Conns |-> IF c \in gone THEN NoConn ELSE conn[c]]
      left == IF inputMode.on THEN Leaving(gone) ELSE {}
      stay == Users(rest, ssh)
  IN /\ conn' = rest
     /\ Tell("leave", left)
     /\ disowned' = (disowned \ (Users(conn, ssh) \ stay)) \cup (left \cap stay)
     /\ IF \E c \in gone : HandshakeDone(c) THEN BroadcastViewerCount(rest, ssh) ELSE UNCHANGED counts
     /\ UNCHANGED <<ssh, nextId>>

(* Only the connection itself changes. *)
Become(c, new) ==
  /\ conn' = [conn EXCEPT ![c] = new]
  /\ UNCHANGED <<ssh, nextId, webSharing, inputMode, counts, disowned, toHost>>

-----------------------------------------------------------------------------
(* Browsers *)

(* on_ws_accept, tmate_websocket_accept_fd *)
AcceptFd(c) ==
  /\ conn[c].at = "none"
  /\ webSharing /\ Cardinality(WebViewersOf(conn)) < MaxClients
  /\ Become(c, Blank("head"))

(* A request that gets an answer and no more: OPTIONS, HEAD, a wrong token   *)
(* or password, a POST without the header that forbids forged ones.          *)
BadRequest(c) == conn[c].at = "head" /\ Become(c, Blank("flush"))

(* GET: the connection is a viewer from now on.                              *)
Watch(c, ro) ==
  /\ conn[c].at = "head" /\ nextId < MaxViewerId
  /\ nextId' = nextId + 1
  /\ conn' = [conn EXCEPT ![c] = [at |-> "stream", ro |-> ro, id |-> nextId + 1]]
  /\ BroadcastViewerCount(conn', ssh)
  /\ SendUserJoin(IF ro THEN {} ELSE {nextId + 1})
  /\ UNCHANGED <<ssh, webSharing, inputMode>>

(* handle_post_input, handle_post_clipboard, while the body is missing and   *)
(* when it is there: keys leave the connection open for another request.     *)
HandlePost(c, id) ==
  \/ \E stage \in {"refused", "body"} : Become(c, [at |-> stage, ro |-> FALSE, id |-> id])
  \/ Become(c, Blank("head"))

(* The request names the viewer it is from.  Readonly viewers are refused.   *)
Post(c) ==
  /\ conn[c].at = "head"
  /\ \/ \E id \in WebIds : HandlePost(c, id)
     \/ Become(c, [at |-> "refused", ro |-> TRUE, id |-> 0])

PostBody(c) ==
  /\ conn[c].at = "body"
  /\ HandlePost(c, conn[c].id)

(* on_ws_client_event: the browser hangs up, or a timeout; on_ws_client_flush *)
(* after an answer.  A stream that does not take what it is sent is freed    *)
(* from within the broadcast, with the same effect.                          *)
Disconnect(c) ==
  /\ conn[c].at # "none"
  /\ WsClientFree({c})
  /\ UNCHANGED <<webSharing, inputMode>>

WebSharingKeepsHandshakes(enabled) ==
  /\ webSharing' = enabled
  /\ IF enabled THEN UNCHANGED <<conn, ssh, nextId, counts, disowned, toHost>>
     ELSE WsClientFree(WebViewersOf(conn))
  /\ UNCHANGED inputMode

WebSharingQuiet(enabled) ==
  /\ webSharing' = enabled
  /\ IF enabled THEN UNCHANGED <<conn, counts>>
     ELSE conn' = [c \in Conns |-> NoConn] /\ BroadcastViewerCount(conn', ssh)
  /\ UNCHANGED <<ssh, nextId, inputMode, disowned, toHost>>

(* handle_web_sharing_option, tmate_disconnect_ws_clients *)
WebSharing(enabled) ==
  /\ webSharing' = enabled
  /\ IF enabled THEN UNCHANGED <<conn, ssh, nextId, counts, disowned, toHost>>
     ELSE WsClientFree({c \in Conns : conn[c].at # "none"})
  /\ UNCHANGED inputMode

-----------------------------------------------------------------------------
(* SSH viewers *)

(* tmate_notify_client_join *)
SshJoin(p) ==
  /\ p \notin ssh
  /\ ssh' = ssh \cup {p}
  /\ BroadcastViewerCount(conn, ssh')
  /\ SendUserJoin({p})
  /\ UNCHANGED <<conn, nextId, webSharing, inputMode>>

(* server_client_lost: tmate_notify_client_left counts the client that goes, *)
(* which is still in the list.                                               *)
SshLeave(p) ==
  /\ p \in ssh
  /\ ssh' = ssh \ {p}
  /\ BroadcastViewerCount(conn, ssh)
  /\ Tell("leave", IF inputMode.on THEN {p} ELSE {})
  /\ disowned' = IF p \notin WebUsers(conn) THEN disowned \ {p}
                 ELSE IF inputMode.on THEN disowned \cup {p} ELSE disowned
  /\ UNCHANGED <<conn, nextId, webSharing, inputMode>>

-----------------------------------------------------------------------------
(* The host *)

InputModeSshOnly(mode) ==
  /\ inputMode' = mode
  /\ IF mode.on /\ ~inputMode.on
     THEN Tell("join", ssh) /\ disowned' = {}
     ELSE UNCHANGED <<toHost, disowned>>
  /\ UNCHANGED <<conn, ssh, nextId, webSharing, counts>>

(* tmate_input_mode: everybody is announced when it is switched on.          *)
InputMode(mode) ==
  /\ inputMode' = mode
  /\ IF mode.on /\ ~inputMode.on
     THEN Tell("join", Users(conn, ssh)) /\ disowned' = {}
     ELSE UNCHANGED <<toHost, disowned>>
  /\ UNCHANGED <<conn, ssh, nextId, webSharing, counts>>

(* Another daemon, for the next connection of the host; it gets the host's   *)
(* options again.                                                            *)
NewDaemon ==
  /\ conn' = [c \in Conns |-> NoConn] /\ ssh' = {}
  /\ nextId' = 0
  /\ inputMode' = [on |-> FALSE, mirror |-> TRUE]
  /\ counts' = [ssh |-> 0, web |-> 0]
  /\ disowned' = {} /\ toHost' = <<>>
  /\ UNCHANGED webSharing

-----------------------------------------------------------------------------
Browser(c) ==
  \/ AcceptFd(c) \/ BadRequest(c) \/ Post(c) \/ PostBody(c) \/ Disconnect(c)
  \/ \E ro \in BOOLEAN : Watch(c, ro)

Viewers ==
  \/ \E c \in Conns : Browser(c)
  \/ \E enabled \in BOOLEAN : WebSharing(enabled)
  \/ \E p \in Pids : SshJoin(p) \/ SshLeave(p)
=============================================================================
