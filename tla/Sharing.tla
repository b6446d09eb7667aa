------------------------------ MODULE Sharing ------------------------------
(***************************************************************************)
(* What a host sends over each connection to a relay, and what the session *)
(* daemon at the other end makes of it: configuration that is saved and    *)
(* replayed, the capabilities both sides wait for, the layout, the screens *)
(* and the output that keeps them current, and the moment the daemon lets  *)
(* viewers in.  How a connection comes about is module HostTunnel; which   *)
(* links lead to the daemon is module SessionDir.                          *)
(*                                                                         *)
(* Abstractions: one message is one step; the encoder's buffer and the     *)
(* connection are one queue, `out', whose limit counts layouts, snapshots  *)
(* and pane output (everything else is a few bytes); windows are left out, *)
(* a layout is the set of panes it shows; a screen is the number of chunks *)
(* of output it is made of.  The daemon dies with its connection.          *)
(***************************************************************************)
EXTENDS Naturals, Sequences, FiniteSets

CONSTANTS
  Panes,          \* pane ids, each used once
  FirstPane,      \* the one the host starts with
  Session,        \* Session[p]: where p is opened; numbers, ordered like the names
  Names,          \* names a relay may give the shared session
  AskedName,      \* tmtv-session-name
  NoName,
  Garbled,        \* a screen that lacks output, or has some twice
  BufMax,         \* layouts, snapshots and chunks the buffer takes
  Overflow,       \* panes may write faster than the connection takes it
  Encodable,      \* outcomes of encoding a layout or a snapshot
  Matching,       \* whether a relay speaks this host's protocol
  MaxOutput, MaxCmds, MaxConns, MaxStatus   \* bounds of the model

ASSUME SharingAssumption ==
  /\ FirstPane \in Panes /\ Session \in [Panes -> Nat]
  /\ AskedName \in Names /\ NoName \notin Names
  /\ Names \cap {"identity", "keys", "opt", "snapshot capability", "layout capability",
                  "reconnect capability", "update required"} = {}
  /\ Encodable \subseteq BOOLEAN /\ Matching \subseteq BOOLEAN
  /\ Overflow \in BOOLEAN
  /\ {BufMax, MaxOutput, MaxCmds, MaxConns, MaxStatus} \subseteq Nat /\ BufMax > 0
  /\ Garbled \notin Nat

VARIABLES
  \* host: sessions and their panes
  open,         \* panes that are open
  closed,       \* panes that were
  written,      \* written[p]: chunks of output in the screen of p
  status,       \* the status line as it would be expanded now
  \* host: tmate_session
  host,         \* layout_capability, snapshot_capability, layout_failed, ready pending
  saved,        \* saved_tmux_cmds
  told,         \* reconnect_name
  reconnected,
  sent,         \* layout_sent, the empty set for NULL
  statusSent,   \* old_left, old_right of tmate_status
  \* the connection
  link,         \* "down" or "up"
  conns,        \* connections so far
  out,          \* encoder buffer and connection, host to daemon
  in,           \* daemon to host
  \* the session daemon
  gate,         \* its flags
  applied,      \* configuration commands applied
  pendingName,  \* identity_pending_name
  view,         \* its panes and their screens
  pending,      \* pty_pending_list: output for panes it does not have
  shown         \* the status line it has, MaxStatus + 1 for none

paneVars == <<open, closed, written>>
hostVars == <<host, saved, told, reconnected, sent, statusSent>>
linkVars == <<link, conns>>
daemonVars == <<gate, applied, pendingName, view, pending, shown>>
vars == <<paneVars, status, hostVars, linkVars, out, in, daemonVars>>

NoStatus == MaxStatus + 1

PanesOf(s, panes) == {p \in panes : Session[p] = s}

(* tmate_find_session: no session has a tmate pointer, so the first by name. *)
FirstByName(panes) == {p \in panes : \A q \in panes : Session[p] <= Session[q]}
Shared == FirstByName(open)

Msg(type, value) == [type |-> type, value |-> value]
Fin == Msg("fin", 0)
Commands(cmds) == [i \in DOMAIN cmds |-> Msg("cmd", cmds[i])]

Bulk == {"layout", "snapshot", "pty"}
Room(q) == Cardinality({i \in DOMAIN q : q[i].type \in Bulk}) < BufMax

NoGate == [layout |-> FALSE, snapshot |-> FALSE, readyPending |-> FALSE,
           awaiting |-> FALSE, stable |-> FALSE, identityPending |-> FALSE,
           announced |-> FALSE, refused |-> FALSE, ending |-> FALSE, fatal |-> FALSE]

NoDaemon ==
  /\ gate' = NoGate /\ applied' = <<>> /\ pendingName' = NoName
  /\ view' = <<>> /\ pending' = [p \in Panes |-> <<>>] /\ shown' = NoStatus

FirstCmds == <<"identity", AskedName, "keys">>

Init ==
  /\ open = {FirstPane} /\ closed = {} /\ written = [p \in Panes |-> 0]
  /\ status = 0 /\ statusSent = NoStatus
  /\ host = [layout |-> FALSE, snapshot |-> FALSE, failed |-> FALSE, readyPending |-> TRUE]
  /\ saved = FirstCmds /\ told = NoName /\ reconnected = FALSE /\ sent = {}
  /\ link = "down" /\ conns = 0 /\ in = <<>>
  /\ out = <<Msg("header", 0)>> \o Commands(FirstCmds)
  /\ gate = NoGate /\ applied = <<>> /\ pendingName = NoName
  /\ view = <<>> /\ pending = [p \in Panes |-> <<>>] /\ shown = NoStatus
-----------------------------------------------------------------------------
(* HOST                                                                      *)

CanShow == host.layout /\ ~host.failed

(* tmate_snapshot_error, after q was queued: sharing ends for good.          *)
Fail(q) == host' = [host EXCEPT !.failed = TRUE] /\ out' = Append(q, Fin)

SyncLayoutForgetsRefused(panes) ==
  IF ~CanShow THEN UNCHANGED <<host, sent, out>>
  ELSE \/ /\ TRUE \in Encodable
          /\ UNCHANGED host /\ sent' = panes
          /\ IF panes # sent /\ Room(out) THEN out' = Append(out, Msg("layout", panes)) ELSE UNCHANGED out
       \/ FALSE \in Encodable /\ UNCHANGED sent /\ Fail(out)

(* tmate_sync_layout of a session with these panes: a layout that is new and *)
(* fits is sent, one that cannot be encoded ends sharing.                    *)
SyncLayout(panes) ==
  IF ~CanShow THEN UNCHANGED <<host, sent, out>>
  ELSE \/ /\ TRUE \in Encodable
          /\ UNCHANGED host
          /\ IF panes # sent /\ Room(out)
             THEN sent' = panes /\ out' = Append(out, Msg("layout", panes))
             ELSE UNCHANGED <<sent, out>>
       \/ FALSE \in Encodable /\ UNCHANGED sent /\ Fail(out)

(* The end of a turn of the event loop.                                      *)
ServerLoop ==
  /\ CanShow /\ Shared # sent /\ Room(out)
  /\ SyncLayout(Shared)
  /\ UNCHANGED <<paneVars, status, saved, told, reconnected, statusSent, linkVars, in, daemonVars>>

(* A pane is opened, by splitting a window or with a window of its own, which  *)
(* is attached to the session: session_attach, session_set_current.            *)
OpenPane(p, newWindow) ==
  /\ p \notin open \cup closed
  /\ open' = open \cup {p}
  /\ IF newWindow THEN SyncLayout(PanesOf(Session[p], open')) ELSE UNCHANGED <<host, sent, out>>
  /\ UNCHANGED <<closed, written, status, saved, told, reconnected, statusSent, linkVars, in, daemonVars>>

(* A pane is closed, with its window or without; the last window of a session  *)
(* is not detached but goes with it.  With the last pane the host ends.        *)
ClosePane(p, wholeWindow) ==
  /\ p \in open /\ open # {p}
  /\ open' = open \ {p} /\ closed' = closed \cup {p}
  /\ LET left == PanesOf(Session[p], open')
     IN  IF wholeWindow /\ left # {} THEN SyncLayout(left) ELSE UNCHANGED <<host, sent, out>>
  /\ UNCHANGED <<written, status, saved, told, reconnected, statusSent, linkVars, in, daemonVars>>

(* Another window of some session is selected: session_set_current.            *)
SelectWindow(p) ==
  /\ p \in open
  /\ CanShow /\ PanesOf(Session[p], open) # sent /\ Room(out)
  /\ SyncLayout(PanesOf(Session[p], open))
  /\ UNCHANGED <<paneVars, status, saved, told, reconnected, statusSent, linkVars, in, daemonVars>>

(* on_encoder_write: past its limit the buffer loses its oldest bytes.         *)
Torn(q) == <<Msg("torn", Head(q).type)>> \o Tail(q)

(* window_pane_read_callback: tmate_pty_data, for a pane of any session, then  *)
(* input_parse_pane.                                                           *)
PaneOutput(p) ==
  /\ p \in open /\ written[p] < MaxOutput
  /\ written' = [written EXCEPT ![p] = @ + 1]
  /\ LET chunk == Msg("pty", [pane |-> p, nth |-> written'[p]])
     IN  IF ~(CanShow /\ host.snapshot) THEN UNCHANGED out
         ELSE \/ Room(out) /\ out' = Append(out, chunk)
              \/ ~Room(out) /\ Overflow /\ out' = Append(Torn(out), chunk)
  /\ UNCHANGED <<open, closed, status, hostVars, linkVars, in, daemonVars>>

(* tmate_exec_cmd_args: queued, connected or not, and saved.                   *)
ExecCmd ==
  /\ Len(saved) < MaxCmds
  /\ saved' = Append(saved, "opt")
  /\ out' = Append(out, Msg("cmd", "opt"))
  /\ UNCHANGED <<paneVars, status, host, told, reconnected, sent, statusSent, linkVars, in, daemonVars>>

(* tmate_status after q was queued: only what differs from the last one.       *)
WithStatus(q) == IF status = statusSent THEN q ELSE Append(q, Msg("status", status))

(* tmate_expand_status, every two seconds.                                     *)
StatusTimer ==
  /\ status # statusSent /\ statusSent' = status /\ out' = WithStatus(out)
  /\ UNCHANGED <<paneVars, status, host, saved, told, reconnected, sent, linkVars, in, daemonVars>>

StatusChanges ==
  /\ status < MaxStatus /\ status' = status + 1
  /\ UNCHANGED <<paneVars, hostVars, linkVars, out, in, daemonVars>>
-----------------------------------------------------------------------------
(* HOST: what the daemon answers                                             *)

HostGets(message) == in # <<>> /\ Head(in) = message /\ in' = Tail(in)

SnapshotOfAll == [p \in open |-> written[p]]

(* tmate_snapshot_encode: the screens of the shared session.                   *)
Snapshot == [p \in Shared |-> written[p]]

(* tmate_capabilities_ready, when the last capability has come: the layout,    *)
(* a snapshot, the status line and the READY that was kept back.               *)
StartSharing(h) ==
  LET withLayout == IF Room(out) THEN Append(out, Msg("layout", Shared)) ELSE out
      withSnapshot == Append(withLayout, Msg("snapshot", Snapshot))
      failed(q) == host' = [h EXCEPT !.failed = TRUE] /\ out' = q
  IN  \/ /\ FALSE \in Encodable              \* tmtv_layout_encode fails
         /\ failed(Append(out, Fin)) /\ sent' = {} /\ UNCHANGED statusSent
      \/ /\ TRUE \in Encodable
         /\ sent' = IF Room(out) THEN Shared ELSE {}
         /\ statusSent' = status
         /\ \/ /\ Room(withLayout)
               /\ host' = [h EXCEPT !.readyPending = FALSE]
               /\ out' = WithStatus(withSnapshot) \o IF h.readyPending THEN <<Msg("ready", 0)>> ELSE <<>>
            \/ /\ ~Room(withLayout) \/ FALSE \in Encodable    \* tmate_snapshot_encode fails
               /\ failed(WithStatus(Append(withLayout, Fin)))

(* tmate_layout_negotiated, tmate_snapshot_negotiated.                         *)
Negotiated(capability) ==
  IF host.failed \/ host[capability] THEN UNCHANGED <<host, sent, statusSent, out>>
  ELSE LET h == [host EXCEPT ![capability] = TRUE]
       IN  IF h.layout /\ h.snapshot THEN StartSharing(h)
           ELSE host' = h /\ UNCHANGED <<sent, statusSent, out>>

HostLayoutCapability ==
  /\ HostGets("layout capability") /\ Negotiated("layout")
  /\ UNCHANGED <<paneVars, status, saved, told, reconnected, linkVars, daemonVars>>

HostSnapshotCapability ==
  /\ HostGets("snapshot capability") /\ Negotiated("snapshot")
  /\ UNCHANGED <<paneVars, status, saved, told, reconnected, linkVars, daemonVars>>

(* tmate_write_session_identity.                                               *)
HostReconnectCapability ==
  /\ HostGets("reconnect capability")
  /\ out' = Append(out, Msg("identity", 0))
  /\ UNCHANGED <<paneVars, status, hostVars, linkVars, daemonVars>>

HostSessionName ==
  /\ \E n \in Names : HostGets(n) /\ told' = n
  /\ UNCHANGED <<paneVars, status, host, saved, reconnected, sent, statusSent, linkVars, out, daemonVars>>

HostUpdateRequired ==
  /\ HostGets("update required")
  /\ IF host.failed THEN UNCHANGED <<host, out>> ELSE Fail(out)
  /\ UNCHANGED <<paneVars, status, saved, told, reconnected, sent, statusSent, linkVars, daemonVars>>

(* tmate_layout_capability_timeout: 5 seconds without both capabilities.       *)
CapabilityTimeout ==
  /\ link = "up" /\ ~host.failed /\ ~(host.layout /\ host.snapshot)
  /\ Fail(out)
  /\ UNCHANGED <<paneVars, status, saved, told, reconnected, sent, statusSent, linkVars, in, daemonVars>>

-----------------------------------------------------------------------------
(* CONNECTION                                                                *)

(* replay_saved_cmd: the name is the one the relay gave.                       *)
Replayed == [i \in DOMAIN saved |-> IF saved[i] \in Names /\ told # NoName THEN told ELSE saved[i]]

ConnectKeepsBuffer ==
  /\ link = "down" /\ ~host.failed /\ conns < MaxConns
  /\ link' = "up" /\ conns' = conns + 1
  /\ sent' = {}
  /\ IF reconnected
     THEN /\ out' = <<Msg("header", 0)>> \o Commands(Replayed) \o out
          /\ host' = [host EXCEPT !.readyPending = TRUE]
     ELSE UNCHANGED <<out, host>>
  /\ UNCHANGED <<paneVars, status, saved, told, reconnected, statusSent, in, daemonVars>>

(* SSH_BOOTSTRAP and tmate_send_reconnection_state: a new connection, from the *)
(* second on with a fresh encoder; a new daemon at the other end.              *)
Connect ==
  /\ link = "down" /\ ~host.failed /\ conns < MaxConns
  /\ link' = "up" /\ conns' = conns + 1
  /\ sent' = {}
  /\ IF reconnected
     THEN /\ out' = <<Msg("header", 0)>> \o Commands(Replayed)
          /\ host' = [host EXCEPT !.readyPending = TRUE]
     ELSE UNCHANGED <<out, host>>
  /\ UNCHANGED <<paneVars, status, saved, told, reconnected, statusSent, in, daemonVars>>

(* tmate_reconnect_session before there was a connection: the encoder that was *)
(* filled since the start will be replaced.                                    *)
ConnectFails ==
  /\ link = "down" /\ ~reconnected /\ reconnected' = TRUE
  /\ UNCHANGED <<paneVars, status, host, saved, told, sent, statusSent, linkVars, out, in, daemonVars>>

DisconnectedKeepsAnswers ==
  /\ link' = "down"
  /\ host' = [host EXCEPT !.layout = FALSE, !.snapshot = FALSE]
  /\ reconnected' = (reconnected \/ ~host.failed)
  /\ out' = <<>> /\ NoDaemon
  /\ UNCHANGED <<in, paneVars, status, saved, told, sent, statusSent, conns>>

(* kill_ssh_client: what was on its way is lost; what is left in the buffer is *)
(* never sent, because the encoder is replaced before the next connection.     *)
Disconnected ==
  /\ link' = "down"
  /\ host' = [host EXCEPT !.layout = FALSE, !.snapshot = FALSE]
  /\ reconnected' = (reconnected \/ ~host.failed)
  /\ out' = <<>> /\ in' = <<>> /\ NoDaemon
  /\ UNCHANGED <<paneVars, status, saved, told, sent, statusSent, conns>>

Lost == link = "up" /\ Disconnected

(* request_server_termination, after FIN or once a refusal has been sent; a    *)
(* refusal that cannot be sent is given up after 5 seconds.                    *)
DaemonEnds == (gate.ending \/ gate.refused \/ gate.fatal) /\ Disconnected

-----------------------------------------------------------------------------
(* SESSION DAEMON                                                            *)

Listening == ~gate.refused /\ ~gate.fatal

DaemonGets(type) ==
  /\ link = "up" /\ Listening
  /\ out # <<>> /\ Head(out).type = type /\ out' = Tail(out)
Value == Head(out).value

daemonRest == <<paneVars, status, hostVars, linkVars>>

(* update_required: everything is ignored.                                     *)
DaemonIgnores ==
  /\ link = "up" /\ gate.refused /\ out # <<>>
  /\ out' = Tail(out)
  /\ UNCHANGED <<daemonRest, in, daemonVars>>

ReadyEarly(g) ==
  IF ~g.layout \/ ~g.snapshot THEN [g EXCEPT !.readyPending = TRUE]
  ELSE [g EXCEPT !.announced = TRUE]

(* tmate_ready: viewers are let in once nothing is missing.                    *)
Ready(g) ==
  IF ~g.layout \/ ~g.snapshot THEN [g EXCEPT !.readyPending = TRUE]
  ELSE IF g.awaiting THEN [g EXCEPT !.identityPending = TRUE]
  ELSE [g EXCEPT !.announced = TRUE]

(* layout_ready_pending, at the end of a layout or a snapshot.                 *)
Resume(g) == IF g.readyPending THEN Ready([g EXCEPT !.readyPending = FALSE]) ELSE g

DaemonReady ==
  /\ DaemonGets("ready") /\ gate' = Ready(gate)
  /\ UNCHANGED <<daemonRest, in, applied, pendingName, view, pending, shown>>

(* tmate_header, with tmate_refuse_client.                                     *)
DaemonHeader ==
  /\ DaemonGets("header")
  /\ \E match \in Matching :
       /\ gate' = [gate EXCEPT !.refused = ~match]
       /\ in' = in \o IF match THEN <<"snapshot capability", "layout capability">>
                                ELSE <<"update required">>
  /\ UNCHANGED <<daemonRest, applied, pendingName, view, pending, shown>>

(* register_session_name_locked: the host is told which name it got.           *)
Registered == \E given \in Names : in' = Append(in, given)

(* tmate_exec_cmd and tmate_set.                                               *)
DaemonCommand ==
  /\ DaemonGets("cmd")
  /\ applied' = Append(applied, Value)
  /\ \/ /\ Value = "identity"
        /\ IF gate.announced \/ gate.stable \/ gate.awaiting
           THEN UNCHANGED <<gate, in>>
           ELSE gate' = [gate EXCEPT !.awaiting = TRUE] /\ in' = Append(in, "reconnect capability")
        /\ UNCHANGED pendingName
     \/ /\ Value \in Names /\ UNCHANGED gate
        /\ IF gate.awaiting THEN pendingName' = Value /\ UNCHANGED in
                            ELSE Registered /\ UNCHANGED pendingName
     \/ Value \in {"keys", "opt"} /\ UNCHANGED <<gate, in, pendingName>>
  /\ UNCHANGED <<daemonRest, view, pending, shown>>

DaemonIdentityForgetsReady ==
  /\ DaemonGets("identity")
  /\ IF ~gate.awaiting \/ gate.stable \/ gate.announced
     THEN gate' = [gate EXCEPT !.fatal = TRUE] /\ UNCHANGED <<in, pendingName>>
     ELSE /\ gate' = [gate EXCEPT !.awaiting = FALSE, !.stable = TRUE]
          /\ pendingName' = NoName
          /\ IF pendingName = NoName THEN UNCHANGED in ELSE Registered
  /\ UNCHANGED <<daemonRest, applied, view, pending, shown>>

(* tmate_session_identity and tmate_register_session_identity, which ends the  *)
(* daemon when the handshake is not the one it asked for.                      *)
DaemonIdentity ==
  /\ DaemonGets("identity")
  /\ IF ~gate.awaiting \/ gate.stable \/ gate.announced
     THEN gate' = [gate EXCEPT !.fatal = TRUE] /\ UNCHANGED <<in, pendingName>>
     ELSE /\ LET g == [gate EXCEPT !.awaiting = FALSE, !.stable = TRUE, !.identityPending = FALSE]
             IN  gate' = IF gate.identityPending THEN Ready(g) ELSE g
          /\ pendingName' = NoName
          /\ IF pendingName = NoName THEN UNCHANGED in ELSE Registered
  /\ UNCHANGED <<daemonRest, applied, view, pending, shown>>

(* input_parse_buffer: these chunks go to this screen.                         *)
Written(screen, chunks) ==
  IF chunks = <<>> THEN screen
  ELSE IF screen # Garbled /\ \A i \in DOMAIN chunks : chunks[i] = screen + i
       THEN screen + Len(chunks)
       ELSE Garbled

DaemonLayoutNoReplay ==
  /\ DaemonGets("layout")
  /\ view' = [p \in Value |-> IF p \in DOMAIN view THEN view[p] ELSE 0]
  /\ pending' = [p \in Panes |-> <<>>]
  /\ gate' = Resume([gate EXCEPT !.layout = TRUE])
  /\ UNCHANGED <<daemonRest, in, applied, pendingName, shown>>

(* tmate_sync_layout_exact: panes that are missing are made, blank, and get    *)
(* what was kept for them; others that are not in the layout are removed.      *)
DaemonLayout ==
  /\ DaemonGets("layout")
  /\ view' = [p \in Value |-> IF p \in DOMAIN view THEN view[p] ELSE Written(0, pending[p])]
  /\ pending' = [p \in Panes |-> <<>>]
  /\ gate' = Resume([gate EXCEPT !.layout = TRUE])
  /\ UNCHANGED <<daemonRest, in, applied, pendingName, shown>>

(* tmate_snapshot_exact.                                                       *)
DaemonSnapshot ==
  /\ DaemonGets("snapshot")
  /\ IF ~gate.layout THEN UNCHANGED <<gate, view, in>>
     ELSE IF DOMAIN Value # DOMAIN view
     THEN gate' = [gate EXCEPT !.refused = TRUE] /\ in' = Append(in, "update required") /\ UNCHANGED view
     ELSE gate' = Resume([gate EXCEPT !.snapshot = TRUE]) /\ view' = Value /\ UNCHANGED in
  /\ UNCHANGED <<daemonRest, applied, pendingName, pending, shown>>

(* tmate_pty_data.                                                             *)
DaemonOutput ==
  /\ DaemonGets("pty")
  /\ IF Value.pane \in DOMAIN view
     THEN view' = [view EXCEPT ![Value.pane] = Written(@, <<Value.nth>>)] /\ UNCHANGED pending
     ELSE pending' = [pending EXCEPT ![Value.pane] = Append(@, Value.nth)] /\ UNCHANGED view
  /\ UNCHANGED <<daemonRest, in, gate, applied, pendingName, shown>>

DaemonStatus ==
  /\ DaemonGets("status") /\ shown' = Value
  /\ UNCHANGED <<daemonRest, in, gate, applied, pendingName, view, pending>>

DaemonFin ==
  /\ DaemonGets("fin") /\ gate' = [gate EXCEPT !.ending = TRUE]
  /\ UNCHANGED <<daemonRest, in, applied, pendingName, view, pending, shown>>

(* tmate_decoder_error: what is left of a torn message is not a message.       *)
DaemonTorn ==
  /\ link = "up" /\ Listening /\ out # <<>> /\ Head(out).type = "torn"
  /\ Disconnected

-----------------------------------------------------------------------------
HostReads ==
  \/ HostLayoutCapability \/ HostSnapshotCapability \/ HostReconnectCapability
  \/ HostSessionName \/ HostUpdateRequired

DaemonReads ==
  \/ DaemonHeader \/ DaemonCommand \/ DaemonIdentity \/ DaemonReady \/ DaemonLayout
  \/ DaemonSnapshot \/ DaemonOutput \/ DaemonStatus \/ DaemonFin \/ DaemonTorn \/ DaemonIgnores

Next ==
  \/ ServerLoop \/ ExecCmd \/ StatusTimer \/ StatusChanges
  \/ \E p \in Panes : PaneOutput(p) \/ SelectWindow(p)
  \/ \E p \in Panes, w \in BOOLEAN : OpenPane(p, w) \/ ClosePane(p, w)
  \/ HostReads \/ CapabilityTimeout
  \/ Connect \/ ConnectFails \/ Lost
  \/ DaemonReads \/ DaemonEnds

(* Both ends read what has arrived, the host's event loop turns, and a daemon  *)
(* that has decided to end does.  Nobody has to write, and a connection need   *)
(* not be lost.                                                                *)
Fairness == WF_vars(HostReads) /\ WF_vars(DaemonReads) /\ WF_vars(ServerLoop) /\ WF_vars(DaemonEnds)

Spec == Init /\ [][Next]_vars /\ Fairness
=============================================================================
