---------------------------- MODULE SharingProps ----------------------------
(***************************************************************************)
(* What sharing a session over a connection promises.                      *)
(***************************************************************************)
EXTENDS Sharing

Screens == 0..MaxOutput \cup {Garbled}
CommandNames == {"identity", "keys", "opt"} \cup Names
Answers == {"snapshot capability", "layout capability", "reconnect capability", "update required"} \cup Names
Signals == {"header", "ready", "fin", "identity"}
Kinds == Signals \cup {"cmd", "layout", "snapshot", "pty", "status", "torn"}

Message ==
  [type : Signals, value : {0}]
  \cup [type : {"cmd"}, value : CommandNames]
  \cup [type : {"layout"}, value : SUBSET Panes]
  \cup [type : {"snapshot"}, value : UNION {[ps -> 0..MaxOutput] : ps \in SUBSET Panes}]
  \cup [type : {"pty"}, value : [pane : Panes, nth : 1..MaxOutput]]
  \cup [type : {"status"}, value : 0..MaxStatus]
  \cup [type : {"torn"}, value : Kinds]

HostTypes ==
  /\ open \subseteq Panes /\ closed \subseteq Panes /\ written \in [Panes -> 0..MaxOutput]
  /\ status \in 0..MaxStatus /\ statusSent \in 0..NoStatus
  /\ host \in [layout : BOOLEAN, snapshot : BOOLEAN, failed : BOOLEAN, readyPending : BOOLEAN]
  /\ saved \in Seq(CommandNames) /\ told \in Names \cup {NoName}
  /\ reconnected \in BOOLEAN /\ sent \subseteq Panes

QueueTypes ==
  /\ link \in {"down", "up"} /\ conns \in 0..MaxConns
  /\ out \in Seq(Message) /\ in \in Seq(Answers)

Gates == [layout : BOOLEAN, snapshot : BOOLEAN, readyPending : BOOLEAN, awaiting : BOOLEAN,
          stable : BOOLEAN, identityPending : BOOLEAN, announced : BOOLEAN, refused : BOOLEAN,
          ending : BOOLEAN, fatal : BOOLEAN]

DaemonTypes ==
  /\ gate \in Gates
  /\ applied \in Seq(CommandNames) /\ pendingName \in Names \cup {NoName}
  /\ view \in UNION {[ps -> Screens] : ps \in SUBSET Panes}
  /\ pending \in [Panes -> Seq(1..MaxOutput)] /\ shown \in 0..NoStatus

(* Every variable has its type.                                              *)
TypeOK == HostTypes /\ QueueTypes /\ DaemonTypes

-----------------------------------------------------------------------------
(* Viewers see what the host's panes show: no screen ever lacks output or has  *)
(* some twice, whether the output came before the layout that makes its pane,  *)
(* after it, or before the snapshot; and when nothing is on its way the daemon *)
(* has the panes of the last layout with all that was written to them.         *)
Mirror ==
  /\ \A p \in DOMAIN view : view[p] # Garbled
  /\ gate.snapshot /\ out = <<>> /\ CanShow =>
       DOMAIN view = sent /\ \A p \in sent : view[p] = written[p]

(* No configuration is lost, repeated or reordered, whatever connection breaks *)
(* when: what the daemon has applied and what is on its way are the commands   *)
(* the host has saved, except that the name may be the one the relay gave.     *)
SameCommand(c, s) == c = s \/ {c, s} \subseteq Names
Rank(q, i) == Cardinality({j \in 1..i : q[j].type = "cmd"})
AsSaved ==
  /\ Len(applied) + Rank(out, Len(out)) = Len(saved)
  /\ \A i \in DOMAIN applied : SameCommand(applied[i], saved[i])
  /\ \A i \in DOMAIN out : out[i].type = "cmd" =>
       SameCommand(out[i].value, saved[Len(applied) + Rank(out, i)])

Tearing == out # <<>> /\ Head(out).type = "torn"
ConfigIntact == link = "up" /\ Listening /\ ~Tearing => AsSaved

(* Nobody is let in before the host's keys are known, its identity is settled  *)
(* if it has asked for that, and a complete picture is there; READY may come   *)
(* before any of these.                                                        *)
ViewersWait ==
  gate.announced =>
    /\ \E i \in DOMAIN applied : applied[i] = "keys"
    /\ gate.stable
    /\ DOMAIN view # {} /\ gate.snapshot

(* What HandshakeValid rests on: whoever has to act next in the handshake is   *)
(* one, the host that was asked or the daemon that was answered, and only while *)
(* the daemon waits; a daemon that waits has neither an identity nor viewers.   *)
Asked == {"reconnect capability"}
Answer == {Msg("identity", 0)}
Without(q, S) == \A i \in DOMAIN q : q[i] \notin S
AtMostOnce(q, S) == \A i, j \in DOMAIN q : q[i] \in S /\ q[j] \in S => i = j

HandshakeInv ==
  /\ AtMostOnce(in, Asked) /\ AtMostOnce(out, Answer)
  /\ Without(in, Asked) \/ Without(out, Answer)
  /\ gate.awaiting \/ (Without(in, Asked) /\ Without(out, Answer))
  /\ gate.awaiting => ~gate.stable /\ ~gate.announced
  /\ link = "down" => in = <<>> /\ gate = NoGate
  /\ ~gate.fatal

IInv == TypeOK /\ HandshakeInv

(* The identity handshake never ends a daemon: it gets one identity, after it  *)
(* has asked for it and before it has announced links, also when connections   *)
(* follow each other quickly.                                                  *)
HandshakeValid == ~gate.fatal

(* A relay that speaks the protocol takes every snapshot: it has the panes of  *)
(* the layout that was sent before it.                                         *)
SnapshotsTaken == gate.refused => FALSE \in Matching

(* A connection that stays up leads to a session that viewers can join or to   *)
(* an end of sharing that the host knows of.                                   *)
SharingStarts == link = "up" ~> gate.announced \/ host.failed \/ link = "down"

(* After a failure the daemon ends, and its viewers with it: they are not left *)
(* with a picture that does not change any more.                               *)
FailureEnds == host.failed ~> link = "down"

(* No connection ends up half way: nobody waits for a session that does not  *)
(* start, and nobody watches one that has ended.                             *)
SharingResolves == SharingStarts /\ FailureEnds

(* The daemon comes back to the panes of the shared session again and again,   *)
(* also if a layout did not fit in the buffer when it was new, or was followed  *)
(* by that of another session: any session's window that is selected is sent.  *)
LayoutCatchesUp ==
  <>[](CanShow /\ gate.snapshot) => []<>(DOMAIN view = Shared)

-----------------------------------------------------------------------------
(* What the promises above rest on.                                           *)

NoneOf(q, kinds) == \A i \in DOMAIN q : q[i].type \notin kinds
Capability == "layout capability"
NothingKept == [p \in Panes |-> <<>>]

(* The stages of a connection: nothing that has to do with panes is on its way  *)
(* or has arrived before the host has both capabilities, a daemon that refuses  *)
(* the host offers none, and the header comes before anything else.             *)
StageInv ==
  /\ link = "down" => ~host.layout /\ ~host.snapshot
  /\ host.layout => host.snapshot
  /\ \A i \in DOMAIN in : in[i] = Capability =>
       host.snapshot \/ host.failed \/ \E j \in DOMAIN in : j < i /\ in[j] = "snapshot capability"
  /\ ~host.layout =>
       /\ NoneOf(out, Bulk \cup {"torn"})
       /\ view = <<>> /\ pending = NothingKept /\ ~gate.layout /\ ~gate.snapshot
  /\ gate.refused => ~host.layout /\ Without(in, {Capability})
  /\ \A i \in DOMAIN out :
       /\ out[i].type = "torn" => i = 1
       /\ out[i].type = "header" =>
            i = 1 /\ ~host.layout /\ ~gate.refused /\ Without(in, {Capability})
  /\ gate.snapshot => gate.layout

(* The snapshot comes once, right after the layout it is of.                  *)
SnapshotInv ==
  ~Tearing => \A k \in DOMAIN out : out[k].type = "snapshot" =>
    /\ ~gate.snapshot /\ pending = NothingKept
    /\ k = 1 => gate.layout /\ DOMAIN view = DOMAIN out[k].value
    /\ \A j \in DOMAIN out : j + 1 = k => out[j] = Msg("layout", DOMAIN out[k].value)
    /\ \A j \in DOMAIN out : out[j].type \in Bulk => j + 1 >= k /\ (out[j].type = "snapshot" => j = k)

(* A daemon takes what is on its way, or will when the first connection is up. *)
Current == (link = "up" \/ (~reconnected /\ ~host.failed)) /\ ~gate.refused

(* The identity is asked for and the keys are known before a layout arrives,  *)
(* and no layout is empty.                                                    *)
Setup == {"identity", "keys"}
Has(c) == \E i \in DOMAIN applied : applied[i] = c
Comes(c) ==
  \E i \in DOMAIN out : /\ out[i] = Msg("cmd", c)
                       /\ \A j \in DOMAIN out : j <= i => out[j].type \notin Bulk
OrderInv ==
  /\ \A c \in Setup : \E i \in DOMAIN saved : saved[i] = c
  /\ Current /\ ~Tearing => \A c \in Setup : Has(c) \/ Comes(c)
  /\ gate.layout => (\A c \in Setup : Has(c)) /\ DOMAIN view # {}
  /\ Has("identity") => gate.awaiting \/ gate.stable
  /\ gate.announced => gate.snapshot /\ gate.stable
  /\ link = "down" => applied = <<>>
  /\ open # {}
  /\ \A i \in DOMAIN out : out[i].type = "layout" => out[i].value # {}

ArrivalInv == StageInv /\ SnapshotInv /\ OrderInv

(* What is on its way to, or has arrived at, a daemon that goes on listening. *)
ConfigInv == Current /\ ~Tearing => AsSaved

(* A message about a pane.                                                    *)
Mentions(m, p) ==
  \/ m.type = "pty" /\ m.value.pane = p
  \/ m.type = "layout" /\ p \in m.value
  \/ m.type = "snapshot" /\ p \in DOMAIN m.value

(* A layout lacks a pane that is not known yet, or one that is closed.        *)
NotYet(p, i) ==
  /\ p \notin DOMAIN view /\ pending[p] = <<>>
  /\ \A j \in DOMAIN out : j < i => ~Mentions(out[j], p)
NoMore(p, i) == p \in closed /\ \A j \in DOMAIN out : i < j => ~Mentions(out[j], p)

(* A pane lives once, and so does its place in what the daemon is sent.       *)
LifeInv ==
  /\ open \cap closed = {}
  /\ \A p \in Panes \ (open \cup closed) :
       /\ written[p] = 0 /\ pending[p] = <<>> /\ p \notin DOMAIN view /\ p \notin sent
       /\ \A i \in DOMAIN out : ~Mentions(out[i], p)
  /\ \A i \in DOMAIN out, p \in Panes : out[i].type = "layout" /\ p \notin out[i].value =>
       NotYet(p, i) \/ NoMore(p, i)

(* The layout that was sent last is the last on its way or the daemon's.      *)
LastInv ==
  CanShow /\ ~Tearing =>
    \/ \E i \in DOMAIN out : /\ out[i] = Msg("layout", sent)
                             /\ \A j \in DOMAIN out : i < j => out[j].type # "layout"
    \/ NoneOf(out, {"layout"}) /\ DOMAIN view = sent

(* In q are the chunks of p after the first b, in order, each at most once; if *)
(* live, all up to the last one written, w.                                   *)
Piece(q, i, p, n) == q[i] = Msg("pty", [pane |-> p, nth |-> n])
Flow(b, q, w, live, p) ==
  /\ b \in 0..w
  /\ \A i \in DOMAIN q, n \in 1..MaxOutput : Piece(q, i, p, n) =>
       /\ n > b /\ n <= w
       /\ \A m \in (b + 1)..(n - 1) : \E j \in DOMAIN q : j < i /\ Piece(q, j, p, m)
       /\ \A j \in DOMAIN q : j < i => ~Piece(q, j, p, n)
  /\ live => \A n \in (b + 1)..w : \E i \in DOMAIN q : Piece(q, i, p, n)

(* What is on its way continues what the daemon has of a pane, or will have    *)
(* with the snapshot's screens if that is still to come.                      *)
Listed(p) == CanShow /\ p \in sent \cup open
Base(screens, kept, p) == IF p \in DOMAIN screens THEN screens[p] ELSE Len(kept[p])
Continues(screens, p) == Flow(Base(screens, pending, p), out, written[p], Listed(p), p)

ScreenInv ==
  /\ \A p \in DOMAIN view : view[p] # Garbled
  /\ ~Tearing =>
       /\ \A p \in Panes : \A i \in DOMAIN pending[p] : pending[p][i] = i
       /\ NoneOf(out, {"snapshot"}) => \A p \in Panes : Continues(view, p)
       /\ \A k \in DOMAIN out : out[k].type = "snapshot" => \A p \in Panes : Continues(out[k].value, p)

PictureInv == LifeInv /\ LastInv /\ ScreenInv

=============================================================================
