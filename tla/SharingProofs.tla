--------------------------- MODULE SharingProofs ---------------------------
(***************************************************************************)
(* Theorems of Sharing, for any panes, sessions, names and bounds, in four  *)
(* layers, each inductive with the ones before:                             *)
(*   IInv        types, and the identity handshake: the request and its     *)
(*               answer are at most one between them, and exist only while  *)
(*               the daemon waits;                                          *)
(*   ArrivalInv  what comes before what on the way to the daemon;           *)
(*   ConfigInv   the commands applied and on their way are those saved;     *)
(*   PictureInv  the output of each pane, applied and on its way, is what   *)
(*               was written, if all panes are in the session that is       *)
(*               shared.                                                    *)
(***************************************************************************)
EXTENDS SharingProps, FiniteSetTheorems, FunctionTheorems, WellFoundedInduction, TLAPS

(* A queue that gained only messages outside S.                              *)
Gained(q, r, S) ==
  /\ Len(q) <= Len(r)
  /\ \A i \in 1..Len(q) : r[i] = q[i]
  /\ \A i \in Len(q) + 1..Len(r) : r[i] \notin S

(* The handshake does not notice that q became r.                            *)
Keeps(q, r, S) ==
  /\ Without(q, S) => Without(r, S)
  /\ AtMostOnce(q, S) => AtMostOnce(r, S)

LEMMA GainedKeeps ==
  ASSUME NEW T, NEW q \in Seq(T), NEW r \in Seq(T), NEW S, Gained(q, r, S)
  PROVE  Keeps(q, r, S)
<1>1. DOMAIN q = 1..Len(q) /\ DOMAIN r = 1..Len(r) /\ Len(q) \in Nat /\ Len(r) \in Nat
  OBVIOUS
<1>2. \A i \in 1..Len(r) : i \in 1..Len(q) \/ i \in Len(q) + 1..Len(r)
  BY <1>1
<1>3. Without(q, S) => Without(r, S)
  BY <1>1, <1>2 DEF Gained, Without
<1>4. \A i \in 1..Len(r) : r[i] \in S => i \in 1..Len(q) /\ q[i] \in S
  BY <1>2, Zenon DEF Gained
<1>5. AtMostOnce(q, S) => AtMostOnce(r, S)
  BY <1>1, <1>4, Zenon DEF AtMostOnce
<1>6. QED  BY <1>3, <1>5 DEF Keeps

LEMMA AppendGains ==
  ASSUME NEW T, NEW q \in Seq(T), NEW x \in T, NEW S, x \notin S
  PROVE  Append(q, x) \in Seq(T) /\ Gained(q, Append(q, x), S)
<1>1. Append(q, x) \in Seq(T) /\ Len(Append(q, x)) = Len(q) + 1
  OBVIOUS
<1>2. \A i \in 1..Len(q) : Append(q, x)[i] = q[i]
  OBVIOUS
<1>3. \A i \in Len(q) + 1..Len(q) + 1 : Append(q, x)[i] = x
  OBVIOUS
<1>4. QED  BY <1>1, <1>2, <1>3 DEF Gained

LEMMA GainedTwice ==
  ASSUME NEW T, NEW q \in Seq(T), NEW r \in Seq(T), NEW s \in Seq(T), NEW S,
         Gained(q, r, S), Gained(r, s, S)
  PROVE  Gained(q, s, S)
<1>1. Len(q) \in Nat /\ Len(r) \in Nat /\ Len(s) \in Nat
  OBVIOUS
<1>2. \A i \in Len(q) + 1..Len(s) : s[i] \notin S
  <2> SUFFICES ASSUME NEW i \in Len(q) + 1..Len(s) PROVE s[i] \notin S
    OBVIOUS
  <2>1. CASE i \in Len(q) + 1..Len(r)
    BY <1>1, <2>1 DEF Gained
  <2>2. CASE i \in Len(r) + 1..Len(s)
    BY <2>2 DEF Gained
  <2>3. QED  BY <1>1, <2>1, <2>2
<1>3. QED  BY <1>1, <1>2 DEF Gained

LEMMA TailKeeps ==
  ASSUME NEW T, NEW q \in Seq(T), q # <<>>, NEW S
  PROVE  /\ Tail(q) \in Seq(T) /\ Head(q) \in T
         /\ Without(q, S) => Without(Tail(q), S) /\ Head(q) \notin S
         /\ AtMostOnce(q, S) => AtMostOnce(Tail(q), S)
         /\ AtMostOnce(q, S) /\ Head(q) \in S => Without(Tail(q), S)
<1>1. /\ Len(q) \in Nat \ {0} /\ DOMAIN q = 1..Len(q) /\ Tail(q) \in Seq(T)
      /\ DOMAIN Tail(q) = 1..Len(q) - 1
      /\ \A i \in 1..Len(q) - 1 : Tail(q)[i] = q[i + 1]
      /\ Head(q) = q[1] /\ Head(q) \in T
  OBVIOUS
<1>2. Without(q, S) => Without(Tail(q), S) /\ Head(q) \notin S
  BY <1>1 DEF Without
<1>3. AtMostOnce(q, S) => AtMostOnce(Tail(q), S)
  BY <1>1 DEF AtMostOnce
<1>4. AtMostOnce(q, S) /\ Head(q) \in S => Without(Tail(q), S)
  BY <1>1 DEF AtMostOnce, Without
<1>5. QED  BY <1>1, <1>2, <1>3, <1>4

-----------------------------------------------------------------------------
(* Messages                                                                  *)

LEMMA MessageTypes ==
  /\ \A k \in Signals : Msg(k, 0) \in Message
  /\ \A c \in CommandNames : Msg("cmd", c) \in Message
  /\ \A ps \in SUBSET Panes : Msg("layout", ps) \in Message
  /\ \A ps \in SUBSET Panes : \A f \in [ps -> 0..MaxOutput] : Msg("snapshot", f) \in Message
  /\ \A c \in [pane : Panes, nth : 1..MaxOutput] : Msg("pty", c) \in Message
  /\ \A v \in 0..MaxStatus : Msg("status", v) \in Message
  /\ \A k \in Kinds : Msg("torn", k) \in Message
<1>1. \A k \in Signals : Msg(k, 0) \in [type : Signals, value : {0}]
  BY DEF Msg
<1>2. \A c \in CommandNames : Msg("cmd", c) \in [type : {"cmd"}, value : CommandNames]
  BY DEF Msg
<1>3. \A ps \in SUBSET Panes : Msg("layout", ps) \in [type : {"layout"}, value : SUBSET Panes]
  BY DEF Msg
<1>4. \A ps \in SUBSET Panes : \A f \in [ps -> 0..MaxOutput] :
        Msg("snapshot", f) \in
          [type : {"snapshot"}, value : UNION {[qs -> 0..MaxOutput] : qs \in SUBSET Panes}]
  BY DEF Msg
<1>5. \A c \in [pane : Panes, nth : 1..MaxOutput] :
        Msg("pty", c) \in [type : {"pty"}, value : [pane : Panes, nth : 1..MaxOutput]]
  BY Zenon DEF Msg
<1>6. \A v \in 0..MaxStatus : Msg("status", v) \in [type : {"status"}, value : 0..MaxStatus]
  BY DEF Msg
<1>7. \A k \in Kinds : Msg("torn", k) \in [type : {"torn"}, value : Kinds]
  BY DEF Msg
<1>8. QED  BY <1>1, <1>2, <1>3, <1>4, <1>5, <1>6, <1>7, Zenon DEF Message

LEMMA Others ==
  ASSUME NEW k, NEW v, k # "identity"
  PROVE  Msg(k, v) \notin Answer
  BY DEF Answer, Msg

(* What a message carries depends on its kind.                               *)
LEMMA Carried ==
  ASSUME NEW m \in Message
  PROVE  /\ m.type \in Kinds
         /\ m.type = "identity" => m \in Answer
         /\ m.type = "cmd" => m.value \in CommandNames
         /\ m.type = "layout" => m.value \in SUBSET Panes
         /\ m.type = "snapshot" => m.value \in UNION {[ps -> 0..MaxOutput] : ps \in SUBSET Panes}
         /\ m.type = "pty" => m.value \in [pane : Panes, nth : 1..MaxOutput]
         /\ m.type = "status" => m.value \in 0..MaxStatus
<1>1. CASE m \in [type : Signals, value : {0}]
  <2>1. m.type \in Signals /\ m = [type |-> m.type, value |-> 0]
    BY <1>1
  <2>2. QED  BY <2>1 DEF Signals, Kinds, Answer, Msg
<1>2. CASE m \in [type : {"cmd"}, value : CommandNames]
  BY <1>2 DEF Kinds
<1>3. CASE m \in [type : {"layout"}, value : SUBSET Panes]
  BY <1>3 DEF Kinds
<1>4. CASE m \in [type : {"snapshot"}, value : UNION {[ps -> 0..MaxOutput] : ps \in SUBSET Panes}]
  BY <1>4 DEF Kinds
<1>5. CASE m \in [type : {"pty"}, value : [pane : Panes, nth : 1..MaxOutput]]
  BY <1>5, Zenon DEF Kinds
<1>6. CASE m \in [type : {"status"}, value : 0..MaxStatus]
  BY <1>6 DEF Kinds
<1>7. CASE m \in [type : {"torn"}, value : Kinds]
  BY <1>7 DEF Kinds
<1>8. QED  BY <1>1, <1>2, <1>3, <1>4, <1>5, <1>6, <1>7, Zenon DEF Message

(* Queueing another message.                                                 *)
LEMMA Queued ==
  ASSUME NEW q \in Seq(Message), NEW m \in Message, m \notin Answer
  PROVE  Append(q, m) \in Seq(Message) /\ Gained(q, Append(q, m), Answer)
  BY AppendGains, Zenon

LEMMA Same ==
  ASSUME NEW T, NEW q \in Seq(T), NEW S
  PROVE  Gained(q, q, S)
  BY DEF Gained

-----------------------------------------------------------------------------
(* Steps of the host                                                         *)

(* A step that leaves the daemon and its answers alone and queues no         *)
(* identity.                                                                 *)
LEMMA HostStep ==
  ASSUME IInv, HostTypes', out' \in Seq(Message), Keeps(out, out', Answer),
         UNCHANGED <<linkVars, in, daemonVars>>
  PROVE  IInv'
<1>1. TypeOK'
  BY DEF IInv, TypeOK, QueueTypes, DaemonTypes, linkVars, daemonVars
<1>2. HandshakeInv'
  BY Zenon DEF IInv, HandshakeInv, Keeps, linkVars, daemonVars, Without, AtMostOnce
<1>3. QED  BY <1>1, <1>2 DEF IInv

LEMMA FailTypes ==
  ASSUME IInv, NEW q \in Seq(Message), Gained(out, q, Answer), Fail(q)
  PROVE  /\ host' \in [layout : BOOLEAN, snapshot : BOOLEAN, failed : BOOLEAN, readyPending : BOOLEAN]
         /\ out' \in Seq(Message) /\ Gained(out, out', Answer)
<1>1. Fin \in Message /\ Fin \notin Answer
  BY MessageTypes, Others DEF Fin, Signals
<1>2. out' = Append(q, Fin)
  BY DEF Fail
<1>3. out' \in Seq(Message) /\ Gained(q, out', Answer)
  BY <1>1, <1>2, Queued, Zenon
<1>4. out \in Seq(Message)
  BY DEF IInv, TypeOK, QueueTypes
<1>5. Gained(out, out', Answer)
  BY <1>3, <1>4, GainedTwice, Zenon
<1>6. QED  BY <1>3, <1>5 DEF Fail, IInv, TypeOK, HostTypes

LEMMA SyncTypes ==
  ASSUME IInv, NEW ps \in SUBSET Panes, SyncLayout(ps)
  PROVE  /\ host' \in [layout : BOOLEAN, snapshot : BOOLEAN, failed : BOOLEAN, readyPending : BOOLEAN]
         /\ sent' \subseteq Panes
         /\ out' \in Seq(Message) /\ Keeps(out, out', Answer)
<1>1. /\ host \in [layout : BOOLEAN, snapshot : BOOLEAN, failed : BOOLEAN, readyPending : BOOLEAN]
      /\ sent \subseteq Panes /\ out \in Seq(Message)
  BY DEF IInv, TypeOK, HostTypes, QueueTypes
<1>2. Gained(out, out, Answer)
  BY <1>1, Same
<1>3. CASE UNCHANGED <<host, sent, out>>
  BY <1>1, <1>2, <1>3, GainedKeeps
<1>4. CASE UNCHANGED host /\ sent' = ps /\ out' = Append(out, Msg("layout", ps))
  <2>1. Msg("layout", ps) \in Message /\ Msg("layout", ps) \notin Answer
    BY MessageTypes, Others
  <2>2. out' \in Seq(Message) /\ Gained(out, out', Answer)
    BY <1>1, <1>4, <2>1, Queued, Zenon
  <2>3. QED  BY <1>1, <1>4, <2>2, GainedKeeps
<1>5. CASE UNCHANGED sent /\ Fail(out)
  <2>1. /\ host' \in [layout : BOOLEAN, snapshot : BOOLEAN, failed : BOOLEAN, readyPending : BOOLEAN]
        /\ out' \in Seq(Message) /\ Gained(out, out', Answer)
    BY <1>1, <1>2, <1>5, FailTypes
  <2>2. QED  BY <1>1, <1>5, <2>1, GainedKeeps
<1>6. QED  BY <1>3, <1>4, <1>5, Zenon DEF SyncLayout

LEMMA PanesTypes ==
  ASSUME NEW ps \in SUBSET Panes, NEW s
  PROVE  PanesOf(s, ps) \in SUBSET Panes /\ FirstByName(ps) \in SUBSET Panes
  BY DEF PanesOf, FirstByName

LEMMA ServerLoopStep == ASSUME IInv, ServerLoop PROVE IInv'
<1>1. open \in SUBSET Panes
  BY DEF IInv, TypeOK, HostTypes
<1>2. Shared \in SUBSET Panes
  BY <1>1, PanesTypes DEF Shared
<1>3. SyncLayout(Shared) /\ UNCHANGED <<linkVars, in, daemonVars>>
  BY DEF ServerLoop
<1>4. HostTypes'
  BY <1>2, <1>3, SyncTypes DEF ServerLoop, IInv, TypeOK, HostTypes, paneVars
<1>5. QED  BY <1>2, <1>3, <1>4, SyncTypes, HostStep

LEMMA OpenPaneStep ==
  ASSUME IInv, NEW p \in Panes, NEW w \in BOOLEAN, OpenPane(p, w)
  PROVE  IInv'
<1>1. open' \in SUBSET Panes
  BY DEF OpenPane, IInv, TypeOK, HostTypes
<1>2. PanesOf(Session[p], open') \in SUBSET Panes
  BY <1>1, PanesTypes
<1>3. SyncLayout(PanesOf(Session[p], open')) \/ UNCHANGED <<host, sent, out>>
  BY DEF OpenPane
<1>4. /\ host' \in [layout : BOOLEAN, snapshot : BOOLEAN, failed : BOOLEAN, readyPending : BOOLEAN]
      /\ sent' \subseteq Panes
      /\ out' \in Seq(Message) /\ Keeps(out, out', Answer)
  <2>1. CASE UNCHANGED <<host, sent, out>>
    BY <2>1, Same, GainedKeeps DEF IInv, TypeOK, HostTypes, QueueTypes
  <2>2. QED  BY <1>2, <1>3, <2>1, SyncTypes
<1>5. HostTypes'
  BY <1>1, <1>4 DEF OpenPane, IInv, TypeOK, HostTypes
<1>6. QED  BY <1>4, <1>5, HostStep DEF OpenPane

LEMMA ClosePaneStep ==
  ASSUME IInv, NEW p \in Panes, NEW w \in BOOLEAN, ClosePane(p, w)
  PROVE  IInv'
<1>1. open' \in SUBSET Panes /\ closed' \in SUBSET Panes
  BY DEF ClosePane, IInv, TypeOK, HostTypes
<1>2. PanesOf(Session[p], open') \in SUBSET Panes
  BY <1>1, PanesTypes
<1>3. SyncLayout(PanesOf(Session[p], open')) \/ UNCHANGED <<host, sent, out>>
  BY DEF ClosePane
<1>4. /\ host' \in [layout : BOOLEAN, snapshot : BOOLEAN, failed : BOOLEAN, readyPending : BOOLEAN]
      /\ sent' \subseteq Panes
      /\ out' \in Seq(Message) /\ Keeps(out, out', Answer)
  <2>1. CASE UNCHANGED <<host, sent, out>>
    BY <2>1, Same, GainedKeeps DEF IInv, TypeOK, HostTypes, QueueTypes
  <2>2. QED  BY <1>2, <1>3, <2>1, SyncTypes
<1>5. HostTypes'
  BY <1>1, <1>4 DEF ClosePane, IInv, TypeOK, HostTypes
<1>6. QED  BY <1>4, <1>5, HostStep DEF ClosePane

LEMMA SelectWindowStep == ASSUME IInv, NEW p \in Panes, SelectWindow(p) PROVE IInv'
<1>1. open \in SUBSET Panes
  BY DEF IInv, TypeOK, HostTypes
<1>2. PanesOf(Session[p], open) \in SUBSET Panes
  BY <1>1, PanesTypes
<1>3. SyncLayout(PanesOf(Session[p], open)) /\ UNCHANGED <<linkVars, in, daemonVars>>
  BY DEF SelectWindow
<1>4. HostTypes'
  BY <1>2, <1>3, SyncTypes DEF SelectWindow, IInv, TypeOK, HostTypes, paneVars
<1>5. QED  BY <1>2, <1>3, <1>4, SyncTypes, HostStep

LEMMA TornKeeps ==
  ASSUME NEW q \in Seq(Message), q # <<>>
  PROVE  Torn(q) \in Seq(Message) /\ Keeps(q, Torn(q), Answer)
<1> DEFINE t == Msg("torn", Head(q).type)
<1>1. Head(q) \in Message /\ Tail(q) \in Seq(Message) /\ Len(q) \in Nat \ {0} /\ DOMAIN q = 1..Len(q)
  OBVIOUS
<1>2. t \in Message /\ t \notin Answer
  BY <1>1, Carried, MessageTypes, Others
<1> HIDE DEF t
<1>3. /\ <<t>> \o Tail(q) \in Seq(Message) /\ Len(<<t>> \o Tail(q)) = Len(q)
      /\ (<<t>> \o Tail(q))[1] = t
      /\ \A i \in 2..Len(q) : (<<t>> \o Tail(q))[i] = q[i]
  BY <1>1, <1>2
<1>4. Torn(q) = <<t>> \o Tail(q)
  BY DEF Torn, t
<1>5. DOMAIN Torn(q) = 1..Len(q) /\ Torn(q)[1] = t /\ \A i \in 2..Len(q) : Torn(q)[i] = q[i]
  BY <1>1, <1>3, <1>4
<1>6. \A i \in 1..Len(q) : Torn(q)[i] \in Answer => Torn(q)[i] = q[i]
  BY <1>2, <1>5
<1>7. Without(q, Answer) => Without(Torn(q), Answer)
  BY <1>1, <1>5, <1>6, Zenon DEF Without
<1>8. AtMostOnce(q, Answer) => AtMostOnce(Torn(q), Answer)
  BY <1>1, <1>5, <1>6, Zenon DEF AtMostOnce
<1>9. QED  BY <1>3, <1>4, <1>7, <1>8 DEF Keeps

LEMMA RoomWhenEmpty == Room(<<>>)
<1>1. {i \in DOMAIN <<>> : <<>>[i].type \in Bulk} = {}
  OBVIOUS
<1>2. Cardinality({}) = 0
  BY FS_EmptySet
<1>3. QED  BY <1>1, <1>2, SharingAssumption DEF Room

LEMMA PaneOutputStep == ASSUME IInv, NEW p \in Panes, PaneOutput(p) PROVE IInv'
<1>1. out \in Seq(Message) /\ written \in [Panes -> 0..MaxOutput] /\ MaxOutput \in Nat
  BY SharingAssumption DEF IInv, TypeOK, HostTypes, QueueTypes
<1>2. written' \in [Panes -> 0..MaxOutput] /\ written'[p] \in 1..MaxOutput
  BY <1>1 DEF PaneOutput
<1> DEFINE chunk == Msg("pty", [pane |-> p, nth |-> written'[p]])
<1>3. chunk \in Message /\ chunk \notin Answer
  BY <1>2, MessageTypes, Others
<1>4. \/ UNCHANGED out
      \/ out' = Append(out, chunk)
      \/ out # <<>> /\ out' = Append(Torn(out), chunk)
  BY RoomWhenEmpty DEF PaneOutput
<1> HIDE DEF chunk
<1>5. out' \in Seq(Message) /\ Keeps(out, out', Answer)
  <2>1. CASE UNCHANGED out
    BY <1>1, <2>1, Same, GainedKeeps
  <2>2. CASE out' = Append(out, chunk)
    <3>1. out' \in Seq(Message) /\ Gained(out, out', Answer)
      BY <1>1, <1>3, <2>2, Queued, Zenon
    <3>2. QED  BY <1>1, <3>1, GainedKeeps
  <2>3. CASE out # <<>> /\ out' = Append(Torn(out), chunk)
    <3>1. Torn(out) \in Seq(Message) /\ Keeps(out, Torn(out), Answer)
      BY <1>1, <2>3, TornKeeps
    <3>2. out' \in Seq(Message) /\ Gained(Torn(out), out', Answer)
      BY <1>3, <2>3, <3>1, Queued, Zenon
    <3>3. Keeps(Torn(out), out', Answer)
      BY <3>1, <3>2, GainedKeeps
    <3>4. QED  BY <3>1, <3>2, <3>3, Zenon DEF Keeps
  <2>4. QED  BY <1>4, <2>1, <2>2, <2>3
<1>6. HostTypes' /\ UNCHANGED <<linkVars, in, daemonVars>>
  BY <1>2 DEF PaneOutput, IInv, TypeOK, HostTypes, hostVars
<1>7. QED  BY <1>5, <1>6, HostStep

LEMMA ExecCmdStep == ASSUME IInv, ExecCmd PROVE IInv'
<1>1. out \in Seq(Message) /\ saved \in Seq(CommandNames) /\ "opt" \in CommandNames
  BY DEF IInv, TypeOK, HostTypes, QueueTypes, CommandNames
<1>2. Msg("cmd", "opt") \in Message /\ Msg("cmd", "opt") \notin Answer
  BY <1>1, MessageTypes, Others
<1>3. out' \in Seq(Message) /\ Gained(out, out', Answer)
  BY <1>1, <1>2, Queued, Zenon DEF ExecCmd
<1>4. saved' \in Seq(CommandNames)
  BY <1>1 DEF ExecCmd
<1>5. HostTypes' /\ UNCHANGED <<linkVars, in, daemonVars>>
  BY <1>4 DEF ExecCmd, IInv, TypeOK, HostTypes, paneVars
<1>6. QED  BY <1>1, <1>3, <1>5, GainedKeeps, HostStep

LEMMA StatusTypes ==
  ASSUME IInv, NEW q \in Seq(Message), Gained(out, q, Answer)
  PROVE  WithStatus(q) \in Seq(Message) /\ Gained(out, WithStatus(q), Answer)
<1>1. status \in 0..MaxStatus /\ out \in Seq(Message)
  BY DEF IInv, TypeOK, HostTypes, QueueTypes
<1>2. Msg("status", status) \in Message /\ Msg("status", status) \notin Answer
  BY <1>1, MessageTypes, Others
<1>3. CASE WithStatus(q) = q
  BY <1>3
<1>4. CASE WithStatus(q) = Append(q, Msg("status", status))
  <2>1. WithStatus(q) \in Seq(Message) /\ Gained(q, WithStatus(q), Answer)
    BY <1>2, <1>4, Queued, Zenon
  <2>2. QED  BY <1>1, <2>1, GainedTwice, Zenon
<1>5. QED  BY <1>3, <1>4 DEF WithStatus

LEMMA StatusTimerStep == ASSUME IInv, StatusTimer PROVE IInv'
<1>1. out \in Seq(Message) /\ status \in 0..MaxStatus /\ MaxStatus \in Nat
  BY SharingAssumption DEF IInv, TypeOK, HostTypes, QueueTypes
<1>2. Gained(out, out, Answer)
  BY <1>1, Same
<1>3. out' \in Seq(Message) /\ Gained(out, out', Answer)
  BY <1>1, <1>2, StatusTypes DEF StatusTimer
<1>4. statusSent' \in 0..NoStatus
  BY <1>1 DEF StatusTimer, NoStatus
<1>5. HostTypes' /\ UNCHANGED <<linkVars, in, daemonVars>>
  BY <1>4 DEF StatusTimer, IInv, TypeOK, HostTypes, paneVars, NoStatus
<1>6. QED  BY <1>1, <1>3, <1>5, GainedKeeps, HostStep

LEMMA StatusChangesStep == ASSUME IInv, StatusChanges PROVE IInv'
<1>1. out \in Seq(Message) /\ status \in 0..MaxStatus /\ MaxStatus \in Nat
  BY SharingAssumption DEF IInv, TypeOK, HostTypes, QueueTypes
<1>2. out' \in Seq(Message) /\ Keeps(out, out', Answer)
  BY <1>1, Same, GainedKeeps DEF StatusChanges
<1>3. status' \in 0..MaxStatus
  BY <1>1 DEF StatusChanges
<1>4. HostTypes' /\ UNCHANGED <<linkVars, in, daemonVars>>
  BY <1>3 DEF StatusChanges, IInv, TypeOK, HostTypes, paneVars, hostVars, NoStatus
<1>5. QED  BY <1>2, <1>4, HostStep

LEMMA CapabilityTimeoutStep == ASSUME IInv, CapabilityTimeout PROVE IInv'
<1>1. out \in Seq(Message)
  BY DEF IInv, TypeOK, QueueTypes
<1>2. Gained(out, out, Answer) /\ Fail(out)
  BY <1>1, Same DEF CapabilityTimeout
<1>3. /\ host' \in [layout : BOOLEAN, snapshot : BOOLEAN, failed : BOOLEAN, readyPending : BOOLEAN]
      /\ out' \in Seq(Message) /\ Gained(out, out', Answer)
  BY <1>1, <1>2, FailTypes
<1>4. HostTypes' /\ UNCHANGED <<linkVars, in, daemonVars>>
  BY <1>3 DEF CapabilityTimeout, IInv, TypeOK, HostTypes, paneVars
<1>5. QED  BY <1>1, <1>3, <1>4, GainedKeeps, HostStep

-----------------------------------------------------------------------------
(* Answers of the daemon                                                     *)

(* The host reads anything but the request for its identity.                 *)
LEMMA HostReadsStep ==
  ASSUME IInv, NEW message, HostGets(message), message # "reconnect capability",
         HostTypes', out' \in Seq(Message), Keeps(out, out', Answer),
         UNCHANGED <<linkVars, daemonVars>>
  PROVE  IInv'
<1>1. in \in Seq(Answers) /\ in # <<>> /\ Head(in) = message /\ in' = Tail(in)
  BY DEF HostGets, IInv, TypeOK, QueueTypes
<1>2. in' \in Seq(Answers) /\ Keeps(in, in', Asked)
  BY <1>1, TailKeeps, Zenon DEF Keeps
<1>3. TypeOK'
  BY <1>2 DEF IInv, TypeOK, QueueTypes, DaemonTypes, linkVars, daemonVars
<1>4. link' # "down"
  BY <1>1 DEF IInv, HandshakeInv, linkVars
<1>5. HandshakeInv'
  BY <1>2, <1>4, Zenon DEF IInv, HandshakeInv, Keeps, daemonVars
<1>6. QED  BY <1>3, <1>5 DEF IInv

HostRecord == [layout : BOOLEAN, snapshot : BOOLEAN, failed : BOOLEAN, readyPending : BOOLEAN]

LEMMA StartSharingTypes ==
  ASSUME IInv, NEW h \in HostRecord, StartSharing(h)
  PROVE  /\ host' \in HostRecord /\ sent' \subseteq Panes /\ statusSent' \in 0..NoStatus
         /\ out' \in Seq(Message) /\ Keeps(out, out', Answer)
<1>1. /\ out \in Seq(Message) /\ written \in [Panes -> 0..MaxOutput]
      /\ statusSent \in 0..NoStatus /\ status \in 0..NoStatus
      /\ open \in SUBSET Panes
  <2>1. /\ out \in Seq(Message) /\ written \in [Panes -> 0..MaxOutput]
        /\ statusSent \in 0..NoStatus /\ status \in 0..MaxStatus /\ open \in SUBSET Panes
    BY DEF IInv, TypeOK, HostTypes, QueueTypes
  <2>2. MaxStatus \in Nat
    BY SharingAssumption
  <2>3. status \in 0..NoStatus
    BY <2>1, <2>2 DEF NoStatus
  <2>4. QED  BY <2>1, <2>3
<1>2. Shared \in SUBSET Panes
  BY <1>1, PanesTypes DEF Shared
<1>3. Snapshot \in [Shared -> 0..MaxOutput]
  BY <1>1, <1>2 DEF Snapshot
<1> DEFINE withLayout == IF Room(out) THEN Append(out, Msg("layout", Shared)) ELSE out
           withSnapshot == Append(withLayout, Msg("snapshot", Snapshot))
<1>4. Gained(out, out, Answer)
  BY <1>1, Same
<1>5. withLayout \in Seq(Message) /\ Gained(out, withLayout, Answer)
  <2>1. Msg("layout", Shared) \in Message /\ Msg("layout", Shared) \notin Answer
    BY <1>2, MessageTypes, Others
  <2>2. QED  BY <1>1, <1>4, <2>1, Queued
<1> HIDE DEF withLayout
<1>6. withSnapshot \in Seq(Message) /\ Gained(out, withSnapshot, Answer)
  <2>1. Msg("snapshot", Snapshot) \in Message /\ Msg("snapshot", Snapshot) \notin Answer
    BY <1>2, <1>3, MessageTypes, Others
  <2>2. withSnapshot \in Seq(Message) /\ Gained(withLayout, withSnapshot, Answer)
    BY <1>5, <2>1, Queued
  <2>3. QED  BY <1>1, <1>5, <2>2, GainedTwice, Zenon
<1> HIDE DEF withSnapshot
<1>7. Fin \in Message /\ Fin \notin Answer /\ Msg("ready", 0) \in Message /\ Msg("ready", 0) \notin Answer
  BY MessageTypes, Others DEF Fin, Signals
<1>8. host' \in HostRecord /\ sent' \subseteq Panes /\ statusSent' \in 0..NoStatus
  <2>1. host' = [h EXCEPT !.failed = TRUE] \/ host' = [h EXCEPT !.readyPending = FALSE]
    BY Zenon DEF StartSharing
  <2>2. sent' = Shared \/ sent' = {}
    BY DEF StartSharing
  <2>3. statusSent' = status \/ statusSent' = statusSent
    BY DEF StartSharing
  <2>4. host' \in HostRecord
    BY <2>1 DEF HostRecord
  <2>5. QED  BY <1>1, <1>2, <2>2, <2>3, <2>4
<1>9. \/ out' = Append(out, Fin)
      \/ out' = WithStatus(withSnapshot) \o <<Msg("ready", 0)>>
      \/ out' = WithStatus(withSnapshot) \o <<>>
      \/ out' = WithStatus(Append(withLayout, Fin))
  BY DEF StartSharing, withLayout, withSnapshot
<1>10. out' \in Seq(Message) /\ Gained(out, out', Answer)
  <2>1. CASE out' = Append(out, Fin)
    BY <1>1, <1>7, <2>1, Queued
  <2>2. WithStatus(withSnapshot) \in Seq(Message) /\ Gained(out, WithStatus(withSnapshot), Answer)
    BY <1>6, StatusTypes
  <2>3. CASE out' = WithStatus(withSnapshot) \o <<>>
    <3>1. out' = WithStatus(withSnapshot)
      BY <2>2, <2>3
    <3>2. QED  BY <2>2, <3>1
  <2>4. CASE out' = WithStatus(withSnapshot) \o <<Msg("ready", 0)>>
    <3>1. Append(WithStatus(withSnapshot), Msg("ready", 0)) = WithStatus(withSnapshot) \o <<Msg("ready", 0)>>
      BY <1>7, <2>2
    <3>2. out' = Append(WithStatus(withSnapshot), Msg("ready", 0))
      BY <2>4, <3>1
    <3>3. out' \in Seq(Message) /\ Gained(WithStatus(withSnapshot), out', Answer)
      BY <1>7, <2>2, <3>2, Queued, Zenon
    <3>4. QED  BY <1>1, <2>2, <3>3, GainedTwice, Zenon
  <2>5. CASE out' = WithStatus(Append(withLayout, Fin))
    <3>1. Append(withLayout, Fin) \in Seq(Message) /\ Gained(withLayout, Append(withLayout, Fin), Answer)
      BY <1>5, <1>7, Queued
    <3>2. Gained(out, Append(withLayout, Fin), Answer)
      BY <1>1, <1>5, <3>1, GainedTwice, Zenon
    <3>3. QED  BY <2>5, <3>1, <3>2, StatusTypes, Zenon
  <2>6. QED  BY <1>9, <2>1, <2>3, <2>4, <2>5, Zenon
<1>11. QED  BY <1>1, <1>8, <1>10, GainedKeeps

LEMMA NegotiatedTypes ==
  ASSUME IInv, NEW c \in {"layout", "snapshot"}, Negotiated(c)
  PROVE  /\ host' \in HostRecord /\ sent' \subseteq Panes /\ statusSent' \in 0..NoStatus
         /\ out' \in Seq(Message) /\ Keeps(out, out', Answer)
<1>1. /\ host \in HostRecord /\ sent \subseteq Panes /\ statusSent \in 0..NoStatus
      /\ out \in Seq(Message)
  BY DEF IInv, TypeOK, HostTypes, QueueTypes, HostRecord
<1>2. Keeps(out, out, Answer)
  BY <1>1, Same, GainedKeeps
<1> DEFINE h == [host EXCEPT ![c] = TRUE]
<1>3. h \in HostRecord
  BY <1>1 DEF HostRecord
<1>4. CASE UNCHANGED <<host, sent, statusSent, out>>
  BY <1>1, <1>2, <1>4
<1>5. CASE host' = h /\ UNCHANGED <<sent, statusSent, out>>
  BY <1>1, <1>2, <1>3, <1>5
<1>6. CASE StartSharing(h)
  <2> HIDE DEF h
  <2>1. QED  BY <1>3, <1>6, StartSharingTypes
<1>7. \/ UNCHANGED <<host, sent, statusSent, out>>
      \/ StartSharing(h)
      \/ host' = h /\ UNCHANGED <<sent, statusSent, out>>
  BY DEF Negotiated
<1>8. QED  BY <1>4, <1>5, <1>6, <1>7

LEMMA HostCapabilityStep ==
  ASSUME IInv, HostLayoutCapability \/ HostSnapshotCapability
  PROVE  IInv'
<1>1. PICK c \in {"layout", "snapshot"} : Negotiated(c)
  BY DEF HostLayoutCapability, HostSnapshotCapability
<1>2. PICK m \in {"layout capability", "snapshot capability"} : HostGets(m)
  BY DEF HostLayoutCapability, HostSnapshotCapability
<1>3. /\ host' \in HostRecord /\ sent' \subseteq Panes /\ statusSent' \in 0..NoStatus
      /\ out' \in Seq(Message) /\ Keeps(out, out', Answer)
  BY <1>1, NegotiatedTypes
<1>4. UNCHANGED <<paneVars, status, saved, told, reconnected, linkVars, daemonVars>>
  BY DEF HostLayoutCapability, HostSnapshotCapability
<1>5. HostTypes'
  BY <1>3, <1>4 DEF IInv, TypeOK, HostTypes, HostRecord, paneVars, NoStatus
<1>6. QED  BY <1>2, <1>3, <1>4, <1>5, HostReadsStep

LEMMA HostSessionNameStep == ASSUME IInv, HostSessionName PROVE IInv'
<1>1. PICK n \in Names : HostGets(n) /\ told' = n
  BY DEF HostSessionName
<1>2. n # "reconnect capability"
  BY SharingAssumption
<1>3. HostTypes' /\ UNCHANGED <<linkVars, daemonVars, out>>
  BY <1>1 DEF HostSessionName, IInv, TypeOK, HostTypes, paneVars, NoStatus
<1>4. out' \in Seq(Message) /\ Keeps(out, out', Answer)
  BY <1>3, Same, GainedKeeps DEF IInv, TypeOK, QueueTypes
<1>5. QED  BY <1>1, <1>2, <1>3, <1>4, HostReadsStep

LEMMA HostUpdateRequiredStep == ASSUME IInv, HostUpdateRequired PROVE IInv'
<1>1. out \in Seq(Message) /\ host \in HostRecord
  BY DEF IInv, TypeOK, QueueTypes, HostTypes, HostRecord
<1>2. Gained(out, out, Answer)
  BY <1>1, Same
<1>3. host' \in HostRecord /\ out' \in Seq(Message) /\ Gained(out, out', Answer)
  <2>1. CASE Fail(out)
    BY <1>1, <1>2, <2>1, FailTypes DEF HostRecord
  <2>2. QED  BY <1>1, <1>2, <2>1 DEF HostUpdateRequired
<1>4. HostTypes' /\ UNCHANGED <<linkVars, daemonVars>>
  BY <1>3 DEF HostUpdateRequired, IInv, TypeOK, HostTypes, HostRecord, paneVars, NoStatus
<1>5. HostGets("update required")
  BY DEF HostUpdateRequired
<1>6. QED  BY <1>1, <1>3, <1>4, <1>5, GainedKeeps, HostReadsStep

(* The request is answered: it was the only one, and nothing had answered it. *)
LEMMA HostReconnectCapabilityStep == ASSUME IInv, HostReconnectCapability PROVE IInv'
<1>1. /\ in \in Seq(Answers) /\ in # <<>> /\ Head(in) \in Asked /\ in' = Tail(in)
      /\ out \in Seq(Message) /\ out' = Append(out, Msg("identity", 0))
      /\ UNCHANGED <<paneVars, status, hostVars, linkVars, daemonVars>>
  BY DEF HostReconnectCapability, HostGets, Asked, IInv, TypeOK, QueueTypes
<1>2. in' \in Seq(Answers) /\ Without(in', Asked) /\ AtMostOnce(in', Asked)
  BY <1>1, TailKeeps DEF IInv, HandshakeInv
<1>3. ~Without(in, Asked)
  BY <1>1, TailKeeps
<1>4. gate.awaiting /\ Without(out, Answer) /\ link # "down"
  BY <1>1, <1>3 DEF IInv, HandshakeInv
<1>5. Msg("identity", 0) \in Message
  BY MessageTypes DEF Signals
<1>6. out' \in Seq(Message) /\ AtMostOnce(out', Answer)
  <2>1. /\ Append(out, Msg("identity", 0)) \in Seq(Message) /\ DOMAIN out = 1..Len(out)
        /\ DOMAIN out' = 1..Len(out) + 1
        /\ \A i \in 1..Len(out) : out'[i] = out[i]
        /\ Len(out) \in Nat
    BY <1>1, <1>5
  <2>2. \A i \in DOMAIN out' : out'[i] \in Answer => i = Len(out) + 1
    BY <1>4, <2>1 DEF Without
  <2>3. QED  BY <1>1, <2>1, <2>2, Zenon DEF AtMostOnce
<1>7. TypeOK'
  BY <1>1, <1>2, <1>6 DEF IInv, TypeOK, HostTypes, QueueTypes, DaemonTypes, paneVars, hostVars,
     linkVars, daemonVars, NoStatus
<1>8. HandshakeInv'
  BY <1>1, <1>2, <1>4, <1>6 DEF IInv, HandshakeInv, linkVars, daemonVars
<1>9. QED  BY <1>7, <1>8 DEF IInv

-----------------------------------------------------------------------------
(* Steps of the connection                                                   *)

LEMMA HeaderFirst ==
  ASSUME NEW n \in Nat, NEW cmds \in [1..n -> Message], \A i \in 1..n : cmds[i] \notin Answer
  PROVE  /\ <<Msg("header", 0)>> \o cmds \in Seq(Message)
         /\ Without(<<Msg("header", 0)>> \o cmds, Answer)
<1> DEFINE m == Msg("header", 0)
           q == <<m>> \o cmds
<1>1. m \in Message /\ m \notin Answer
  BY MessageTypes, Others DEF Signals
<1> HIDE DEF m
<1>2. cmds \in Seq(Message) /\ Len(cmds) = n
  OBVIOUS
<1>3. /\ q \in Seq(Message) /\ DOMAIN q = 1..n + 1
      /\ q[1] = m
      /\ \A i \in 1..n + 1 : i = 1 \/ (i - 1 \in 1..n /\ q[i] = cmds[i - 1])
  BY <1>1, <1>2
<1> HIDE DEF q
<1>4. Without(q, Answer)
  BY <1>1, <1>3 DEF Without
<1>5. QED  BY <1>3, <1>4 DEF q, m

LEMMA ReplayedTypes ==
  ASSUME IInv
  PROVE  /\ <<Msg("header", 0)>> \o Commands(Replayed) \in Seq(Message)
         /\ Without(<<Msg("header", 0)>> \o Commands(Replayed), Answer)
<1> DEFINE cmds == Commands(Replayed)
<1>1. saved \in Seq(CommandNames) /\ told \in Names \cup {NoName} /\ Len(saved) \in Nat
      /\ DOMAIN saved = 1..Len(saved)
  BY DEF IInv, TypeOK, HostTypes
<1>2. \A i \in 1..Len(saved) : saved[i] \in CommandNames
  BY <1>1
<1>3. \A i \in 1..Len(saved) : Replayed[i] \in CommandNames
  BY <1>1, <1>2 DEF Replayed, CommandNames
<1>4. DOMAIN Replayed = 1..Len(saved)
  BY <1>1 DEF Replayed
<1>5. \A i \in 1..Len(saved) : Msg("cmd", Replayed[i]) \in Message /\ Msg("cmd", Replayed[i]) \notin Answer
  BY <1>3, MessageTypes, Others, Zenon
<1>6. cmds = [i \in 1..Len(saved) |-> Msg("cmd", Replayed[i])]
  BY <1>4 DEF Commands
<1> HIDE DEF cmds
<1>7. cmds \in [1..Len(saved) -> Message] /\ \A i \in 1..Len(saved) : cmds[i] \notin Answer
  BY <1>5, <1>6, Zenon
<1>8. /\ <<Msg("header", 0)>> \o cmds \in Seq(Message)
      /\ Without(<<Msg("header", 0)>> \o cmds, Answer)
  BY <1>1, <1>7, HeaderFirst
<1>9. QED  BY <1>8 DEF cmds

LEMMA ConnectStep == ASSUME IInv, Connect PROVE IInv'
<1>1. link = "down" /\ in = <<>> /\ gate = NoGate /\ ~gate.awaiting /\ Without(out, Answer)
  BY DEF Connect, IInv, HandshakeInv, NoGate
<1>2. out' \in Seq(Message) /\ Without(out', Answer)
  <2>1. CASE UNCHANGED out
    BY <1>1, <2>1 DEF IInv, TypeOK, QueueTypes
  <2>2. CASE out' = <<Msg("header", 0)>> \o Commands(Replayed)
    BY <2>2, ReplayedTypes
  <2>3. QED  BY <2>1, <2>2 DEF Connect
<1>3. AtMostOnce(out', Answer)
  BY <1>2, Zenon DEF Without, AtMostOnce
<1>4. /\ in' = <<>> /\ link' = "up" /\ sent' = {} /\ conns' \in 0..MaxConns
      /\ UNCHANGED <<paneVars, status, saved, told, reconnected, statusSent, in, daemonVars>>
  <2>1. MaxConns \in Nat /\ conns \in 0..MaxConns
    BY SharingAssumption DEF IInv, TypeOK, QueueTypes
  <2>2. conns < MaxConns /\ conns' = conns + 1
    BY DEF Connect
  <2>3. conns' \in 0..MaxConns
    BY <2>1, <2>2
  <2>4. QED  BY <1>1, <2>3 DEF Connect
<1>5. host' \in HostRecord
  BY DEF Connect, IInv, TypeOK, HostTypes, HostRecord
<1>6. HostTypes'
  BY <1>4, <1>5 DEF IInv, TypeOK, HostTypes, HostRecord, paneVars, NoStatus
<1>7. TypeOK'
  BY <1>2, <1>4, <1>6 DEF IInv, TypeOK, QueueTypes, DaemonTypes, daemonVars, NoStatus
<1>8. HandshakeInv'
  BY <1>2, <1>3, <1>4 DEF IInv, HandshakeInv, daemonVars
<1>9. QED  BY <1>7, <1>8 DEF IInv

LEMMA ConnectFailsStep == ASSUME IInv, ConnectFails PROVE IInv'
<1>1. HostTypes' /\ UNCHANGED <<linkVars, out, in, daemonVars>>
  BY DEF ConnectFails, IInv, TypeOK, HostTypes, paneVars, NoStatus
<1>2. out' \in Seq(Message) /\ Keeps(out, out', Answer)
  BY <1>1, Same, GainedKeeps DEF IInv, TypeOK, QueueTypes
<1>3. QED  BY <1>1, <1>2, HostStep

LEMMA NothingThere ==
  /\ <<>> \in Seq(Message) /\ <<>> \in Seq(Answers)
  /\ \A S : Without(<<>>, S) /\ AtMostOnce(<<>>, S)
  /\ NoGate \in Gates /\ NoName \in Names \cup {NoName}
  /\ <<>> \in UNION {[ps -> Screens] : ps \in SUBSET Panes}
  /\ [p \in Panes |-> <<>>] \in [Panes -> Seq(1..MaxOutput)] /\ NoStatus \in 0..NoStatus
  /\ ~NoGate.awaiting /\ ~NoGate.stable /\ ~NoGate.announced /\ ~NoGate.fatal
<1>1. <<>> \in Seq(Message) /\ <<>> \in Seq(Answers)
  OBVIOUS
<1>2. \A S : Without(<<>>, S) /\ AtMostOnce(<<>>, S)
  BY DEF Without, AtMostOnce
<1>3. NoGate \in Gates /\ ~NoGate.awaiting /\ ~NoGate.stable /\ ~NoGate.announced /\ ~NoGate.fatal
  BY DEF NoGate, Gates
<1>4. <<>> \in UNION {[ps -> Screens] : ps \in SUBSET Panes}
  <2>1. <<>> \in [{} -> Screens] /\ {} \in SUBSET Panes
    OBVIOUS
  <2>2. QED  BY <2>1, Zenon
<1>5. [p \in Panes |-> <<>>] \in [Panes -> Seq(1..MaxOutput)]
  OBVIOUS
<1>6. NoStatus \in 0..NoStatus
  <2>1. MaxStatus \in Nat
    BY SharingAssumption
  <2>2. QED  BY <2>1 DEF NoStatus
<1>7. QED  BY <1>1, <1>2, <1>3, <1>4, <1>5, <1>6

LEMMA DisconnectedStep == ASSUME IInv, Disconnected PROVE IInv'
<1>1. host' \in HostRecord
  BY DEF Disconnected, IInv, TypeOK, HostTypes, HostRecord
<1>2. reconnected' \in BOOLEAN
  BY Zenon DEF Disconnected
<1>3. HostTypes'
  BY <1>1, <1>2 DEF Disconnected, IInv, TypeOK, HostTypes, HostRecord, paneVars, NoStatus
<1>4. TypeOK'
  <2>1. /\ link' = "down" /\ conns' = conns /\ out' = <<>> /\ in' = <<>>
        /\ gate' = NoGate /\ applied' = <<>> /\ pendingName' = NoName /\ view' = <<>>
        /\ pending' = [p \in Panes |-> <<>>] /\ shown' = NoStatus
    BY DEF Disconnected, NoDaemon
  <2>2. QueueTypes'
    BY <2>1, NothingThere DEF IInv, TypeOK, QueueTypes
  <2>3. applied' \in Seq(CommandNames)
    BY <2>1
  <2>4. DaemonTypes'
    BY <2>1, <2>3, NothingThere, Zenon DEF DaemonTypes, NoStatus
  <2>5. QED  BY <1>3, <2>2, <2>4 DEF TypeOK
<1>5. HandshakeInv'
  <2>1. in' = <<>> /\ out' = <<>> /\ gate' = NoGate
    BY DEF Disconnected, NoDaemon
  <2>2. QED  BY <2>1, NothingThere DEF HandshakeInv
<1>6. QED  BY <1>4, <1>5 DEF IInv

-----------------------------------------------------------------------------
(* Steps of the daemon                                                       *)

(* The daemon reads a message that does not concern the handshake.           *)
LEMMA DaemonReadsStep ==
  ASSUME IInv, link = "up", out # <<>>, out' = Tail(out), UNCHANGED daemonRest,
         DaemonTypes', in' \in Seq(Answers), Keeps(in, in', Asked),
         gate'.awaiting = gate.awaiting, gate'.stable = gate.stable, gate'.fatal = gate.fatal,
         gate.awaiting => gate'.announced = gate.announced
  PROVE  IInv'
<1>1. out \in Seq(Message)
  BY DEF IInv, TypeOK, QueueTypes
<1>2. out' \in Seq(Message) /\ Keeps(out, out', Answer)
  BY <1>1, TailKeeps, Zenon DEF Keeps
<1>3. TypeOK'
  BY <1>2 DEF IInv, TypeOK, HostTypes, QueueTypes, daemonRest, paneVars, hostVars, linkVars, NoStatus
<1>4. link' # "down"
  BY DEF daemonRest, linkVars
<1>5. HandshakeInv'
  <2>1. AtMostOnce(in', Asked) /\ AtMostOnce(out', Answer)
    BY <1>2, Zenon DEF IInv, HandshakeInv, Keeps
  <2>2. Without(in', Asked) \/ Without(out', Answer)
    BY <1>2, Zenon DEF IInv, HandshakeInv, Keeps
  <2>3. gate'.awaiting \/ (Without(in', Asked) /\ Without(out', Answer))
    BY <1>2, Zenon DEF IInv, HandshakeInv, Keeps
  <2>4. (gate'.awaiting => ~gate'.stable /\ ~gate'.announced) /\ ~gate'.fatal
    BY Zenon DEF IInv, HandshakeInv
  <2>5. QED  BY <1>4, <2>1, <2>2, <2>3, <2>4, Zenon DEF HandshakeInv, Without, AtMostOnce
<1>6. QED  BY <1>3, <1>5 DEF IInv

(* What announcing links leaves alone.                                       *)
LEMMA ReadyKeeps ==
  ASSUME NEW g \in Gates
  PROVE  /\ Ready(g) \in Gates /\ Ready(g).awaiting = g.awaiting /\ Ready(g).stable = g.stable
         /\ Ready(g).fatal = g.fatal /\ (g.awaiting => Ready(g).announced = g.announced)
  BY DEF Ready, Gates

LEMMA ResumeKeeps ==
  ASSUME NEW g \in Gates
  PROVE  /\ Resume(g) \in Gates /\ Resume(g).awaiting = g.awaiting /\ Resume(g).stable = g.stable
         /\ Resume(g).fatal = g.fatal /\ (g.awaiting => Resume(g).announced = g.announced)
<1> DEFINE h == [g EXCEPT !.readyPending = FALSE]
<1>1. /\ h \in Gates /\ h.awaiting = g.awaiting /\ h.stable = g.stable /\ h.fatal = g.fatal
      /\ h.announced = g.announced
  BY DEF Gates
<1> HIDE DEF h
<1>2. /\ Ready(h) \in Gates /\ Ready(h).awaiting = h.awaiting /\ Ready(h).stable = h.stable
      /\ Ready(h).fatal = h.fatal /\ (h.awaiting => Ready(h).announced = h.announced)
  BY <1>1, ReadyKeeps, Zenon
<1>3. Resume(g) = Ready(h) \/ Resume(g) = g
  BY DEF Resume, h
<1>4. QED  BY <1>1, <1>2, <1>3, Zenon

LEMMA AnswerGains ==
  ASSUME IInv, NEW a \in Answers, a \notin Asked, in' = Append(in, a)
  PROVE  in' \in Seq(Answers) /\ Keeps(in, in', Asked)
<1>1. in \in Seq(Answers)
  BY DEF IInv, TypeOK, QueueTypes
<1>2. in' \in Seq(Answers) /\ Gained(in, in', Asked)
  BY <1>1, AppendGains, Zenon
<1>3. QED  BY <1>1, <1>2, GainedKeeps

LEMMA InSame ==
  ASSUME IInv, UNCHANGED in
  PROVE  in' \in Seq(Answers) /\ Keeps(in, in', Asked)
<1>1. in \in Seq(Answers)
  BY DEF IInv, TypeOK, QueueTypes
<1>2. QED  BY <1>1, Same, GainedKeeps

LEMMA RegisteredTypes ==
  ASSUME IInv, Registered
  PROVE  in' \in Seq(Answers) /\ Keeps(in, in', Asked)
<1>1. PICK given \in Names : in' = Append(in, given)
  BY DEF Registered
<1>2. given \in Answers /\ given \notin Asked
  BY SharingAssumption DEF Answers, Asked
<1>3. QED  BY <1>1, <1>2, AnswerGains

LEMMA Reading ==
  ASSUME IInv, NEW k, DaemonGets(k)
  PROVE  /\ link = "up" /\ out # <<>> /\ out' = Tail(out)
         /\ Head(out) \in Message /\ Head(out).type = k
<1>1. out \in Seq(Message)
  BY DEF IInv, TypeOK, QueueTypes
<1>2. QED  BY <1>1 DEF DaemonGets

LEMMA DaemonIgnoresStep == ASSUME IInv, DaemonIgnores PROVE IInv'
<1>1. /\ link = "up" /\ out # <<>> /\ out' = Tail(out)
      /\ UNCHANGED <<daemonRest, in, daemonVars>>
  BY DEF DaemonIgnores
<1>2. DaemonTypes' /\ gate' = gate
  BY <1>1 DEF IInv, TypeOK, DaemonTypes, daemonVars, NoStatus
<1>3. QED  BY <1>1, <1>2, InSame, DaemonReadsStep

LEMMA DaemonReadyStep == ASSUME IInv, DaemonReady PROVE IInv'
<1>1. /\ gate' = Ready(gate) /\ UNCHANGED <<daemonRest, in, applied, pendingName, view, pending, shown>>
      /\ DaemonGets("ready")
  BY DEF DaemonReady
<1>2. link = "up" /\ out # <<>> /\ out' = Tail(out)
  BY <1>1, Reading
<1>3. gate \in Gates
  BY DEF IInv, TypeOK, DaemonTypes
<1>4. /\ gate' \in Gates /\ gate'.awaiting = gate.awaiting /\ gate'.stable = gate.stable
      /\ gate'.fatal = gate.fatal /\ (gate.awaiting => gate'.announced = gate.announced)
  BY <1>1, <1>3, ReadyKeeps, Zenon
<1>5. DaemonTypes'
  BY <1>1, <1>4 DEF IInv, TypeOK, DaemonTypes, NoStatus
<1>6. QED  BY <1>1, <1>2, <1>4, <1>5, InSame, DaemonReadsStep

LEMMA DaemonHeaderStep == ASSUME IInv, DaemonHeader PROVE IInv'
<1>1. PICK match \in Matching :
        /\ gate' = [gate EXCEPT !.refused = ~match]
        /\ in' = in \o IF match THEN <<"snapshot capability", "layout capability">> ELSE <<"update required">>
  BY DEF DaemonHeader
<1>2. DaemonGets("header") /\ UNCHANGED <<daemonRest, applied, pendingName, view, pending, shown>>
  BY DEF DaemonHeader
<1>3. link = "up" /\ out # <<>> /\ out' = Tail(out)
  BY <1>2, Reading
<1>4. gate \in Gates /\ in \in Seq(Answers)
  BY DEF IInv, TypeOK, DaemonTypes, QueueTypes
<1>5. /\ gate' \in Gates /\ gate'.awaiting = gate.awaiting /\ gate'.stable = gate.stable
      /\ gate'.fatal = gate.fatal /\ gate'.announced = gate.announced
  BY <1>1, <1>4, SharingAssumption DEF Gates
<1>6. DaemonTypes'
  BY <1>2, <1>5 DEF IInv, TypeOK, DaemonTypes, NoStatus
<1>7. in' \in Seq(Answers) /\ Keeps(in, in', Asked)
  <2> DEFINE a == "snapshot capability"
             b == "layout capability"
             c == "update required"
  <2>1. {a, b, c} \subseteq Answers /\ a \notin Asked /\ b \notin Asked /\ c \notin Asked
    BY DEF Answers, Asked
  <2> HIDE DEF a, b, c
  <2>2. in' = in \o <<a, b>> \/ in' = in \o <<c>>
    BY <1>1 DEF a, b, c
  <2>3. CASE in' = in \o <<c>>
    <3>1. in' = Append(in, c)
      BY <1>4, <2>1, <2>3
    <3>2. QED  BY <2>1, <3>1, AnswerGains
  <2>4. CASE in' = in \o <<a, b>>
    <3> DEFINE r == Append(in, a)
    <3>1. r \in Seq(Answers) /\ Gained(in, r, Asked)
      BY <1>4, <2>1, AppendGains, Zenon
    <3>2. in' = Append(r, b)
      BY <1>4, <2>1, <2>4
    <3> HIDE DEF r
    <3>3. in' \in Seq(Answers) /\ Gained(r, in', Asked)
      BY <2>1, <3>1, <3>2, AppendGains, Zenon
    <3>4. Gained(in, in', Asked)
      BY <1>4, <3>1, <3>3, GainedTwice, Zenon
    <3>5. QED  BY <1>4, <3>3, <3>4, GainedKeeps
  <2>5. QED  BY <2>2, <2>3, <2>4
<1>8. QED  BY <1>2, <1>3, <1>5, <1>6, <1>7, DaemonReadsStep

(* The request: nothing had been asked, so nothing answers it yet.           *)
LEMMA DaemonCommandStep == ASSUME IInv, DaemonCommand PROVE IInv'
<1>1. /\ DaemonGets("cmd") /\ applied' = Append(applied, Value)
      /\ UNCHANGED <<daemonRest, view, pending, shown>>
  BY DEF DaemonCommand
<1>2. link = "up" /\ out # <<>> /\ out' = Tail(out) /\ Head(out) \in Message /\ Head(out).type = "cmd"
  BY <1>1, Reading
<1>3. Value \in CommandNames
  BY <1>2, Carried DEF Value
<1>4. gate \in Gates /\ in \in Seq(Answers) /\ out \in Seq(Message) /\ applied \in Seq(CommandNames)
      /\ pendingName \in Names \cup {NoName}
  BY DEF IInv, TypeOK, DaemonTypes, QueueTypes
<1>5. applied' \in Seq(CommandNames)
  BY <1>1, <1>3, <1>4
<1>6. CASE gate' = gate /\ pendingName' \in Names \cup {NoName} /\ (UNCHANGED in \/ Registered)
  <2>1. DaemonTypes'
    BY <1>1, <1>4, <1>5, <1>6 DEF IInv, TypeOK, DaemonTypes, NoStatus
  <2>2. in' \in Seq(Answers) /\ Keeps(in, in', Asked)
    BY <1>6, InSame, RegisteredTypes
  <2>3. QED  BY <1>1, <1>2, <1>6, <2>1, <2>2, DaemonReadsStep
<1>7. CASE /\ ~(gate.announced \/ gate.stable \/ gate.awaiting) /\ UNCHANGED pendingName
           /\ gate' = [gate EXCEPT !.awaiting = TRUE] /\ in' = Append(in, "reconnect capability")
  <2>1. Without(in, Asked) /\ Without(out, Answer) /\ ~gate.fatal
    BY <1>7 DEF IInv, HandshakeInv
  <2>2. /\ gate' \in Gates /\ gate'.awaiting /\ gate'.stable = gate.stable
        /\ gate'.announced = gate.announced /\ gate'.fatal = gate.fatal
    BY <1>4, <1>7 DEF Gates
  <2>3. out' \in Seq(Message) /\ Without(out', Answer)
    BY <1>2, <1>4, <2>1, TailKeeps
  <2>4. AtMostOnce(out', Answer)
    BY <2>3, Zenon DEF Without, AtMostOnce
  <2>5. in' \in Seq(Answers) /\ AtMostOnce(in', Asked)
    <3> DEFINE a == "reconnect capability"
    <3>1. a \in Answers
      BY DEF Answers
    <3> HIDE DEF a
    <3>2. /\ Append(in, a) \in Seq(Answers) /\ DOMAIN in = 1..Len(in)
          /\ DOMAIN Append(in, a) = 1..Len(in) + 1
          /\ \A i \in 1..Len(in) : Append(in, a)[i] = in[i]
          /\ Len(in) \in Nat
      BY <1>4, <3>1
    <3>3. in' = Append(in, a)
      BY <1>7 DEF a
    <3>4. \A i \in DOMAIN in' : in'[i] \in Asked => i = Len(in) + 1
      BY <2>1, <3>2, <3>3 DEF Without
    <3>5. QED  BY <3>2, <3>3, <3>4, Zenon DEF AtMostOnce
  <2>6. DaemonTypes'
    BY <1>1, <1>4, <1>5, <1>7, <2>2 DEF IInv, TypeOK, DaemonTypes, NoStatus
  <2>7. TypeOK'
    BY <1>1, <2>3, <2>5, <2>6 DEF IInv, TypeOK, HostTypes, QueueTypes, daemonRest, paneVars, hostVars,
       linkVars, NoStatus
  <2>8. link' # "down"
    BY <1>1, <1>2 DEF daemonRest, linkVars
  <2>9. HandshakeInv'
    BY <1>7, <2>1, <2>2, <2>3, <2>4, <2>5, <2>8, Zenon DEF HandshakeInv, Without, AtMostOnce
  <2>10. QED  BY <2>7, <2>9 DEF IInv
<1>8. \/ gate' = gate /\ pendingName' \in Names \cup {NoName} /\ (UNCHANGED in \/ Registered)
      \/ /\ ~(gate.announced \/ gate.stable \/ gate.awaiting) /\ UNCHANGED pendingName
         /\ gate' = [gate EXCEPT !.awaiting = TRUE] /\ in' = Append(in, "reconnect capability")
  <2>1. CASE /\ Value = "identity" /\ UNCHANGED pendingName
             /\ IF gate.announced \/ gate.stable \/ gate.awaiting
                THEN UNCHANGED <<gate, in>>
                ELSE gate' = [gate EXCEPT !.awaiting = TRUE] /\ in' = Append(in, "reconnect capability")
    BY <1>4, <2>1
  <2>2. CASE /\ Value \in Names /\ UNCHANGED gate
             /\ IF gate.awaiting THEN pendingName' = Value /\ UNCHANGED in
                                 ELSE Registered /\ UNCHANGED pendingName
    BY <1>4, <2>2
  <2>3. CASE UNCHANGED <<gate, in, pendingName>>
    BY <1>4, <2>3
  <2>4. QED  BY <2>1, <2>2, <2>3, Zenon DEF DaemonCommand
<1>9. QED  BY <1>6, <1>7, <1>8

(* The identity: it was asked for, so it is taken, and no other is there.    *)
LEMMA DaemonIdentityStep == ASSUME IInv, DaemonIdentity PROVE IInv'
<1>1. DaemonGets("identity") /\ UNCHANGED <<daemonRest, applied, view, pending, shown>>
  BY DEF DaemonIdentity
<1>2. /\ link = "up" /\ out # <<>> /\ out' = Tail(out) /\ Head(out) \in Message
      /\ Head(out).type = "identity"
  BY <1>1, Reading
<1>3. Head(out) \in Answer
  BY <1>2, Carried
<1>4. gate \in Gates /\ in \in Seq(Answers) /\ out \in Seq(Message)
  BY DEF IInv, TypeOK, DaemonTypes, QueueTypes
<1>5. ~Without(out, Answer) /\ out' \in Seq(Message)
  BY <1>2, <1>3, <1>4, TailKeeps
<1>6. gate.awaiting /\ Without(in, Asked) /\ ~gate.stable /\ ~gate.announced /\ ~gate.fatal
  BY <1>5, Zenon DEF IInv, HandshakeInv
<1>7. AtMostOnce(out, Answer)
  BY DEF IInv, HandshakeInv
<1>8. Without(out', Answer)
  BY <1>2, <1>3, <1>4, <1>7, TailKeeps
<1>9. AtMostOnce(out', Answer)
  BY <1>8, Zenon DEF Without, AtMostOnce
<1> DEFINE g == [gate EXCEPT !.awaiting = FALSE, !.stable = TRUE, !.identityPending = FALSE]
<1>10. /\ gate' = g \/ gate' = Ready(g)
       /\ pendingName' = NoName /\ (UNCHANGED in \/ Registered)
  BY <1>6 DEF DaemonIdentity
<1>11. g \in Gates /\ ~g.awaiting /\ ~g.fatal
  BY <1>4, <1>6 DEF Gates
<1> HIDE DEF g
<1>12. gate' \in Gates /\ ~gate'.awaiting /\ ~gate'.fatal
  BY <1>10, <1>11, ReadyKeeps, Zenon
<1>13. in' \in Seq(Answers) /\ Keeps(in, in', Asked)
  BY <1>10, InSame, RegisteredTypes
<1>14. Without(in', Asked)
  BY <1>6, <1>13, Zenon DEF Keeps
<1>15. AtMostOnce(in', Asked)
  BY <1>14, Zenon DEF Without, AtMostOnce
<1>16. TypeOK'
  <2>1. DaemonTypes'
    BY <1>1, <1>10, <1>12 DEF IInv, TypeOK, DaemonTypes, NoStatus
  <2>2. QED
    BY <1>1, <1>5, <1>13, <2>1 DEF IInv, TypeOK, HostTypes, QueueTypes, daemonRest, paneVars,
       hostVars, linkVars, NoStatus
<1>17. link' # "down"
  BY <1>1, <1>2 DEF daemonRest, linkVars
<1>18. HandshakeInv'
  BY <1>8, <1>9, <1>12, <1>14, <1>15, <1>17, Zenon DEF HandshakeInv, Without, AtMostOnce
<1>19. QED  BY <1>16, <1>18 DEF IInv

LEMMA Elements ==
  ASSUME NEW T, NEW q \in Seq(T)
  PROVE  \A i \in 1..Len(q) : q[i] \in T
  OBVIOUS

LEMMA WrittenTypes ==
  ASSUME NEW screen \in Screens, NEW chunks \in Seq(1..MaxOutput)
  PROVE  Written(screen, chunks) \in Screens
<1>1. MaxOutput \in Nat /\ Garbled \notin Nat
  BY SharingAssumption
<1>2. CASE chunks # <<>> /\ screen # Garbled /\ \A i \in DOMAIN chunks : chunks[i] = screen + i
  <2>1. Len(chunks) \in DOMAIN chunks /\ Len(chunks) \in Nat /\ chunks[Len(chunks)] \in 1..MaxOutput
    <3>1. Len(chunks) \in Nat \ {0} /\ DOMAIN chunks = 1..Len(chunks)
      BY <1>2
    <3>2. \A i \in 1..Len(chunks) : chunks[i] \in 1..MaxOutput
      BY Elements, Zenon
    <3>3. QED  BY <3>1, <3>2
  <2>2. screen \in 0..MaxOutput
    BY <1>2 DEF Screens
  <2>3. screen + Len(chunks) \in 1..MaxOutput
    BY <1>2, <2>1
  <2>4. screen + Len(chunks) \in Screens
    BY <1>1, <2>3 DEF Screens
  <2>5. QED  BY <1>2, <2>4 DEF Written
<1>3. QED  BY <1>2 DEF Written, Screens

LEMMA DaemonLayoutStep == ASSUME IInv, DaemonLayout PROVE IInv'
<1>1. /\ DaemonGets("layout")
      /\ view' = [p \in Value |-> IF p \in DOMAIN view THEN view[p] ELSE Written(0, pending[p])]
      /\ pending' = [p \in Panes |-> <<>>]
      /\ gate' = Resume([gate EXCEPT !.layout = TRUE])
      /\ UNCHANGED <<daemonRest, in, applied, pendingName, shown>>
  BY DEF DaemonLayout
<1>2. link = "up" /\ out # <<>> /\ out' = Tail(out) /\ Head(out) \in Message /\ Head(out).type = "layout"
  BY <1>1, Reading
<1>3. Value \in SUBSET Panes
  BY <1>2, Carried DEF Value
<1>4. /\ gate \in Gates /\ view \in UNION {[ps -> Screens] : ps \in SUBSET Panes}
      /\ pending \in [Panes -> Seq(1..MaxOutput)]
  BY DEF IInv, TypeOK, DaemonTypes
<1>5. view' \in [Value -> Screens]
  <2>1. 0 \in Screens
    <3>1. MaxOutput \in Nat
      BY SharingAssumption
    <3>2. QED  BY <3>1 DEF Screens
  <2>2. \A p \in Value : Written(0, pending[p]) \in Screens
    BY <1>3, <1>4, <2>1, WrittenTypes
  <2>3. \A p \in DOMAIN view : view[p] \in Screens
    BY <1>4
  <2>4. QED  BY <1>1, <2>2, <2>3
<1>6. view' \in UNION {[ps -> Screens] : ps \in SUBSET Panes}
  BY <1>3, <1>5, Zenon
<1> DEFINE g == [gate EXCEPT !.layout = TRUE]
<1>7. /\ g \in Gates /\ g.awaiting = gate.awaiting /\ g.stable = gate.stable /\ g.fatal = gate.fatal
      /\ g.announced = gate.announced
  BY <1>4 DEF Gates
<1>8. gate' = Resume(g)
  BY <1>1
<1> HIDE DEF g
<1>9. /\ gate' \in Gates /\ gate'.awaiting = gate.awaiting /\ gate'.stable = gate.stable
      /\ gate'.fatal = gate.fatal /\ (gate.awaiting => gate'.announced = gate.announced)
  BY <1>7, <1>8, ResumeKeeps, Zenon
<1>10. pending' \in [Panes -> Seq(1..MaxOutput)]
  BY <1>1
<1>11. DaemonTypes'
  BY <1>1, <1>6, <1>9, <1>10 DEF IInv, TypeOK, DaemonTypes, NoStatus
<1>12. QED  BY <1>1, <1>2, <1>9, <1>11, InSame, DaemonReadsStep

LEMMA DaemonSnapshotStep == ASSUME IInv, DaemonSnapshot PROVE IInv'
<1>1. DaemonGets("snapshot") /\ UNCHANGED <<daemonRest, applied, pendingName, pending, shown>>
  BY DEF DaemonSnapshot
<1>2. link = "up" /\ out # <<>> /\ out' = Tail(out) /\ Head(out) \in Message /\ Head(out).type = "snapshot"
  BY <1>1, Reading
<1>3. Value \in UNION {[ps -> Screens] : ps \in SUBSET Panes}
  <2>1. PICK ps \in SUBSET Panes : Value \in [ps -> 0..MaxOutput]
    BY <1>2, Carried DEF Value
  <2>2. Value \in [ps -> Screens]
    BY <2>1 DEF Screens
  <2>3. QED  BY <2>2, Zenon
<1>4. gate \in Gates
  BY DEF IInv, TypeOK, DaemonTypes
<1> DEFINE g == [gate EXCEPT !.snapshot = TRUE]
<1>5. /\ g \in Gates /\ g.awaiting = gate.awaiting /\ g.stable = gate.stable /\ g.fatal = gate.fatal
      /\ g.announced = gate.announced
  BY <1>4 DEF Gates
<1>6. \/ UNCHANGED <<gate, view, in>>
      \/ gate' = [gate EXCEPT !.refused = TRUE] /\ in' = Append(in, "update required") /\ UNCHANGED view
      \/ gate' = Resume(g) /\ view' = Value /\ UNCHANGED in
  BY DEF DaemonSnapshot
<1> HIDE DEF g
<1>7. /\ gate' \in Gates /\ gate'.awaiting = gate.awaiting /\ gate'.stable = gate.stable
      /\ gate'.fatal = gate.fatal /\ (gate.awaiting => gate'.announced = gate.announced)
  <2>1. CASE UNCHANGED gate
    BY <1>4, <2>1
  <2>2. CASE gate' = [gate EXCEPT !.refused = TRUE]
    BY <1>4, <2>2 DEF Gates
  <2>3. CASE gate' = Resume(g)
    BY <1>5, <2>3, ResumeKeeps, Zenon
  <2>4. QED  BY <1>6, <2>1, <2>2, <2>3
<1>8. in' \in Seq(Answers) /\ Keeps(in, in', Asked)
  <2>1. "update required" \in Answers /\ "update required" \notin Asked
    BY DEF Answers, Asked
  <2>2. QED  BY <1>6, <2>1, InSame, AnswerGains
<1>9. DaemonTypes'
  <2>1. view' \in UNION {[ps -> Screens] : ps \in SUBSET Panes}
    BY <1>3, <1>6 DEF IInv, TypeOK, DaemonTypes
  <2>2. QED  BY <1>1, <1>7, <2>1 DEF IInv, TypeOK, DaemonTypes, NoStatus
<1>10. QED  BY <1>1, <1>2, <1>7, <1>8, <1>9, DaemonReadsStep

LEMMA DaemonOutputStep == ASSUME IInv, DaemonOutput PROVE IInv'
<1>1. /\ DaemonGets("pty")
      /\ UNCHANGED <<daemonRest, in, gate, applied, pendingName, shown>>
  BY DEF DaemonOutput
<1>2. link = "up" /\ out # <<>> /\ out' = Tail(out) /\ Head(out) \in Message /\ Head(out).type = "pty"
  BY <1>1, Reading
<1>3. Value \in [pane : Panes, nth : 1..MaxOutput]
  BY <1>2, Carried DEF Value
<1>4. Value.pane \in Panes /\ Value.nth \in 1..MaxOutput
  BY <1>3
<1>5. /\ view \in UNION {[ps -> Screens] : ps \in SUBSET Panes}
      /\ pending \in [Panes -> Seq(1..MaxOutput)] /\ gate \in Gates
  BY DEF IInv, TypeOK, DaemonTypes
<1>6. view' \in UNION {[ps -> Screens] : ps \in SUBSET Panes}
  <2>1. CASE UNCHANGED view
    BY <1>5, <2>1
  <2>2. CASE /\ Value.pane \in DOMAIN view
             /\ view' = [view EXCEPT ![Value.pane] = Written(@, <<Value.nth>>)]
    <3>1. PICK ps \in SUBSET Panes : view \in [ps -> Screens]
      BY <1>5
    <3>2. <<Value.nth>> \in Seq(1..MaxOutput) /\ view[Value.pane] \in Screens
      BY <1>4, <2>2, <3>1
    <3>3. Written(view[Value.pane], <<Value.nth>>) \in Screens
      BY <3>2, WrittenTypes
    <3>4. view' \in [ps -> Screens]
      BY <2>2, <3>1, <3>3
    <3>5. QED  BY <3>4, Zenon
  <2>3. QED  BY <2>1, <2>2 DEF DaemonOutput
<1>7. pending' \in [Panes -> Seq(1..MaxOutput)]
  <2>1. CASE UNCHANGED pending
    BY <1>5, <2>1
  <2>2. CASE pending' = [pending EXCEPT ![Value.pane] = Append(@, Value.nth)]
    BY <1>4, <1>5, <2>2
  <2>3. QED  BY <2>1, <2>2 DEF DaemonOutput
<1>8. DaemonTypes' /\ gate' = gate
  BY <1>1, <1>6, <1>7 DEF IInv, TypeOK, DaemonTypes, NoStatus
<1>9. QED  BY <1>1, <1>2, <1>8, InSame, DaemonReadsStep

LEMMA DaemonStatusStep == ASSUME IInv, DaemonStatus PROVE IInv'
<1>1. /\ DaemonGets("status") /\ shown' = Value
      /\ UNCHANGED <<daemonRest, in, gate, applied, pendingName, view, pending>>
  BY DEF DaemonStatus
<1>2. link = "up" /\ out # <<>> /\ out' = Tail(out) /\ Head(out) \in Message /\ Head(out).type = "status"
  BY <1>1, Reading
<1>3. Value \in 0..MaxStatus
  BY <1>2, Carried DEF Value
<1>4. shown' \in 0..NoStatus
  <2>1. MaxStatus \in Nat
    BY SharingAssumption
  <2>2. QED  BY <1>1, <1>3, <2>1 DEF NoStatus
<1>5. DaemonTypes' /\ gate' = gate
  BY <1>1, <1>4 DEF IInv, TypeOK, DaemonTypes, NoStatus
<1>6. QED  BY <1>1, <1>2, <1>5, InSame, DaemonReadsStep

LEMMA DaemonFinStep == ASSUME IInv, DaemonFin PROVE IInv'
<1>1. /\ DaemonGets("fin") /\ gate' = [gate EXCEPT !.ending = TRUE]
      /\ UNCHANGED <<daemonRest, in, applied, pendingName, view, pending, shown>>
  BY DEF DaemonFin
<1>2. link = "up" /\ out # <<>> /\ out' = Tail(out)
  BY <1>1, Reading
<1>3. gate \in Gates
  BY DEF IInv, TypeOK, DaemonTypes
<1>4. /\ gate' \in Gates /\ gate'.awaiting = gate.awaiting /\ gate'.stable = gate.stable
      /\ gate'.fatal = gate.fatal /\ gate'.announced = gate.announced
  BY <1>1, <1>3 DEF Gates
<1>5. DaemonTypes'
  BY <1>1, <1>4 DEF IInv, TypeOK, DaemonTypes, NoStatus
<1>6. QED  BY <1>1, <1>2, <1>4, <1>5, InSame, DaemonReadsStep

LEMMA DaemonReadsAll == ASSUME IInv, DaemonReads PROVE IInv'
<1>1. CASE DaemonTorn
  BY <1>1, DisconnectedStep DEF DaemonTorn
<1>2. QED
  BY <1>1, DaemonHeaderStep, DaemonCommandStep, DaemonIdentityStep, DaemonReadyStep, DaemonLayoutStep,
     DaemonSnapshotStep, DaemonOutputStep, DaemonStatusStep, DaemonFinStep, DaemonIgnoresStep
     DEF DaemonReads

LEMMA HostReadsAll == ASSUME IInv, HostReads PROVE IInv'
  BY HostCapabilityStep, HostReconnectCapabilityStep, HostSessionNameStep, HostUpdateRequiredStep
     DEF HostReads

-----------------------------------------------------------------------------
LEMMA Stuttering == ASSUME IInv, UNCHANGED vars PROVE IInv'
<1>1. UNCHANGED <<paneVars, status, hostVars, linkVars, out, in, daemonVars>>
  BY DEF vars
<1>2. HostTypes' /\ UNCHANGED <<linkVars, in, daemonVars>>
  BY <1>1 DEF IInv, TypeOK, HostTypes, paneVars, hostVars, NoStatus
<1>3. out' \in Seq(Message) /\ Keeps(out, out', Answer)
  BY <1>1, Same, GainedKeeps DEF IInv, TypeOK, QueueTypes
<1>4. QED  BY <1>2, <1>3, HostStep

LEMMA Preserved == IInv /\ [Next]_vars => IInv'
<1> SUFFICES ASSUME IInv, [Next]_vars PROVE IInv'
  OBVIOUS
<1>1. CASE ServerLoop        BY <1>1, ServerLoopStep
<1>2. CASE ExecCmd           BY <1>2, ExecCmdStep
<1>3. CASE StatusTimer       BY <1>3, StatusTimerStep
<1>4. CASE StatusChanges     BY <1>4, StatusChangesStep
<1>5. CASE \E p \in Panes : PaneOutput(p) \/ SelectWindow(p)
  BY <1>5, PaneOutputStep, SelectWindowStep
<1>6. CASE \E p \in Panes, w \in BOOLEAN : OpenPane(p, w) \/ ClosePane(p, w)
  BY <1>6, OpenPaneStep, ClosePaneStep
<1>7. CASE HostReads         BY <1>7, HostReadsAll
<1>8. CASE CapabilityTimeout BY <1>8, CapabilityTimeoutStep
<1>9. CASE Connect           BY <1>9, ConnectStep
<1>10. CASE ConnectFails     BY <1>10, ConnectFailsStep
<1>11. CASE Lost             BY <1>11, DisconnectedStep DEF Lost
<1>12. CASE DaemonReads      BY <1>12, DaemonReadsAll
<1>13. CASE DaemonEnds       BY <1>13, DisconnectedStep DEF DaemonEnds
<1>14. CASE UNCHANGED vars   BY <1>14, Stuttering
<1>15. QED
  BY <1>1, <1>2, <1>3, <1>4, <1>5, <1>6, <1>7, <1>8, <1>9, <1>10, <1>11, <1>12, <1>13, <1>14, Zenon
     DEF Next

LEMMA FirstCmdsTypes ==
  /\ FirstCmds \in Seq(CommandNames)
  /\ <<Msg("header", 0)>> \o Commands(FirstCmds) \in Seq(Message)
  /\ Without(<<Msg("header", 0)>> \o Commands(FirstCmds), Answer)
<1>1. AskedName \in CommandNames /\ "identity" \in CommandNames /\ "keys" \in CommandNames
  BY SharingAssumption DEF CommandNames
<1>2. FirstCmds \in Seq(CommandNames)
  BY <1>1 DEF FirstCmds
<1> DEFINE cmds == Commands(FirstCmds)
<1>3. DOMAIN FirstCmds = 1..3 /\ \A i \in 1..3 : FirstCmds[i] \in CommandNames
  BY <1>1 DEF FirstCmds
<1>4. \A i \in 1..3 : Msg("cmd", FirstCmds[i]) \in Message /\ Msg("cmd", FirstCmds[i]) \notin Answer
  BY <1>3, MessageTypes, Others, Zenon
<1>5. cmds = [i \in 1..3 |-> Msg("cmd", FirstCmds[i])]
  BY <1>3 DEF Commands
<1> HIDE DEF cmds
<1>6. cmds \in [1..3 -> Message] /\ \A i \in 1..3 : cmds[i] \notin Answer
  BY <1>4, <1>5, Zenon
<1>7. 3 \in Nat
  OBVIOUS
<1>8. /\ <<Msg("header", 0)>> \o cmds \in Seq(Message)
      /\ Without(<<Msg("header", 0)>> \o cmds, Answer)
  BY <1>6, <1>7, HeaderFirst, Zenon
<1>9. QED  BY <1>2, <1>8 DEF cmds

LEMMA Initially == Init => IInv
<1> SUFFICES ASSUME Init PROVE IInv
  OBVIOUS
<1>1. MaxOutput \in Nat /\ MaxConns \in Nat /\ MaxStatus \in Nat /\ FirstPane \in Panes
  BY SharingAssumption
<1>2. HostTypes
  <2>1. open \subseteq Panes /\ closed \subseteq Panes /\ sent \subseteq Panes
        /\ written \in [Panes -> 0..MaxOutput]
    BY <1>1 DEF Init
  <2>2. status \in 0..MaxStatus /\ statusSent \in 0..NoStatus
    BY <1>1 DEF Init, NoStatus
  <2>3. /\ host \in [layout : BOOLEAN, snapshot : BOOLEAN, failed : BOOLEAN, readyPending : BOOLEAN]
        /\ told \in Names \cup {NoName} /\ reconnected \in BOOLEAN
    BY DEF Init
  <2>4. saved \in Seq(CommandNames)
    BY FirstCmdsTypes DEF Init
  <2>5. QED  BY <2>1, <2>2, <2>3, <2>4 DEF HostTypes
<1>3. QueueTypes
  <2>1. out \in Seq(Message) /\ in \in Seq(Answers) /\ link \in {"down", "up"}
    BY FirstCmdsTypes, NothingThere DEF Init
  <2>2. conns \in 0..MaxConns
    BY <1>1 DEF Init
  <2>3. QED  BY <2>1, <2>2 DEF QueueTypes
<1>4. DaemonTypes
  <2>1. /\ gate = NoGate /\ applied = <<>> /\ pendingName = NoName
        /\ view = <<>> /\ pending = [p \in Panes |-> <<>>] /\ shown = NoStatus
    BY DEF Init
  <2>2. applied \in Seq(CommandNames)
    BY <2>1
  <2>3. QED  BY <2>1, <2>2, NothingThere, Zenon DEF DaemonTypes
<1>5. HandshakeInv
  <2>1. gate = NoGate /\ in = <<>> /\ Without(out, Answer)
    BY FirstCmdsTypes DEF Init
  <2>2. AtMostOnce(out, Answer)
    BY <2>1, Zenon DEF Without, AtMostOnce
  <2>3. QED  BY <2>1, <2>2, NothingThere, Zenon DEF HandshakeInv
<1>6. QED  BY <1>2, <1>3, <1>4, <1>5 DEF IInv, TypeOK

(* Types, and with them: the host was asked for its identity at most once, and  *)
(* only by a daemon that waits for it and lets nobody in meanwhile.             *)
THEOREM Invariance == Spec => []IInv
<1>1. Init => IInv
  BY Initially
<1>2. IInv /\ [Next]_vars => IInv'
  BY Preserved
<1>3. QED  BY <1>1, <1>2, PTL DEF Spec

(* Every variable has its type.                                               *)
THEOREM TypeCorrect == Spec => []TypeOK
<1>1. IInv => TypeOK
  BY DEF IInv
<1>2. QED  BY <1>1, Invariance, PTL

(* The identity handshake never ends a daemon, for any panes, any outcomes of  *)
(* encoding and any number of connections.                                     *)
THEOREM Handshake == Spec => []HandshakeValid
<1>1. IInv => HandshakeValid
  BY DEF IInv, HandshakeInv, HandshakeValid
<1>2. QED  BY <1>1, Invariance, PTL

-----------------------------------------------------------------------------
(* Queues, place by place.                                                   *)

Later(i, j) == j < i /\ j <= i /\ j # i /\ ~(i < j) /\ ~(i <= j) /\ i + 1 # j /\ i + 1 >= j

(* r is q with more elements, none of them in S.                             *)
MoreOf(q, r, S) ==
  /\ \A i \in DOMAIN q : i \in DOMAIN r /\ r[i] = q[i]
  /\ \A i \in DOMAIN r : i \in DOMAIN q \/ (r[i] \notin S /\ \A j \in DOMAIN q : Later(i, j))
  /\ q # <<>> => r # <<>> /\ Head(r) = Head(q)

LEMMA Grown ==
  ASSUME NEW T, NEW q \in Seq(T), NEW r \in Seq(T), NEW S, Gained(q, r, S)
  PROVE  MoreOf(q, r, S)
<1>1. DOMAIN q = 1..Len(q) /\ DOMAIN r = 1..Len(r) /\ Len(q) \in Nat /\ Len(r) \in Nat
  OBVIOUS
<1>2. \A i \in DOMAIN r : i \in DOMAIN q \/ i \in Len(q) + 1..Len(r)
  BY <1>1
<1>3. \A i \in DOMAIN q : i \in DOMAIN r /\ r[i] = q[i]
  BY <1>1 DEF Gained
<1>4. \A i \in DOMAIN r : i \in DOMAIN q \/ (r[i] \notin S /\ \A j \in DOMAIN q : Later(i, j))
  <2> SUFFICES ASSUME NEW i \in DOMAIN r, i \notin DOMAIN q
               PROVE  r[i] \notin S /\ \A j \in DOMAIN q : Later(i, j)
    OBVIOUS
  <2>1. i \in Len(q) + 1..Len(r)
    BY <1>2
  <2>2. r[i] \notin S
    BY <2>1 DEF Gained
  <2>3. \A j \in 1..Len(q) : Later(i, j)
    BY <1>1, <2>1 DEF Later
  <2> QED
    BY <1>1, <2>2, <2>3, Zenon
<1>5. q # <<>> => r # <<>> /\ Head(r) = Head(q)
  <2> SUFFICES ASSUME q # <<>> PROVE r # <<>> /\ Head(r) = Head(q)
    OBVIOUS
  <2>1. 1 \in DOMAIN q
    BY <1>1
  <2>2. 1 \in DOMAIN r /\ r[1] = q[1]
    BY <1>3, <2>1
  <2> QED
    BY <2>1, <2>2
<1> QED
  BY <1>3, <1>4, <1>5 DEF MoreOf

(* t is q without its first element.                                         *)
RestOf(q, t) ==
  /\ 1 \in DOMAIN q /\ Head(q) = q[1]
  /\ \A i \in DOMAIN t : i + 1 \in DOMAIN q /\ i + 1 # 1 /\ 1 < i + 1 /\ t[i] = q[i + 1]
  /\ \A j \in DOMAIN q : j = 1 \/ \E k \in DOMAIN t : j = k + 1
  /\ \A i, k \in DOMAIN t :
       /\ (k + 1 < i + 1 <=> k < i) /\ (k + 1 <= i + 1 <=> k <= i) /\ (k + 1 = i + 1 <=> k = i)
       /\ ((k + 1) + 1 = i + 1 <=> k + 1 = i) /\ ((k + 1) + 1 >= i + 1 <=> k + 1 >= i)
  /\ \A i \in DOMAIN t : (i = 1 <=> 1 + 1 = i + 1) /\ (1 + 1 >= i + 1 => i = 1) /\ 1 <= i + 1
                       /\ ~(i + 1 <= 1) /\ ~(i + 1 < 1)

LEMMA Shifted ==
  ASSUME NEW T, NEW q \in Seq(T), q # <<>>
  PROVE  Tail(q) \in Seq(T) /\ RestOf(q, Tail(q))
<1>1. /\ Len(q) \in Nat \ {0} /\ DOMAIN q = 1..Len(q) /\ Tail(q) \in Seq(T)
      /\ DOMAIN Tail(q) = 1..Len(q) - 1 /\ Head(q) = q[1]
      /\ \A i \in 1..Len(q) - 1 : Tail(q)[i] = q[i + 1]
  OBVIOUS
<1>2. \A j \in DOMAIN q : j = 1 \/ (j - 1 \in DOMAIN Tail(q) /\ j = (j - 1) + 1)
  BY <1>1
<1> QED
  BY <1>1, <1>2 DEF RestOf

LEMMA Added ==
  ASSUME NEW T, NEW q \in Seq(T), NEW x \in T
  PROVE  /\ Append(q, x) \in Seq(T) /\ Len(q) \in Nat
         /\ DOMAIN q = 1..Len(q) /\ DOMAIN Append(q, x) = 1..Len(q) + 1
         /\ \A i \in DOMAIN q : Append(q, x)[i] = q[i]
         /\ Append(q, x)[Len(q) + 1] = x
         /\ Append(q, x) # <<>>
  OBVIOUS

LEMMA MessageForm ==
  ASSUME NEW m \in Message
  PROVE  m = [type |-> m.type, value |-> m.value]
  BY DEF Message

(* Every nonempty set of numbers has a least one.                            *)
LEMMA LeastNumber ==
  ASSUME NEW T, T \subseteq Nat, T # {}
  PROVE  \E m \in T : \A k \in T : m <= k
<1> DEFINE R == {s \in Nat \X Nat : s[1] < s[2]}
<1>1. IsWellFoundedOn(R, Nat)
  BY NatLessThanWellFounded DEF OpToRel
<1>2. PICK m \in T : \A k \in T : ~(<<k, m>> \in R)
  <2> HIDE DEF R
  <2> QED
    BY <1>1, WFMin
<1>3. \A k \in T : m <= k
  <2> SUFFICES ASSUME NEW k \in T PROVE m <= k
    OBVIOUS
  <2>1. m \in Nat /\ k \in Nat
    OBVIOUS
  <2>2. ~(k < m)
    <3>1. ~(<<k, m>> \in R)
      BY <1>2
    <3>2. <<k, m>> \in Nat \X Nat
      BY <2>1
    <3> QED
      BY <3>1, <3>2
  <2> QED
    BY <2>1, <2>2
<1> QED
  BY <1>3

LEMMA SharedNotEmpty ==
  ASSUME NEW ps \in SUBSET Panes, ps # {}
  PROVE  FirstByName(ps) # {}
<1> DEFINE T == {Session[p] : p \in ps}
<1>1. T \subseteq Nat /\ T # {}
  <2>1. \A p \in ps : Session[p] \in Nat
    BY SharingAssumption
  <2> QED
    BY <2>1
<1>2. PICK m \in T : \A k \in T : m <= k
  BY <1>1, LeastNumber
<1>3. PICK p \in ps : m = Session[p]
  BY <1>2
<1>4. p \in FirstByName(ps)
  BY <1>2, <1>3 DEF FirstByName
<1> QED
  BY <1>4

-----------------------------------------------------------------------------
(* The stages of a connection                                                *)

Offer == "snapshot capability"
Preceded(i) == \E j \in DOMAIN in : j < i /\ in[j] = Offer

LEMMA StageParts ==
  StageInv <=>
    /\ link = "down" => ~host.layout /\ ~host.snapshot
    /\ host.layout => host.snapshot
    /\ \A i \in DOMAIN in : in[i] = Capability => host.snapshot \/ host.failed \/ Preceded(i)
    /\ ~host.layout =>
         /\ NoneOf(out, Bulk \cup {"torn"})
         /\ view = <<>> /\ pending = NothingKept /\ ~gate.layout /\ ~gate.snapshot
    /\ gate.refused => ~host.layout /\ Without(in, {Capability})
    /\ \A i \in DOMAIN out :
         /\ out[i].type = "torn" => i = 1
         /\ out[i].type = "header" =>
              i = 1 /\ ~host.layout /\ ~gate.refused /\ Without(in, {Capability})
    /\ gate.snapshot => gate.layout
  BY Zenon DEF StageInv, Preceded, Offer

LEMMA StageNext ==
  ASSUME link' = "down" => ~host'.layout /\ ~host'.snapshot,
         host'.layout => host'.snapshot,
         \A i \in DOMAIN in' : in'[i] = Capability => host'.snapshot \/ host'.failed \/ Preceded(i)',
         ~host'.layout =>
           /\ NoneOf(out', Bulk \cup {"torn"})
           /\ view' = <<>> /\ pending' = NothingKept /\ ~gate'.layout /\ ~gate'.snapshot,
         gate'.refused => ~host'.layout /\ Without(in', {Capability}),
         \A i \in DOMAIN out' :
           /\ out'[i].type = "torn" => i = 1
           /\ out'[i].type = "header" =>
                i = 1 /\ ~host'.layout /\ ~gate'.refused /\ Without(in', {Capability}),
         gate'.snapshot => gate'.layout
  PROVE  StageInv'
<1>1. \A i \in DOMAIN in' : in'[i] = Capability =>
        host'.snapshot \/ host'.failed \/ \E j \in DOMAIN in' : j < i /\ in'[j] = Offer
  BY Zenon DEF Preceded
<1>2. NothingKept' = NothingKept
  BY DEF NothingKept
<1> QED
  BY <1>1, <1>2, Zenon DEF StageInv, Offer

LEMMA StageHost ==
  ASSUME IInv, StageInv, out' \in Seq(Message), UNCHANGED <<link, gate, view, pending>>,
         \A i \in DOMAIN out' :
           \/ i \in DOMAIN out /\ out'[i] = out[i]
           \/ /\ out'[i].type # "header" /\ (out'[i].type = "torn" => i = 1)
              /\ out'[i].type \in Bulk \cup {"torn"} => host'.layout,
         host.layout => host'.layout, host.snapshot => host'.snapshot, host.failed => host'.failed,
         host'.layout => host'.snapshot /\ (host.layout \/ ~Without(in, {Capability})),
         host'.snapshot => host.snapshot \/ in # <<>>,
         \/ in' = in
         \/ /\ in # <<>> /\ in' = Tail(in)
            /\ Head(in) = Offer => host'.snapshot \/ host'.failed
  PROVE  StageInv'
<1>1. in \in Seq(Answers) /\ out \in Seq(Message)
  BY DEF IInv, TypeOK, QueueTypes
<1>2. link = "down" => ~host'.layout /\ ~host'.snapshot
  BY <1>1, NothingThere, StageParts DEF IInv, HandshakeInv
<1>3. \A i \in DOMAIN in' : in'[i] = Capability => host'.snapshot \/ host'.failed \/ Preceded(i)'
  <2>1. CASE in' = in
    BY <2>1, StageParts DEF Preceded
  <2>2. CASE in # <<>> /\ in' = Tail(in) /\ (Head(in) = Offer => host'.snapshot \/ host'.failed)
    <3> SUFFICES ASSUME NEW i \in DOMAIN in', in'[i] = Capability, ~host'.snapshot, ~host'.failed
                 PROVE  Preceded(i)'
      OBVIOUS
    <3>0. RestOf(in, in')
      BY <1>1, <2>2, Shifted
    <3>1. /\ Head(in) = in[1] /\ i + 1 \in DOMAIN in /\ in[i + 1] = Capability
          /\ \A j \in DOMAIN in : j = 1 \/ \E k \in DOMAIN in' : j = k + 1
          /\ \A k \in DOMAIN in' : in'[k] = in[k + 1] /\ (k + 1 < i + 1 => k < i)
      BY <3>0, Zenon DEF RestOf
    <3>2. Preceded(i + 1)
      <4>1. ~host.snapshot /\ ~host.failed
        OBVIOUS
      <4>2. \A k \in DOMAIN in : in[k] = Capability => Preceded(k)
        BY <4>1, StageParts
      <4> QED
        BY <3>1, <4>2, Zenon
    <3>3. PICK j \in DOMAIN in : j < i + 1 /\ in[j] = Offer
      BY <3>2 DEF Preceded
    <3>4. j # 1
      BY <2>2, <3>1, <3>3
    <3> QED
      BY <3>1, <3>3, <3>4, Zenon DEF Preceded
  <2> QED
    BY <2>1, <2>2
<1>4. \A S : Without(in, S) => Without(in', S)
  BY <1>1, TailKeeps
<1>5. ~host'.layout =>
       /\ NoneOf(out', Bulk \cup {"torn"})
       /\ view' = <<>> /\ pending' = NothingKept /\ ~gate'.layout /\ ~gate'.snapshot
  BY StageParts DEF NoneOf
<1>6. gate.refused => ~host'.layout /\ Without(in', {Capability})
  BY <1>4, StageParts
<1>7. \A i \in DOMAIN out' :
       /\ out'[i].type = "torn" => i = 1
       /\ out'[i].type = "header" =>
            i = 1 /\ ~host'.layout /\ ~gate.refused /\ Without(in', {Capability})
  BY <1>4, StageParts
<1>8. /\ host'.layout => host'.snapshot
      /\ gate'.snapshot => gate'.layout
  BY StageParts
<1> QED
  BY <1>2, <1>3, <1>5, <1>6, <1>7, <1>8, StageNext

(* The daemon reads anything but the header.                                 *)
LEMMA StageDaemon ==
  ASSUME IInv, StageInv, out # <<>>, out' = Tail(out), UNCHANGED <<link, host>>, link = "up",
         in' = in \/ (\E a \in Answers \ {Capability} : in' = Append(in, a)),
         gate'.refused => gate.refused,
         Head(out).type \notin Bulk =>
           UNCHANGED <<view, pending>> /\ gate'.layout = gate.layout /\ gate'.snapshot = gate.snapshot,
         gate'.snapshot => gate'.layout
  PROVE  StageInv'
<1>1. in \in Seq(Answers) /\ out \in Seq(Message)
  BY DEF IInv, TypeOK, QueueTypes
<1>2. /\ \A i \in DOMAIN in : i \in DOMAIN in' /\ in'[i] = in[i]
      /\ \A i \in DOMAIN in' : i \in DOMAIN in \/ in'[i] # Capability
  <2>1. CASE in' = in
    BY <1>1, <2>1
  <2>2. CASE \E a \in Answers \ {Capability} : in' = Append(in, a)
    <3>1. PICK a \in Answers : a # Capability /\ in' = Append(in, a)
      BY <2>2
    <3>2. /\ DOMAIN in = 1..Len(in) /\ DOMAIN in' = 1..Len(in) + 1 /\ Len(in) \in Nat
          /\ \A i \in DOMAIN in : in'[i] = in[i]
          /\ in'[Len(in) + 1] = a
      <4> HIDE DEF Capability
      <4> QED
        BY <1>1, <3>1, Added
    <3>3. \A i \in DOMAIN in' : i \in DOMAIN in \/ i = Len(in) + 1
      BY <3>2
    <3>4. \A i \in DOMAIN in : i \in DOMAIN in'
      BY <3>2
    <3> QED
      BY <3>1, <3>2, <3>3, <3>4, Zenon
  <2> QED
    BY <2>1, <2>2
<1>3. \A i \in DOMAIN in' : in'[i] = Capability => host.snapshot \/ host.failed \/ Preceded(i)'
  <2> SUFFICES ASSUME NEW i \in DOMAIN in', in'[i] = Capability, ~host.snapshot, ~host.failed
               PROVE  Preceded(i)'
    OBVIOUS
  <2>1. i \in DOMAIN in /\ in[i] = Capability
    BY <1>2, Zenon
  <2>2. Preceded(i)
    BY <2>1, StageParts
  <2> QED
    BY <1>2, <2>2, Zenon DEF Preceded
<1>4. Without(in, {Capability}) => Without(in', {Capability})
  BY <1>2 DEF Without
<1>5. \A i \in DOMAIN out' : /\ i + 1 \in DOMAIN out /\ out'[i] = out[i + 1] /\ i + 1 # 1
  BY <1>1, Shifted DEF RestOf
<1>6. 1 \in DOMAIN out /\ Head(out) = out[1]
  BY <1>1, Shifted DEF RestOf
<1>7. ~host.layout =>
       /\ NoneOf(out', Bulk \cup {"torn"})
       /\ view' = <<>> /\ pending' = NothingKept /\ ~gate'.layout /\ ~gate'.snapshot
  BY <1>5, <1>6, StageParts DEF NoneOf
<1>8. \A i \in DOMAIN out' : out'[i].type # "torn" /\ out'[i].type # "header"
  BY <1>5, StageParts
<1>9. gate'.refused => ~host.layout /\ Without(in', {Capability})
  BY <1>4, StageParts
<1>10. link' # "down" /\ (host.layout => host.snapshot)
  BY StageParts
<1> QED
  BY <1>3, <1>7, <1>8, <1>9, <1>10, StageNext

LEMMA StillWhole ==
  ASSUME NEW S, MoreOf(out, out', S), ~Tearing'
  PROVE  ~Tearing
  BY Zenon DEF MoreOf, Tearing

-----------------------------------------------------------------------------
(* The snapshot                                                              *)

Snapshots == {m \in Message : m.type = "snapshot"}

LEMMA SnapshotHost ==
  ASSUME SnapshotInv, out' \in Seq(Message), UNCHANGED <<gate, view, pending>>,
         MoreOf(out, out', Snapshots)
  PROVE  SnapshotInv'
<1> SUFFICES ASSUME ~Tearing', NEW k \in DOMAIN out', out'[k].type = "snapshot"
             PROVE  /\ ~gate.snapshot /\ pending = NothingKept
                    /\ k = 1 => gate.layout /\ DOMAIN view = DOMAIN out'[k].value
                    /\ \A j \in DOMAIN out' : j + 1 = k => out'[j] = Msg("layout", DOMAIN out'[k].value)
                    /\ \A j \in DOMAIN out' : out'[j].type \in Bulk =>
                         j + 1 >= k /\ (out'[j].type = "snapshot" => j = k)
  BY Zenon DEF SnapshotInv, NothingKept
<1>1. ~Tearing
  BY StillWhole
<1>2. \A i \in DOMAIN out' : out'[i] \in Message
  BY Elements
<1>3. \A i \in DOMAIN out' : out'[i].type = "snapshot" => i \in DOMAIN out /\ out'[i] = out[i]
  BY <1>2, Zenon DEF MoreOf, Snapshots
<1>4. /\ ~gate.snapshot /\ pending = NothingKept
      /\ k = 1 => gate.layout /\ DOMAIN view = DOMAIN out[k].value
      /\ \A j \in DOMAIN out : j + 1 = k => out[j] = Msg("layout", DOMAIN out[k].value)
      /\ \A j \in DOMAIN out : out[j].type \in Bulk =>
           j + 1 >= k /\ (out[j].type = "snapshot" => j = k)
  BY <1>1, <1>3, Zenon DEF SnapshotInv
<1>5. \A j \in DOMAIN out' : j \in DOMAIN out \/ (j + 1 # k /\ j + 1 >= k /\ out'[j].type # "snapshot")
  BY <1>3, Zenon DEF MoreOf, Later
<1>6. \A j \in DOMAIN out : out'[j] = out[j]
  BY Zenon DEF MoreOf
<1> QED
  BY <1>3, <1>4, <1>5, <1>6, Zenon

LEMMA SnapshotDaemon ==
  ASSUME IInv, SnapshotInv, ~Tearing, out # <<>>, out' = Tail(out),
         gate'.snapshot = gate.snapshot \/ Head(out).type = "snapshot",
         Head(out).type = "layout" =>
           gate'.layout /\ DOMAIN view' = Head(out).value /\ pending' = NothingKept,
         Head(out).type \notin Bulk => UNCHANGED <<view, pending>> /\ gate'.layout = gate.layout
  PROVE  SnapshotInv'
<1> SUFFICES ASSUME NEW k \in DOMAIN out', out'[k].type = "snapshot"
             PROVE  /\ ~gate'.snapshot /\ pending' = NothingKept
                    /\ k = 1 => gate'.layout /\ DOMAIN view' = DOMAIN out'[k].value
                    /\ \A j \in DOMAIN out' : j + 1 = k => out'[j] = Msg("layout", DOMAIN out'[k].value)
                    /\ \A j \in DOMAIN out' : out'[j].type \in Bulk =>
                         j + 1 >= k /\ (out'[j].type = "snapshot" => j = k)
  BY Zenon DEF SnapshotInv, NothingKept
<1>1. RestOf(out, out')
  <2>1. out \in Seq(Message)
    BY DEF IInv, TypeOK, QueueTypes
  <2> QED
    BY <2>1, Shifted
<1>2. k + 1 \in DOMAIN out /\ out'[k] = out[k + 1]
  BY <1>1, Zenon DEF RestOf
<1>3. /\ ~gate.snapshot /\ pending = NothingKept
      /\ \A j \in DOMAIN out : j + 1 = k + 1 => out[j] = Msg("layout", DOMAIN out'[k].value)
      /\ \A j \in DOMAIN out : out[j].type \in Bulk =>
           j + 1 >= k + 1 /\ (out[j].type = "snapshot" => j = k + 1)
  <2>1. out[k + 1].type = "snapshot"
    BY <1>2
  <2>2. /\ ~gate.snapshot /\ pending = NothingKept
        /\ \A j \in DOMAIN out : j + 1 = k + 1 => out[j] = Msg("layout", DOMAIN out[k + 1].value)
        /\ \A j \in DOMAIN out : out[j].type \in Bulk =>
             j + 1 >= k + 1 /\ (out[j].type = "snapshot" => j = k + 1)
    BY <1>2, <2>1, Zenon DEF SnapshotInv
  <2> QED
    BY <1>2, <2>2, Zenon
<1>4. /\ \A j \in DOMAIN out' : j + 1 = k => out'[j] = Msg("layout", DOMAIN out'[k].value)
      /\ \A j \in DOMAIN out' : out'[j].type \in Bulk =>
           j + 1 >= k /\ (out'[j].type = "snapshot" => j = k)
  <2> SUFFICES ASSUME NEW j \in DOMAIN out'
               PROVE  /\ j + 1 = k => out'[j] = Msg("layout", DOMAIN out'[k].value)
                      /\ out'[j].type \in Bulk => j + 1 >= k /\ (out'[j].type = "snapshot" => j = k)
    BY Zenon
  <2>1. /\ j + 1 \in DOMAIN out /\ out'[j] = out[j + 1]
        /\ ((j + 1) + 1 = k + 1 <=> j + 1 = k) /\ ((j + 1) + 1 >= k + 1 <=> j + 1 >= k)
        /\ (j + 1 = k + 1 <=> j = k)
    BY <1>1 DEF RestOf
  <2>2. j + 1 = k => out'[j] = Msg("layout", DOMAIN out'[k].value)
    BY <1>3, <2>1
  <2>3. out'[j].type \in Bulk => j + 1 >= k /\ (out'[j].type = "snapshot" => j = k)
    BY <1>3, <2>1
  <2> QED
    BY <2>2, <2>3
<1>5. 1 \in DOMAIN out /\ Head(out) = out[1]
  BY <1>1, Zenon DEF RestOf
<1>6. Head(out).type # "snapshot"
  BY <1>1, <1>3, <1>5 DEF RestOf, Bulk
<1>7. CASE k = 1
  <2>1. Head(out) = Msg("layout", DOMAIN out'[k].value)
    BY <1>1, <1>3, <1>5, <1>7, Zenon DEF RestOf
  <2>2. Head(out).type = "layout" /\ Head(out).value = DOMAIN out'[k].value
    BY <2>1 DEF Msg
  <2> QED
    BY <1>3, <1>4, <1>6, <2>2
<1>8. CASE k # 1
  <2>1. Head(out).type \notin Bulk
    BY <1>1, <1>3, <1>5, <1>8, Zenon DEF RestOf
  <2> QED
    BY <1>3, <1>4, <1>6, <1>8, <2>1
<1> QED
  BY <1>7, <1>8

-----------------------------------------------------------------------------
(* The identity and the keys                                                 *)

LEMMA OrderHost ==
  ASSUME OrderInv, UNCHANGED <<link, reconnected, gate, view, applied>>,
         host.failed => host'.failed,
         \A i \in DOMAIN saved : i \in DOMAIN saved' /\ saved'[i] = saved[i],
         open' # {},
         Tearing' \/ MoreOf(out, out', {}),
         \A i \in DOMAIN out' :
           (i \in DOMAIN out /\ out'[i] = out[i]) \/ (out'[i].type = "layout" => out'[i].value # {})
  PROVE  OrderInv'
<1>1. \A c \in Setup : \E i \in DOMAIN saved' : saved'[i] = c
  BY Zenon DEF OrderInv
<1>2. \A c : Has(c)' <=> Has(c)
  BY Zenon DEF Has
<1>3. Current' => Current
  BY Zenon DEF Current
<1>4. ~Tearing' => \A c : Comes(c) => Comes(c)'
  <2> SUFFICES ASSUME ~Tearing', NEW c, Comes(c) PROVE Comes(c)'
    BY Zenon
  <2>1. MoreOf(out, out', {})
    BY Zenon
  <2>2. PICK i \in DOMAIN out : /\ out[i] = Msg("cmd", c)
                               /\ \A j \in DOMAIN out : j <= i => out[j].type \notin Bulk
    BY Zenon DEF Comes
  <2>3. i \in DOMAIN out' /\ out'[i] = Msg("cmd", c)
    BY <2>1, <2>2, Zenon DEF MoreOf
  <2>4. \A j \in DOMAIN out' : j <= i => out'[j].type \notin Bulk
    BY <2>1, <2>2, Zenon DEF MoreOf, Later
  <2> QED
    BY <2>3, <2>4, Zenon DEF Comes
<1>5. Current' /\ ~Tearing' => \A c \in Setup : Has(c)' \/ Comes(c)'
  <2> SUFFICES ASSUME Current', ~Tearing' PROVE \A c \in Setup : Has(c)' \/ Comes(c)'
    BY Zenon
  <2>1. Current /\ ~Tearing
    BY <1>3, StillWhole, Zenon
  <2>2. \A c \in Setup : Has(c) \/ Comes(c)
    BY <2>1, Zenon DEF OrderInv
  <2> QED
    BY <1>2, <1>4, <2>2, Zenon
<1>6. gate'.layout => (\A c \in Setup : Has(c)') /\ DOMAIN view' # {}
  BY <1>2, Zenon DEF OrderInv
<1>7. Has("identity")' => gate'.awaiting \/ gate'.stable
  BY <1>2, Zenon DEF OrderInv
<1>8. gate'.announced => gate'.snapshot /\ gate'.stable
  BY Zenon DEF OrderInv
<1>9. \A i \in DOMAIN out' : out'[i].type = "layout" => out'[i].value # {}
  BY Zenon DEF OrderInv
<1>10. link' = "down" => applied' = <<>>
  BY Zenon DEF OrderInv
<1> HIDE DEF Has, Comes, Current, Tearing
<1> QED
  BY <1>1, <1>5, <1>6, <1>7, <1>8, <1>9, <1>10, Zenon DEF OrderInv, Setup

LEMMA OrderDaemon ==
  ASSUME IInv, OrderInv, ~Tearing, link = "up", out # <<>>, out' = Tail(out),
         UNCHANGED <<link, host, saved, reconnected, open>>,
         gate.refused => gate'.refused,
         applied' = IF Head(out).type = "cmd" THEN Append(applied, Head(out).value) ELSE applied,
         gate'.layout =>
           \/ gate.layout /\ DOMAIN view' = DOMAIN view
           \/ ~gate.refused /\ Head(out).type = "layout" /\ DOMAIN view' = Head(out).value,
         gate.awaiting \/ gate.stable => gate'.awaiting \/ gate'.stable,
         Head(out) = Msg("cmd", "identity") => gate'.awaiting \/ gate'.stable,
         gate'.announced =>
           \/ gate.announced /\ gate'.stable = gate.stable /\ (gate.snapshot => gate'.snapshot)
           \/ gate'.layout /\ gate'.snapshot /\ ~gate'.awaiting
  PROVE  OrderInv'
<1>1. /\ RestOf(out, out') /\ Head(out) \in Message
      /\ 1 \in DOMAIN out /\ Head(out) = out[1] /\ \A i \in DOMAIN out : 1 <= i
      /\ \A i \in DOMAIN out' : i + 1 \in DOMAIN out /\ out'[i] = out[i + 1]
      /\ \A i, k \in DOMAIN out' : k <= i => k + 1 <= i + 1
  <2>1. out \in Seq(Message)
    BY DEF IInv, TypeOK, QueueTypes
  <2>2. RestOf(out, out')
    BY <2>1, Shifted
  <2>3. Len(out) \in Nat \ {0} /\ DOMAIN out = 1..Len(out)
    BY <2>1
  <2>4. Head(out) \in Message /\ \A i \in DOMAIN out : 1 <= i
    BY <2>1, <2>3
  <2> QED
    BY <2>2, <2>4, Zenon DEF RestOf
<1>2. \A c \in Setup : \E i \in DOMAIN saved' : saved'[i] = c
  BY Zenon DEF OrderInv
<1>3. \A c : Has(c) \/ Head(out) = Msg("cmd", c) <=> Has(c)'
  <2>1. CASE Head(out).type = "cmd"
    <3>1. applied \in Seq(CommandNames) /\ Head(out).value \in CommandNames
      BY <1>1, <2>1, Carried DEF IInv, TypeOK, DaemonTypes
    <3>2. applied' = Append(applied, Head(out).value)
      BY <2>1
    <3>3. /\ DOMAIN applied = 1..Len(applied) /\ DOMAIN applied' = 1..Len(applied) + 1 /\ Len(applied) \in Nat
          /\ \A i \in DOMAIN applied : applied'[i] = applied[i]
          /\ applied'[Len(applied) + 1] = Head(out).value
      BY <3>1, <3>2, Added
    <3>4. /\ \A i \in DOMAIN applied : i \in DOMAIN applied'
          /\ \A i \in DOMAIN applied' : i \in DOMAIN applied \/ i = Len(applied) + 1
          /\ Len(applied) + 1 \in DOMAIN applied'
      BY <3>3
    <3>5. \A c : Head(out) = Msg("cmd", c) <=> Head(out).value = c
      <4>1. Head(out) = [type |-> Head(out).type, value |-> Head(out).value]
        BY <1>1, MessageForm
      <4> QED
        BY <2>1, <4>1 DEF Msg
    <3> QED
      BY <3>3, <3>4, <3>5, Zenon DEF Has
  <2>2. CASE Head(out).type # "cmd"
    <3>1. \A c : Head(out) # Msg("cmd", c)
      BY <2>2 DEF Msg
    <3> QED
      BY <2>2, <3>1, Zenon DEF Has
  <2> QED
    BY <2>1, <2>2
<1>4. \A c : Comes(c) => Comes(c)' \/ Head(out) = Msg("cmd", c)
  <2> SUFFICES ASSUME NEW c, Comes(c), Head(out) # Msg("cmd", c) PROVE Comes(c)'
    BY Zenon
  <2>1. PICK i \in DOMAIN out : /\ out[i] = Msg("cmd", c)
                               /\ \A j \in DOMAIN out : j <= i => out[j].type \notin Bulk
    BY Zenon DEF Comes
  <2>2. PICK k \in DOMAIN out' : i = k + 1
    BY <1>1, <2>1, Zenon DEF RestOf
  <2>3. out'[k] = Msg("cmd", c)
    BY <1>1, <2>1, <2>2, Zenon DEF RestOf
  <2>4. \A j \in DOMAIN out' : j <= k => out'[j].type \notin Bulk
    BY <1>1, <2>1, <2>2, Zenon
  <2> QED
    BY <2>3, <2>4, Zenon DEF Comes
<1>5. Head(out).type = "layout" => \A c : ~Comes(c)
  <2>1. "layout" \in Bulk
    BY DEF Bulk
  <2> QED
    BY <1>1, <2>1, Zenon DEF Comes
<1>6. Current' => Current
  BY Zenon DEF Current
<1>7. Current' /\ ~Tearing' => \A c \in Setup : Has(c)' \/ Comes(c)'
  BY <1>3, <1>4, <1>6, Zenon DEF OrderInv
<1>8. gate'.layout => (\A c \in Setup : Has(c)') /\ DOMAIN view' # {}
  <2>1. CASE gate.layout /\ DOMAIN view' = DOMAIN view
    BY <1>3, <2>1, Zenon DEF OrderInv
  <2>2. CASE ~gate.refused /\ Head(out).type = "layout" /\ DOMAIN view' = Head(out).value
    <3>1. Current
      BY <2>2, Zenon DEF Current
    <3>2. \A c \in Setup : Has(c)
      BY <1>5, <2>2, <3>1, Zenon DEF OrderInv
    <3>3. Head(out).value # {}
      BY <1>1, <2>2, Zenon DEF OrderInv
    <3> QED
      BY <1>3, <2>2, <3>2, <3>3, Zenon
  <2> QED
    BY <2>1, <2>2
<1>9. Has("identity")' => gate'.awaiting \/ gate'.stable
  BY <1>3, Zenon DEF OrderInv
<1>10. gate'.announced => gate'.snapshot /\ gate'.stable
  <2>1. "identity" \in Setup
    BY DEF Setup
  <2> QED
    BY <1>8, <1>9, <2>1, Zenon DEF OrderInv
<1>11. \A i \in DOMAIN out' : out'[i].type = "layout" => out'[i].value # {}
  <2>1. \A i \in DOMAIN out : out[i].type = "layout" => out[i].value # {}
    BY Zenon DEF OrderInv
  <2> QED
    BY <1>1, <2>1
<1>12. open' # {}
  BY Zenon DEF OrderInv
<1>13. link' # "down"
  OBVIOUS
<1> HIDE DEF Has, Comes, Current, Tearing
<1> QED
  BY <1>2, <1>7, <1>8, <1>9, <1>10, <1>11, <1>12, <1>13, Zenon DEF OrderInv, Setup

-----------------------------------------------------------------------------
(* What the host queues                                                      *)

(* Messages that are queued in a state of their own only, where panes may be  *)
(* shown if `loud'.                                                           *)
Unsafe(loud) ==
  {m \in Message : \/ m.type \in {"header", "torn", "snapshot"}
                   \/ m.type \in Bulk /\ ~loud
                   \/ m.type = "layout" /\ m.value = {}}

LEMMA ArrivalHost ==
  ASSUME IInv, ArrivalInv, out' \in Seq(Message),
         NEW loud, loud => host'.layout, Gained(out, out', Unsafe(loud)),
         UNCHANGED <<link, reconnected, gate, view, pending, applied>>,
         \A i \in DOMAIN saved : i \in DOMAIN saved' /\ saved'[i] = saved[i],
         open' # {},
         host.layout => host'.layout, host.snapshot => host'.snapshot, host.failed => host'.failed,
         host'.layout => host'.snapshot /\ (host.layout \/ ~Without(in, {Capability})),
         host'.snapshot => host.snapshot \/ in # <<>>,
         \/ in' = in
         \/ /\ in # <<>> /\ in' = Tail(in)
            /\ Head(in) = Offer => host'.snapshot \/ host'.failed
  PROVE  ArrivalInv'
<1>1. MoreOf(out, out', Unsafe(loud))
  <2>1. out \in Seq(Message)
    BY DEF IInv, TypeOK, QueueTypes
  <2> QED
    BY <2>1, Grown
<1>2. \A i \in DOMAIN out' : (i \in DOMAIN out /\ out'[i] = out[i]) \/ out'[i] \in Message \ Unsafe(loud)
  <2>1. \A i \in DOMAIN out' : out'[i] \in Message
    BY Elements
  <2> QED
    BY <1>1, <2>1, Zenon DEF MoreOf
<1>3. \A m \in Message \ Unsafe(loud) :
        /\ m.type # "header" /\ m.type # "torn" /\ m.type # "snapshot"
        /\ m.type \in Bulk => host'.layout
        /\ m.type = "layout" => m.value # {}
  BY DEF Unsafe
<1>4. StageInv'
  <2>1. \A i \in DOMAIN out' :
           \/ i \in DOMAIN out /\ out'[i] = out[i]
           \/ /\ out'[i].type # "header" /\ (out'[i].type = "torn" => i = 1)
              /\ out'[i].type \in Bulk \cup {"torn"} => host'.layout
    BY <1>2, <1>3
  <2>2. StageInv
    BY DEF ArrivalInv
  <2> QED
    BY <2>1, <2>2, StageHost
<1>5. MoreOf(out, out', Snapshots) /\ MoreOf(out, out', {})
  <2>1. \A i \in DOMAIN out' : i \in DOMAIN out \/ out'[i] \notin Snapshots
    BY <1>2, <1>3 DEF Snapshots
  <2> QED
    BY <1>1, <2>1, Zenon DEF MoreOf
<1>6. SnapshotInv'
  BY <1>5, SnapshotHost, Zenon DEF ArrivalInv
<1>7. OrderInv'
  <2>1. \A i \in DOMAIN out' :
           (i \in DOMAIN out /\ out'[i] = out[i]) \/ (out'[i].type = "layout" => out'[i].value # {})
    BY <1>2, <1>3, Zenon
  <2>2. OrderInv
    BY DEF ArrivalInv
  <2>3. MoreOf(out, out', {})
    BY <1>5
  <2> HIDE DEF OrderInv, MoreOf, Tearing
  <2> QED
    BY <2>1, <2>2, <2>3, OrderHost
<1> QED
  BY <1>4, <1>6, <1>7, Zenon DEF ArrivalInv

(* A step of the host on its own.                                            *)
LEMMA ArrivalHostAlone ==
  ASSUME IInv, ArrivalInv, out' \in Seq(Message), Gained(out, out', Unsafe(host.layout)),
         UNCHANGED <<reconnected, linkVars, in, daemonVars>>,
         saved' = saved \/ (\E c : saved' = Append(saved, c)),
         open' # {},
         host'.layout = host.layout, host'.snapshot = host.snapshot, host.failed => host'.failed
  PROVE  ArrivalInv'
<1>1. \A i \in DOMAIN saved : i \in DOMAIN saved' /\ saved'[i] = saved[i]
  <2>1. CASE saved' = saved
    BY <2>1
  <2>2. CASE \E c : saved' = Append(saved, c)
    <3>1. PICK c : saved' = Append(saved, c)
      BY <2>2
    <3>2. saved \in Seq(CommandNames \cup {c})
      <4>1. saved \in Seq(CommandNames)
        BY DEF IInv, TypeOK, HostTypes
      <4> QED
        BY <4>1
    <3>3. /\ DOMAIN saved = 1..Len(saved) /\ DOMAIN saved' = 1..Len(saved) + 1 /\ Len(saved) \in Nat
          /\ \A i \in DOMAIN saved : saved'[i] = saved[i]
      BY <3>1, <3>2, Added
    <3> QED
      BY <3>3
  <2> QED
    BY <2>1, <2>2
<1>2. host'.layout => host'.snapshot
  BY StageParts DEF ArrivalInv
<1>3. UNCHANGED <<link, reconnected, gate, view, pending, applied>> /\ in' = in
  BY DEF linkVars, daemonVars
<1> QED
  BY <1>1, <1>2, <1>3, ArrivalHost

(* What is safe to queue.                                                    *)
LEMMA QueueSafe ==
  ASSUME NEW loud \in BOOLEAN
  PROVE  /\ Fin \in Message \ Unsafe(loud) /\ Msg("ready", 0) \in Message \ Unsafe(loud)
         /\ Msg("identity", 0) \in Message \ Unsafe(loud)
         /\ \A c \in CommandNames : Msg("cmd", c) \in Message \ Unsafe(loud)
         /\ \A v \in 0..MaxStatus : Msg("status", v) \in Message \ Unsafe(loud)
         /\ loud => \A ps \in SUBSET Panes : ps # {} => Msg("layout", ps) \in Message \ Unsafe(loud)
         /\ loud => \A c \in [pane : Panes, nth : 1..MaxOutput] : Msg("pty", c) \in Message \ Unsafe(loud)
<1>1. \A k, v : Msg(k, v).type = k /\ Msg(k, v).value = v
  BY DEF Msg
<1>2. \A k, v : k \notin {"header", "torn", "snapshot"} /\ (k \in Bulk => loud) /\ (k = "layout" => v # {})
        => Msg(k, v) \notin Unsafe(loud)
  BY <1>1 DEF Unsafe
<1> QED
  BY <1>2, MessageTypes DEF Fin, Signals, Bulk

LEMMA Enqueued ==
  ASSUME NEW q \in Seq(Message), NEW r \in Seq(Message), NEW S, Gained(q, r, S),
         NEW m \in Message \ S
  PROVE  Append(r, m) \in Seq(Message) /\ Gained(q, Append(r, m), S)
  BY AppendGains, GainedTwice, Zenon

LEMMA SyncQueues ==
  ASSUME IInv, NEW ps \in SUBSET Panes, ps # {}, SyncLayout(ps)
  PROVE  /\ out' \in Seq(Message) /\ Gained(out, out', Unsafe(host.layout))
         /\ host'.layout = host.layout /\ host'.snapshot = host.snapshot /\ (host.failed => host'.failed)
<1>1. out \in Seq(Message) /\ host \in HostRecord /\ Gained(out, out, Unsafe(host.layout))
  BY Same DEF IInv, TypeOK, QueueTypes, HostTypes, HostRecord
<1>2. CASE UNCHANGED <<host, out>>
  BY <1>1, <1>2
<1>3. CASE CanShow /\ UNCHANGED host /\ out' = Append(out, Msg("layout", ps))
  <2>1. host.layout
    BY <1>3 DEF CanShow
  <2>2. Msg("layout", ps) \in Message \ Unsafe(host.layout)
    BY <1>1, <2>1, QueueSafe DEF HostRecord
  <2> QED
    BY <1>1, <1>3, <2>2, Enqueued
<1>4. CASE Fail(out)
  <2>1. out' = Append(out, Fin) /\ host' = [host EXCEPT !.failed = TRUE]
    BY <1>4 DEF Fail
  <2>2. Fin \in Message \ Unsafe(host.layout)
    BY <1>1, QueueSafe DEF HostRecord
  <2>3. out' \in Seq(Message) /\ Gained(out, out', Unsafe(host.layout))
    BY <1>1, <2>1, <2>2, Enqueued
  <2>4. host'.layout = host.layout /\ host'.snapshot = host.snapshot /\ host'.failed
    BY <1>1, <2>1 DEF HostRecord
  <2> QED
    BY <2>3, <2>4
<1> QED
  BY <1>2, <1>3, <1>4, Zenon DEF SyncLayout

LEMMA FewPanes ==
  ASSUME NEW ps \in SUBSET Panes, NEW p \in ps
  PROVE  PanesOf(Session[p], ps) # {} /\ PanesOf(Session[p], ps) \in SUBSET Panes
  BY DEF PanesOf

LEMMA ServerLoopArrival == ASSUME IInv, ArrivalInv, ServerLoop PROVE ArrivalInv'
<1>1. open \in SUBSET Panes /\ open # {}
  BY DEF IInv, TypeOK, HostTypes, ArrivalInv, OrderInv
<1>2. Shared \in SUBSET Panes /\ Shared # {}
  BY <1>1, SharedNotEmpty, PanesTypes DEF Shared
<1>3. SyncLayout(Shared) /\ UNCHANGED <<reconnected, linkVars, in, daemonVars, saved, open>>
  BY DEF ServerLoop, paneVars
<1> QED
  BY <1>1, <1>2, <1>3, SyncQueues, ArrivalHostAlone

LEMMA SelectWindowArrival ==
  ASSUME IInv, ArrivalInv, NEW p \in Panes, SelectWindow(p)
  PROVE  ArrivalInv'
<1>1. open \in SUBSET Panes /\ p \in open
  BY DEF IInv, TypeOK, HostTypes, SelectWindow
<1>2. SyncLayout(PanesOf(Session[p], open)) /\ UNCHANGED <<reconnected, linkVars, in, daemonVars, saved, open>>
  BY DEF SelectWindow, paneVars
<1>3. open' # {}
  BY <1>1, <1>2
<1> QED
  BY <1>1, <1>2, <1>3, FewPanes, SyncQueues, ArrivalHostAlone

LEMMA OpenPaneArrival ==
  ASSUME IInv, ArrivalInv, NEW p \in Panes, NEW w \in BOOLEAN, OpenPane(p, w)
  PROVE  ArrivalInv'
<1>1. open' \in SUBSET Panes /\ p \in open'
  BY DEF IInv, TypeOK, HostTypes, OpenPane
<1>2. /\ SyncLayout(PanesOf(Session[p], open')) \/ UNCHANGED <<host, sent, out>>
      /\ UNCHANGED <<reconnected, linkVars, in, daemonVars, saved>>
  BY DEF OpenPane
<1>3. CASE UNCHANGED <<host, sent, out>>
  <2>1. out' \in Seq(Message) /\ Gained(out, out', Unsafe(host.layout))
    BY <1>3, Same DEF IInv, TypeOK, QueueTypes
  <2> QED
    BY <1>1, <1>2, <1>3, <2>1, ArrivalHostAlone
<1>4. CASE SyncLayout(PanesOf(Session[p], open'))
  <2> DEFINE ps == PanesOf(Session[p], open')
  <2>1. ps \in SUBSET Panes /\ ps # {}
    BY <1>1, FewPanes
  <2>2. SyncLayout(ps)
    BY <1>4
  <2> HIDE DEF ps
  <2> QED
    BY <1>1, <1>2, <2>1, <2>2, SyncQueues, ArrivalHostAlone
<1> QED
  BY <1>2, <1>3, <1>4

LEMMA ClosePaneArrival ==
  ASSUME IInv, ArrivalInv, NEW p \in Panes, NEW w \in BOOLEAN, ClosePane(p, w)
  PROVE  ArrivalInv'
<1>1. open' \in SUBSET Panes /\ open' # {}
  BY DEF IInv, TypeOK, HostTypes, ClosePane
<1> DEFINE left == PanesOf(Session[p], open')
<1>2. /\ (SyncLayout(left) /\ left # {}) \/ UNCHANGED <<host, sent, out>>
      /\ UNCHANGED <<reconnected, linkVars, in, daemonVars, saved>>
  BY DEF ClosePane
<1>3. left \in SUBSET Panes
  BY <1>1, PanesTypes
<1> HIDE DEF left
<1>4. CASE UNCHANGED <<host, sent, out>>
  <2>1. out' \in Seq(Message) /\ Gained(out, out', Unsafe(host.layout))
    BY <1>4, Same DEF IInv, TypeOK, QueueTypes
  <2> QED
    BY <1>1, <1>2, <1>4, <2>1, ArrivalHostAlone
<1>5. CASE SyncLayout(left) /\ left # {}
  BY <1>1, <1>2, <1>3, <1>5, SyncQueues, ArrivalHostAlone
<1> QED
  BY <1>2, <1>4, <1>5

LEMMA ExecCmdArrival == ASSUME IInv, ArrivalInv, ExecCmd PROVE ArrivalInv'
<1>1. out \in Seq(Message) /\ host.layout \in BOOLEAN /\ "opt" \in CommandNames
  BY DEF IInv, TypeOK, HostTypes, QueueTypes, CommandNames
<1>2. out' = Append(out, Msg("cmd", "opt")) /\ Msg("cmd", "opt") \in Message \ Unsafe(host.layout)
  BY <1>1, QueueSafe DEF ExecCmd
<1>3. out' \in Seq(Message) /\ Gained(out, out', Unsafe(host.layout))
  BY <1>1, <1>2, Same, Enqueued
<1>4. /\ UNCHANGED <<reconnected, linkVars, in, daemonVars, host, open>>
      /\ \E c : saved' = Append(saved, c)
  BY DEF ExecCmd, paneVars
<1>5. open' # {}
  BY <1>4 DEF ArrivalInv, OrderInv
<1> QED
  BY <1>3, <1>4, <1>5, ArrivalHostAlone

LEMMA StatusQueues ==
  ASSUME IInv, NEW loud \in BOOLEAN, NEW q \in Seq(Message), NEW r \in Seq(Message),
         Gained(q, r, Unsafe(loud))
  PROVE  WithStatus(r) \in Seq(Message) /\ Gained(q, WithStatus(r), Unsafe(loud))
<1>1. status \in 0..MaxStatus
  BY DEF IInv, TypeOK, HostTypes
<1>2. Msg("status", status) \in Message \ Unsafe(loud)
  BY <1>1, QueueSafe
<1>3. Append(r, Msg("status", status)) \in Seq(Message) /\ Gained(q, Append(r, Msg("status", status)), Unsafe(loud))
  BY <1>2, Enqueued
<1> QED
  BY <1>3 DEF WithStatus

LEMMA StatusTimerArrival == ASSUME IInv, ArrivalInv, StatusTimer PROVE ArrivalInv'
<1>1. out \in Seq(Message) /\ host.layout \in BOOLEAN /\ Gained(out, out, Unsafe(host.layout))
  BY Same DEF IInv, TypeOK, HostTypes, QueueTypes
<1>2. out' = WithStatus(out)
  BY DEF StatusTimer
<1>3. out' \in Seq(Message) /\ Gained(out, out', Unsafe(host.layout))
  BY <1>1, <1>2, StatusQueues
<1>4. UNCHANGED <<reconnected, linkVars, in, daemonVars, host, open, saved>>
  BY DEF StatusTimer, paneVars
<1>5. open' # {}
  BY <1>4 DEF ArrivalInv, OrderInv
<1> QED
  BY <1>3, <1>4, <1>5, ArrivalHostAlone

LEMMA CapabilityTimeoutArrival == ASSUME IInv, ArrivalInv, CapabilityTimeout PROVE ArrivalInv'
<1>1. out \in Seq(Message) /\ host \in HostRecord /\ host.layout \in BOOLEAN
  BY DEF IInv, TypeOK, HostTypes, QueueTypes, HostRecord
<1>2. out' = Append(out, Fin) /\ host' = [host EXCEPT !.failed = TRUE]
  BY DEF CapabilityTimeout, Fail
<1>3. out' \in Seq(Message) /\ Gained(out, out', Unsafe(host.layout))
  BY <1>1, <1>2, QueueSafe, Same, Enqueued
<1>4. UNCHANGED <<reconnected, linkVars, in, daemonVars, open, saved>>
  BY DEF CapabilityTimeout, paneVars
<1>5. host'.layout = host.layout /\ host'.snapshot = host.snapshot /\ host'.failed
  BY <1>1, <1>2 DEF HostRecord
<1>6. open' # {}
  BY <1>4 DEF ArrivalInv, OrderInv
<1> QED
  BY <1>3, <1>4, <1>5, <1>6, ArrivalHostAlone

(* Steps that queue nothing.                                                 *)
LEMMA QuietArrival ==
  ASSUME IInv, ArrivalInv, UNCHANGED <<host, saved, reconnected, open, linkVars, out, in, daemonVars>>
  PROVE  ArrivalInv'
<1>1. out' \in Seq(Message) /\ Gained(out, out', Unsafe(host.layout))
  BY Same DEF IInv, TypeOK, QueueTypes
<1>2. open' # {}
  BY DEF ArrivalInv, OrderInv
<1> QED
  BY <1>1, <1>2, ArrivalHostAlone

LEMMA TornForm ==
  ASSUME NEW q \in Seq(Message), q # <<>>
  PROVE  /\ Torn(q) \in Seq(Message) /\ Len(Torn(q)) = Len(q) /\ Torn(q)[1] = Msg("torn", Head(q).type)
         /\ 1 \in DOMAIN q /\ DOMAIN Torn(q) = DOMAIN q /\ \A i \in DOMAIN q : i = 1 \/ Torn(q)[i] = q[i]
<1> DEFINE t == Msg("torn", Head(q).type)
<1>1. Head(q) \in Message /\ Tail(q) \in Seq(Message) /\ Len(q) \in Nat \ {0} /\ DOMAIN q = 1..Len(q)
  OBVIOUS
<1>2. t \in Message
  BY <1>1, Carried, MessageTypes
<1> HIDE DEF t
<1>3. /\ <<t>> \o Tail(q) \in Seq(Message) /\ Len(<<t>> \o Tail(q)) = Len(q)
      /\ (<<t>> \o Tail(q))[1] = t
      /\ \A i \in 2..Len(q) : (<<t>> \o Tail(q))[i] = q[i]
  BY <1>1, <1>2
<1>4. Torn(q) = <<t>> \o Tail(q)
  BY DEF Torn, t
<1>5. DOMAIN Torn(q) = DOMAIN q /\ 1 \in DOMAIN q
  BY <1>1, <1>3, <1>4
<1>6. \A i \in DOMAIN q : i = 1 \/ Torn(q)[i] = q[i]
  BY <1>1, <1>3, <1>4
<1> QED
  BY <1>3, <1>4, <1>5, <1>6 DEF t

LEMMA PaneOutputArrival == ASSUME IInv, ArrivalInv, NEW p \in Panes, PaneOutput(p) PROVE ArrivalInv'
<1>1. out \in Seq(Message) /\ written \in [Panes -> 0..MaxOutput] /\ MaxOutput \in Nat /\ host.layout \in BOOLEAN
  <2>1. MaxOutput \in Nat
    BY SharingAssumption
  <2> QED
    BY <2>1 DEF IInv, TypeOK, HostTypes, QueueTypes
<1> DEFINE chunk == Msg("pty", [pane |-> p, nth |-> written'[p]])
<1>2. /\ UNCHANGED <<host, saved, reconnected, open, linkVars, in, daemonVars>>
      /\ \/ UNCHANGED out
         \/ host.layout /\ out' = Append(out, chunk)
         \/ host.layout /\ out # <<>> /\ out' = Append(Torn(out), chunk)
  BY RoomWhenEmpty DEF PaneOutput, CanShow, hostVars
<1>3. host.layout => chunk \in Message \ Unsafe(host.layout)
  <2>1. written'[p] \in 1..MaxOutput
    BY <1>1 DEF PaneOutput
  <2> QED
    BY <1>1, <2>1, QueueSafe
<1> HIDE DEF chunk
<1>4. CASE UNCHANGED out
  BY <1>2, <1>4, QuietArrival
<1>5. open' # {}
  BY <1>2 DEF ArrivalInv, OrderInv
<1>6. CASE host.layout /\ out' = Append(out, chunk)
  <2>1. out' \in Seq(Message) /\ Gained(out, out', Unsafe(host.layout))
    BY <1>1, <1>3, <1>6, Same, Enqueued
  <2> QED
    BY <1>2, <1>5, <2>1, ArrivalHostAlone
<1>7. CASE host.layout /\ out # <<>> /\ out' = Append(Torn(out), chunk)
  <2> DEFINE r == Torn(out)
  <2>1. /\ r \in Seq(Message) /\ Len(r) = Len(out) /\ r[1].type = "torn" /\ 1 \in DOMAIN out
        /\ DOMAIN r = DOMAIN out /\ \A i \in DOMAIN out : i = 1 \/ r[i] = out[i]
    <3>1. Msg("torn", Head(out).type).type = "torn"
      BY DEF Msg
    <3> QED
      BY <1>1, <1>7, <3>1, TornForm, Zenon
  <2>2. out' = Append(r, chunk) /\ chunk \in Message
    BY <1>3, <1>7
  <2> HIDE DEF r
  <2>3. /\ out' \in Seq(Message) /\ DOMAIN r = 1..Len(r) /\ DOMAIN out' = 1..Len(r) + 1 /\ Len(r) \in Nat
        /\ \A i \in DOMAIN r : out'[i] = r[i]
        /\ out'[Len(r) + 1] = chunk /\ out' # <<>>
    BY <2>1, <2>2, Added
  <2>4. \A i \in DOMAIN out' : i = 1 \/ (i \in DOMAIN out /\ out'[i] = out[i]) \/ out'[i] = chunk
    BY <2>1, <2>3
  <2>5. out'[1].type = "torn" /\ Head(out') = out'[1]
    BY <2>1, <2>3
  <2>6. chunk.type = "pty"
    BY DEF chunk, Msg
  <2>7. StageInv'
    <3>1. \A i \in DOMAIN out' :
           \/ i \in DOMAIN out /\ out'[i] = out[i]
           \/ /\ out'[i].type # "header" /\ (out'[i].type = "torn" => i = 1)
              /\ out'[i].type \in Bulk \cup {"torn"} => host'.layout
      BY <1>2, <1>7, <2>4, <2>5, <2>6
    <3>2. StageInv /\ (host.layout => host.snapshot)
      BY StageParts DEF ArrivalInv
    <3> QED
      BY <1>2, <2>3, <3>1, <3>2, StageHost DEF linkVars, daemonVars
  <2>8. Tearing'
    BY <2>3, <2>5 DEF Tearing
  <2>9. SnapshotInv'
    BY <2>8, Zenon DEF SnapshotInv
  <2>10. OrderInv'
    <3>1. \A i \in DOMAIN out' :
           (i \in DOMAIN out /\ out'[i] = out[i]) \/ (out'[i].type = "layout" => out'[i].value # {})
      BY <2>4, <2>5, <2>6
    <3>2. OrderInv /\ UNCHANGED <<link, reconnected, gate, view, applied, host, saved>>
      BY <1>2 DEF ArrivalInv, linkVars, daemonVars
    <3> HIDE DEF OrderInv, Tearing
    <3> QED
      BY <1>5, <2>8, <3>1, <3>2, OrderHost
  <2> QED
    BY <2>7, <2>9, <2>10 DEF ArrivalInv
<1> QED
  BY <1>2, <1>4, <1>6, <1>7

LEMMA ConnectFailsArrival == ASSUME IInv, ArrivalInv, ConnectFails PROVE ArrivalInv'
<1>1. link = "down" /\ reconnected' = TRUE
      /\ UNCHANGED <<paneVars, status, host, saved, told, sent, statusSent, linkVars, out, in, daemonVars>>
  BY DEF ConnectFails
<1>2. UNCHANGED <<open, host, saved, link, out, in, gate, applied, view, pending>>
  BY <1>1 DEF paneVars, linkVars, daemonVars
<1>3. StageInv'
  <2>1. UNCHANGED <<host, out, in, gate, view, pending, link>> /\ StageInv
    BY <1>2, Zenon DEF ArrivalInv
  <2>2. \A i \in DOMAIN in : Preceded(i)' <=> Preceded(i)
    BY <2>1, Zenon DEF Preceded
  <2>3. /\ NoneOf(out', Bulk \cup {"torn"}) <=> NoneOf(out, Bulk \cup {"torn"})
        /\ Without(in', {Capability}) <=> Without(in, {Capability})
    BY <2>1, Zenon
  <2> QED
    BY <2>1, <2>2, <2>3, StageParts, StageNext
<1>4. SnapshotInv'
  BY <1>2, Zenon DEF ArrivalInv, SnapshotInv, Tearing, NothingKept
<1>5. OrderInv'
  <2>1. ~Current'
    BY <1>1, <1>2 DEF Current
  <2> QED
    BY <1>2, <2>1, Zenon DEF ArrivalInv, OrderInv, Has
<1> QED
  BY <1>3, <1>4, <1>5 DEF ArrivalInv

-----------------------------------------------------------------------------
(* What the host makes of the answers                                        *)

LEMMA ArrivalHostReads ==
  ASSUME IInv, ArrivalInv, NEW m, HostGets(m),
         m # Offer, out' \in Seq(Message), Gained(out, out', Unsafe(host.layout)),
         UNCHANGED <<reconnected, linkVars, saved, open, daemonVars>>,
         host'.layout = host.layout, host'.snapshot = host.snapshot, host.failed => host'.failed
  PROVE  ArrivalInv'
<1>1. in # <<>> /\ in' = Tail(in) /\ Head(in) # Offer
  BY DEF HostGets
<1>2. host'.layout => host'.snapshot
  BY StageParts DEF ArrivalInv
<1>3. UNCHANGED <<link, reconnected, gate, view, pending, applied>> /\ open' # {}
  BY DEF linkVars, daemonVars, ArrivalInv, OrderInv
<1>4. \A i \in DOMAIN saved : i \in DOMAIN saved' /\ saved'[i] = saved[i]
  OBVIOUS
<1> QED
  BY <1>1, <1>2, <1>3, <1>4, ArrivalHost

LEMMA HostReconnectCapabilityArrival == ASSUME IInv, ArrivalInv, HostReconnectCapability PROVE ArrivalInv'
<1>1. out \in Seq(Message) /\ host.layout \in BOOLEAN
  BY DEF IInv, TypeOK, HostTypes, QueueTypes
<1>2. out' = Append(out, Msg("identity", 0))
      /\ UNCHANGED <<reconnected, linkVars, saved, open, daemonVars, host>>
  BY DEF HostReconnectCapability, paneVars, hostVars
<1>3. out' \in Seq(Message) /\ Gained(out, out', Unsafe(host.layout))
  BY <1>1, <1>2, QueueSafe, Same, Enqueued
<1>4. \E m : HostGets(m) /\ m # Offer
  <2>1. HostGets("reconnect capability")
    BY Zenon DEF HostReconnectCapability
  <2>2. "reconnect capability" # Offer
    BY DEF Offer
  <2> QED
    BY <2>1, <2>2, Zenon
<1> QED
  BY <1>2, <1>3, <1>4, ArrivalHostReads

LEMMA HostSessionNameArrival == ASSUME IInv, ArrivalInv, HostSessionName PROVE ArrivalInv'
<1>1. out' = out /\ UNCHANGED <<reconnected, linkVars, saved, open, daemonVars, host>>
  BY DEF HostSessionName, paneVars
<1>2. out' \in Seq(Message) /\ Gained(out, out', Unsafe(host.layout))
  BY <1>1, Same DEF IInv, TypeOK, QueueTypes
<1>3. \E m : HostGets(m) /\ m # Offer
  <2>1. PICK n \in Names : HostGets(n)
    BY DEF HostSessionName
  <2>2. n # Offer
    BY SharingAssumption, Zenon DEF Offer
  <2> QED
    BY <2>1, <2>2
<1> QED
  BY <1>1, <1>2, <1>3, ArrivalHostReads

LEMMA HostUpdateRequiredArrival == ASSUME IInv, ArrivalInv, HostUpdateRequired PROVE ArrivalInv'
<1>1. out \in Seq(Message) /\ host \in HostRecord /\ host.layout \in BOOLEAN /\ Gained(out, out, Unsafe(host.layout))
  BY Same DEF IInv, TypeOK, HostTypes, QueueTypes, HostRecord
<1>2. /\ UNCHANGED <<host, out>> \/ (out' = Append(out, Fin) /\ host' = [host EXCEPT !.failed = TRUE])
      /\ UNCHANGED <<reconnected, linkVars, saved, open, daemonVars>>
  BY DEF HostUpdateRequired, paneVars, Fail
<1>3. out' \in Seq(Message) /\ Gained(out, out', Unsafe(host.layout))
  <2>1. Fin \in Message \ Unsafe(host.layout)
    BY <1>1, QueueSafe
  <2>2. Append(out, Fin) \in Seq(Message) /\ Gained(out, Append(out, Fin), Unsafe(host.layout))
    BY <1>1, <2>1, Enqueued, Zenon
  <2> QED
    BY <1>1, <1>2, <2>2
<1>4. host'.layout = host.layout /\ host'.snapshot = host.snapshot /\ (host.failed => host'.failed)
  BY <1>1, <1>2 DEF HostRecord
<1>5. \E m : HostGets(m) /\ m # Offer
  <2>1. HostGets("update required")
    BY Zenon DEF HostUpdateRequired
  <2>2. "update required" # Offer
    BY DEF Offer
  <2> QED
    BY <2>1, <2>2, Zenon
<1> QED
  BY <1>2, <1>3, <1>4, <1>5, ArrivalHostReads

LEMMA RoomAtStart ==
  ASSUME NEW q, NoneOf(q, Bulk)
  PROVE  Room(q)
<1>1. {i \in DOMAIN q : q[i].type \in Bulk} = {}
  BY DEF NoneOf
<1>2. Cardinality({}) = 0
  BY FS_EmptySet
<1>3. BufMax > 0
  BY SharingAssumption
<1> QED
  BY <1>1, <1>2, <1>3 DEF Room

(* The layout and the snapshot that start sharing.                           *)
LEMMA FirstPicture ==
  ASSUME IInv, ArrivalInv, ~host.layout, host'.layout, host'.snapshot, host.failed => host'.failed,
         NEW q, q = Append(Append(out, Msg("layout", Shared)), Msg("snapshot", Snapshot)),
         out' \in Seq(Message), Gained(q, out', Unsafe(FALSE)),
         HostGets(Capability), UNCHANGED <<reconnected, linkVars, saved, open, daemonVars>>
  PROVE  ArrivalInv'
<1> DEFINE L == Msg("layout", Shared)
           S == Msg("snapshot", Snapshot)
           n == Len(out)
<1>1. /\ out \in Seq(Message) /\ Shared # {} /\ Shared \in SUBSET Panes
      /\ L \in Message /\ S \in Message
  <2>1. out \in Seq(Message) /\ open \in SUBSET Panes /\ open # {} /\ written \in [Panes -> 0..MaxOutput]
    BY DEF IInv, TypeOK, HostTypes, QueueTypes, ArrivalInv, OrderInv
  <2>2. Shared \in SUBSET Panes /\ Shared # {}
    BY <2>1, SharedNotEmpty, PanesTypes DEF Shared
  <2>3. Snapshot \in [Shared -> 0..MaxOutput]
    BY <2>1, <2>2 DEF Snapshot
  <2> QED
    BY <2>1, <2>2, <2>3, MessageTypes
<1>2. /\ L.type = "layout" /\ L.value = Shared /\ S.type = "snapshot" /\ S.value = Snapshot
      /\ DOMAIN Snapshot = Shared
  BY DEF Msg, Snapshot
<1>3. L = Msg("layout", DOMAIN S.value)
  BY <1>2
<1> HIDE DEF L, S
<1>4. q = Append(Append(out, L), S)
  BY DEF L, S
<1>5. /\ q \in Seq(Message) /\ n \in Nat /\ DOMAIN out = 1..n /\ Len(q) = n + 2
      /\ \A i \in 1..n : q[i] = out[i]
      /\ q[n + 1] = L /\ q[n + 2] = S
  BY <1>1, <1>4
<1>6. \A m \in Message \ Unsafe(FALSE) : m.type \notin {"header", "torn"} \cup Bulk
  BY DEF Unsafe
<1>7. /\ DOMAIN out' = 1..Len(out') /\ Len(out') \in Nat /\ n + 2 <= Len(out')
      /\ \A i \in 1..n : out'[i] = out[i]
      /\ out'[n + 1] = L /\ out'[n + 2] = S
      /\ \A i \in n + 3..Len(out') : out'[i].type \notin {"header", "torn"} \cup Bulk
  <2>1. DOMAIN out' = 1..Len(out') /\ Len(out') \in Nat /\ n + 2 <= Len(out')
    BY <1>5 DEF Gained
  <2>2. \A i \in 1..n + 2 : out'[i] = q[i]
    BY <1>5 DEF Gained
  <2>3. \A i \in n + 3..Len(out') : out'[i] \in Message \ Unsafe(FALSE)
    <3> SUFFICES ASSUME NEW i \in n + 3..Len(out') PROVE out'[i] \in Message \ Unsafe(FALSE)
      OBVIOUS
    <3>1. i \in Len(q) + 1..Len(out')
      BY <1>5
    <3>2. out'[i] \notin Unsafe(FALSE)
      BY <3>1 DEF Gained
    <3>3. i \in 1..Len(out')
      BY <1>5, <2>1
    <3> QED
      BY <3>2, <3>3, Elements
  <2>4. \A i \in n + 3..Len(out') : out'[i].type \notin {"header", "torn"} \cup Bulk
    BY <1>6, <2>3, Zenon
  <2>5. \A i \in 1..n : i \in 1..n + 2
    BY <1>5
  <2>6. \A i \in 1..n : out'[i] = out[i]
    BY <1>5, <2>2, <2>5, Zenon
  <2>7. n + 1 \in 1..n + 2 /\ n + 2 \in 1..n + 2
    BY <1>5
  <2>8. out'[n + 1] = L /\ out'[n + 2] = S
    BY <1>5, <2>2, <2>7, Zenon
  <2> QED
    BY <2>1, <2>4, <2>6, <2>8
<1>8. /\ ~gate.snapshot /\ pending = NothingKept
      /\ NoneOf(out, Bulk \cup {"torn"})
      /\ UNCHANGED <<link, gate, view, pending, applied>>
  BY StageParts DEF ArrivalInv, linkVars, daemonVars
<1>9. \A i \in DOMAIN out' : \/ i \in 1..n /\ out'[i] = out[i] /\ i # n + 1 /\ i # n + 2 /\ i + 1 # n + 2 /\ out'[i].type \notin Bulk
                             \/ i = n + 1 /\ out'[i] = L
                             \/ i = n + 2 /\ out'[i] = S
                             \/ i + 1 # n + 2 /\ out'[i].type \notin {"header", "torn"} \cup Bulk
  BY <1>5, <1>7, <1>8 DEF NoneOf
<1>10. StageInv'
  <2>1. \A i \in DOMAIN out' :
           \/ i \in DOMAIN out /\ out'[i] = out[i]
           \/ /\ out'[i].type # "header" /\ (out'[i].type = "torn" => i = 1)
              /\ out'[i].type \in Bulk \cup {"torn"} => host'.layout
    BY <1>2, <1>5, <1>9
  <2>2. in # <<>> /\ in' = Tail(in) /\ Head(in) = Capability
    BY DEF HostGets
  <2>3. ~Without(in, {Capability})
    <3>1. in \in Seq(Answers)
      BY DEF IInv, TypeOK, QueueTypes
    <3>2. Capability \in {Capability}
      OBVIOUS
    <3> HIDE DEF Capability
    <3> QED
      BY <2>2, <3>1, <3>2, TailKeeps
  <2>4. UNCHANGED <<link, gate, view, pending>> /\ StageInv
    BY <1>8 DEF ArrivalInv
  <2> QED
    BY <2>1, <2>2, <2>3, <2>4, StageHost
<1>11. SnapshotInv'
  <2> SUFFICES ASSUME NEW k \in DOMAIN out', out'[k].type = "snapshot"
               PROVE  /\ ~gate.snapshot /\ pending = NothingKept
                      /\ k = 1 => gate.layout /\ DOMAIN view = DOMAIN out'[k].value
                      /\ \A j \in DOMAIN out' : j + 1 = k => out'[j] = Msg("layout", DOMAIN out'[k].value)
                      /\ \A j \in DOMAIN out' : out'[j].type \in Bulk =>
                           j + 1 >= k /\ (out'[j].type = "snapshot" => j = k)
    BY <1>8, Zenon DEF SnapshotInv, NothingKept
  <2>1. "snapshot" \in Bulk
    BY DEF Bulk
  <2>2. k = n + 2 /\ out'[k] = S
    BY <1>2, <1>9, <2>1
  <2>3. k # 1
    BY <1>5, <2>2
  <2>4. \A j \in DOMAIN out' : j + 1 = k => out'[j] = Msg("layout", DOMAIN out'[k].value)
    BY <1>3, <1>5, <1>9, <2>2
  <2>5. \A j \in DOMAIN out' : out'[j].type \in Bulk => j = n + 1 \/ j = n + 2
    BY <1>9
  <2>6. n + 1 + 1 >= n + 2 /\ n + 2 + 1 >= n + 2
    BY <1>5
  <2>7. \A j \in DOMAIN out' : out'[j].type \in Bulk => j + 1 >= k /\ (out'[j].type = "snapshot" => j = k)
    BY <1>2, <1>5, <1>7, <2>2, <2>5
  <2> QED
    BY <1>8, <2>3, <2>4, <2>7
<1>12. OrderInv'
  <2>1. \A i \in DOMAIN out' :
           (i \in DOMAIN out /\ out'[i] = out[i]) \/ (out'[i].type = "layout" => out'[i].value # {})
    <3>1. "layout" \in Bulk
      BY DEF Bulk
    <3> QED
      BY <1>1, <1>2, <1>5, <1>9, <3>1
  <2>2. MoreOf(out, out', {})
    <3>1. Gained(out, out', {})
      BY <1>5, <1>7 DEF Gained
    <3> QED
      BY <1>1, <3>1, Grown
  <2>3. OrderInv /\ UNCHANGED <<link, reconnected, gate, view, applied>> /\ open' # {}
        /\ \A i \in DOMAIN saved : i \in DOMAIN saved' /\ saved'[i] = saved[i]
    BY <1>8 DEF ArrivalInv, OrderInv
  <2> HIDE DEF OrderInv, MoreOf, Tearing
  <2> QED
    BY <2>1, <2>2, <2>3, OrderHost
<1> QED
  BY <1>10, <1>11, <1>12 DEF ArrivalInv

(* Sharing starts once both capabilities are there, or fails.                *)
LEMMA StartSharingArrival ==
  ASSUME IInv, ArrivalInv, ~host.layout, HostGets(Capability),
         NEW h \in HostRecord, h.layout, h.snapshot, h.failed = host.failed, StartSharing(h),
         UNCHANGED <<reconnected, linkVars, saved, open, daemonVars>>
  PROVE  ArrivalInv'
<1> DEFINE L == Msg("layout", Shared)
           withLayout == IF Room(out) THEN Append(out, L) ELSE out
           withSnapshot == Append(withLayout, Msg("snapshot", Snapshot))
<1>1. out \in Seq(Message) /\ open \in SUBSET Panes /\ open # {} /\ written \in [Panes -> 0..MaxOutput]
  BY DEF IInv, TypeOK, HostTypes, QueueTypes, ArrivalInv, OrderInv
<1>2. Shared \in SUBSET Panes /\ Shared # {}
  BY <1>1, SharedNotEmpty, PanesTypes DEF Shared
<1>3. Msg("snapshot", Snapshot) \in Message
  <2>1. Snapshot \in [Shared -> 0..MaxOutput]
    BY <1>1, <1>2 DEF Snapshot
  <2> QED
    BY <1>2, <2>1, MessageTypes
<1>4. Room(out)
  <2>1. NoneOf(out, Bulk \cup {"torn"})
    BY StageParts DEF ArrivalInv
  <2>2. NoneOf(out, Bulk)
    BY <2>1, Zenon DEF NoneOf
  <2> QED
    BY <2>2, RoomAtStart
<1>5. withLayout = Append(out, L)
  BY <1>4
<1>6. L \in Message \ Unsafe(TRUE) /\ Fin \in Message \ Unsafe(TRUE) /\ Msg("ready", 0) \in Message \ Unsafe(FALSE)
  BY <1>2, QueueSafe
<1>7. \/ out' = Append(out, Fin)
      \/ out' = WithStatus(withSnapshot) \o <<Msg("ready", 0)>>
      \/ out' = WithStatus(withSnapshot) \o <<>>
      \/ out' = WithStatus(Append(withLayout, Fin))
  BY DEF StartSharing
<1>8. host'.layout /\ host'.snapshot /\ (host.failed => host'.failed)
  <2>1. host' = [h EXCEPT !.failed = TRUE] \/ host' = [h EXCEPT !.readyPending = FALSE]
    BY Zenon DEF StartSharing
  <2> QED
    BY <2>1 DEF HostRecord
<1>9. Gained(out, out, Unsafe(TRUE))
  BY <1>1, Same
<1> HIDE DEF L, withLayout
<1>10. withLayout \in Seq(Message) /\ Gained(out, withLayout, Unsafe(TRUE))
  BY <1>1, <1>5, <1>6, <1>9, Enqueued
<1>11. CASE out' = WithStatus(withSnapshot) \o <<Msg("ready", 0)>> \/ out' = WithStatus(withSnapshot) \o <<>>
  <2>1. withSnapshot \in Seq(Message)
    BY <1>3, <1>10
  <2> HIDE DEF withSnapshot
  <2>2. Gained(withSnapshot, withSnapshot, Unsafe(FALSE))
    BY <2>1, Same
  <2>3. WithStatus(withSnapshot) \in Seq(Message) /\ Gained(withSnapshot, WithStatus(withSnapshot), Unsafe(FALSE))
    BY <2>1, <2>2, StatusQueues
  <2> DEFINE r == WithStatus(withSnapshot)
  <2> HIDE DEF r
  <2>4. r \in Seq(Message) /\ Gained(withSnapshot, r, Unsafe(FALSE))
    BY <2>3 DEF r
  <2>5. out' = r \o <<Msg("ready", 0)>> \/ out' = r \o <<>>
    BY <1>11 DEF r
  <2>6. out' = Append(r, Msg("ready", 0)) \/ out' = r
    <3>1. r \o <<Msg("ready", 0)>> = Append(r, Msg("ready", 0)) /\ r \o <<>> = r
      BY <1>6, <2>4
    <3> QED
      BY <2>5, <3>1
  <2>7. Append(r, Msg("ready", 0)) \in Seq(Message) /\ Gained(withSnapshot, Append(r, Msg("ready", 0)), Unsafe(FALSE))
    BY <1>6, <2>1, <2>4, Enqueued
  <2>8. out' \in Seq(Message) /\ Gained(withSnapshot, out', Unsafe(FALSE))
    BY <2>4, <2>6, <2>7
  <2>9. withSnapshot = Append(Append(out, Msg("layout", Shared)), Msg("snapshot", Snapshot))
    BY <1>5 DEF withSnapshot, L
  <2> QED
    BY <1>8, <2>8, <2>9, FirstPicture
<1>12. CASE out' = Append(out, Fin) \/ out' = WithStatus(Append(withLayout, Fin))
  <2>1. Append(out, Fin) \in Seq(Message) /\ Gained(out, Append(out, Fin), Unsafe(TRUE))
    BY <1>1, <1>6, <1>9, Enqueued
  <2>2. Append(withLayout, Fin) \in Seq(Message) /\ Gained(out, Append(withLayout, Fin), Unsafe(TRUE))
    BY <1>1, <1>6, <1>10, Enqueued
  <2> DEFINE r == Append(withLayout, Fin)
  <2>3. r \in Seq(Message) /\ Gained(out, r, Unsafe(TRUE))
    BY <2>2
  <2> HIDE DEF r
  <2>4. WithStatus(r) \in Seq(Message) /\ Gained(out, WithStatus(r), Unsafe(TRUE))
    BY <1>1, <2>3, StatusQueues
  <2>5. out' \in Seq(Message) /\ Gained(out, out', Unsafe(TRUE))
    BY <1>12, <2>1, <2>4 DEF r
  <2>6. in # <<>> /\ in' = Tail(in) /\ Head(in) = Capability
    BY DEF HostGets
  <2>7. ~Without(in, {Capability})
    <3>1. in \in Seq(Answers)
      BY DEF IInv, TypeOK, QueueTypes
    <3>2. Capability \in {Capability}
      OBVIOUS
    <3> HIDE DEF Capability
    <3> QED
      BY <2>6, <3>1, <3>2, TailKeeps
  <2>8. UNCHANGED <<link, reconnected, gate, view, pending, applied>> /\ open' # {}
        /\ \A i \in DOMAIN saved : i \in DOMAIN saved' /\ saved'[i] = saved[i]
    BY <1>1 DEF linkVars, daemonVars
  <2> QED
    BY <1>8, <2>5, <2>6, <2>7, <2>8, ArrivalHost
<1> QED
  BY <1>7, <1>11, <1>12

LEMMA HostLayoutCapabilityArrival == ASSUME IInv, ArrivalInv, HostLayoutCapability PROVE ArrivalInv'
<1>1. /\ HostGets(Capability) /\ Negotiated("layout")
      /\ UNCHANGED <<reconnected, linkVars, saved, open, daemonVars>>
  BY Zenon DEF HostLayoutCapability, paneVars, Capability
<1>2. host \in HostRecord /\ out \in Seq(Message) /\ in \in Seq(Answers)
  BY DEF IInv, TypeOK, HostTypes, QueueTypes, HostRecord
<1>3. in # <<>> /\ Head(in) = Capability
  BY <1>1, Zenon DEF HostGets
<1>4. host.snapshot \/ host.failed
  <2>1. Head(in) = in[1] /\ 1 \in DOMAIN in /\ \A j \in DOMAIN in : ~(j < 1)
    BY <1>2, <1>3
  <2>2. \A i \in DOMAIN in : in[i] = Capability => host.snapshot \/ host.failed \/ Preceded(i)
    BY StageParts DEF ArrivalInv
  <2> QED
    BY <1>3, <2>1, <2>2, Zenon DEF Preceded
<1>5. CASE UNCHANGED <<host, out>>
  <2>1. out' \in Seq(Message) /\ Gained(out, out', Unsafe(host.layout))
    BY <1>2, <1>5, Same
  <2>2. Capability # Offer
    BY DEF Capability, Offer
  <2> HIDE DEF Capability
  <2> QED
    BY <1>1, <1>5, <2>1, <2>2, ArrivalHostReads
<1>6. CASE ~host.failed /\ ~host.layout
  <2> DEFINE h == [host EXCEPT !.layout = TRUE]
  <2>1. h \in HostRecord /\ h.layout /\ h.snapshot /\ h.failed = host.failed
    BY <1>2, <1>4, <1>6 DEF HostRecord
  <2>2. StartSharing(h)
    BY <1>1, <1>6, <2>1 DEF Negotiated
  <2> HIDE DEF h
  <2> QED
    BY <1>1, <1>6, <2>1, <2>2, StartSharingArrival
<1> QED
  BY <1>1, <1>5, <1>6 DEF Negotiated

LEMMA HostSnapshotCapabilityArrival == ASSUME IInv, ArrivalInv, HostSnapshotCapability PROVE ArrivalInv'
<1>1. /\ HostGets(Offer) /\ Negotiated("snapshot")
      /\ UNCHANGED <<reconnected, linkVars, saved, open, daemonVars>>
  BY Zenon DEF HostSnapshotCapability, paneVars, Offer
<1>2. host \in HostRecord /\ out \in Seq(Message) /\ (host.layout => host.snapshot)
  BY StageParts DEF IInv, TypeOK, HostTypes, QueueTypes, HostRecord, ArrivalInv
<1>3. /\ UNCHANGED out
      /\ host' = host \/ host' = [host EXCEPT !.snapshot = TRUE]
      /\ host'.snapshot \/ host'.failed
  <2>1. CASE host.failed \/ host.snapshot
    BY <1>1, <2>1 DEF Negotiated
  <2>2. CASE ~host.failed /\ ~host.snapshot
    <3> DEFINE h == [host EXCEPT !.snapshot = TRUE]
    <3>1. ~h.layout /\ h.snapshot
      BY <1>2, <2>2 DEF HostRecord
    <3>2. host' = h /\ UNCHANGED out
      BY <1>1, <2>2, <3>1 DEF Negotiated
    <3> QED
      BY <3>1, <3>2
  <2> QED
    BY <2>1, <2>2
<1>4. host'.layout = host.layout /\ (host.snapshot => host'.snapshot) /\ host'.failed = host.failed
  BY <1>2, <1>3 DEF HostRecord
<1>5. out' \in Seq(Message) /\ Gained(out, out', Unsafe(host.layout))
  BY <1>2, <1>3, Same
<1>6. in # <<>> /\ in' = Tail(in)
  BY <1>1 DEF HostGets
<1>7. UNCHANGED <<link, reconnected, gate, view, pending, applied>> /\ open' # {}
      /\ \A i \in DOMAIN saved : i \in DOMAIN saved' /\ saved'[i] = saved[i]
  BY <1>1 DEF linkVars, daemonVars, ArrivalInv, OrderInv
<1>8. host.layout => host'.layout
  BY <1>4
<1> QED
  BY <1>2, <1>3, <1>4, <1>5, <1>6, <1>7, <1>8, ArrivalHost

-----------------------------------------------------------------------------
(* A connection begins and ends                                              *)

(* What is sent first: the header, then commands.                            *)
Beginning(cmds) == <<Msg("header", 0)>> \o Commands(cmds)

Starts(q, n, cmds) ==
  /\ q \in Seq(Message) /\ Len(q) = n + 1 /\ q[1].type = "header"
  /\ \A i \in DOMAIN q : i = 1 \/ (q[i].type = "cmd" /\ i - 1 \in 1..n /\ q[i] = Msg("cmd", cmds[i - 1]))
  /\ \A i \in 1..n : i + 1 \in DOMAIN q /\ q[i + 1] = Msg("cmd", cmds[i])

LEMMA HeaderAndCommands ==
  ASSUME NEW n \in Nat, NEW cmds, DOMAIN cmds = 1..n, \A i \in 1..n : cmds[i] \in CommandNames
  PROVE  Starts(Beginning(cmds), n, cmds)
<1> DEFINE q == Beginning(cmds)
           m == Msg("header", 0)
           c == Commands(cmds)
<1>1. m \in Message /\ m.type = "header"
  BY MessageTypes DEF Signals, Msg
<1>2. \A i \in 1..n : Msg("cmd", cmds[i]) \in Message
  BY MessageTypes
<1>3. c = [i \in 1..n |-> Msg("cmd", cmds[i])]
  BY DEF Commands
<1> HIDE DEF m, c
<1>4. c \in [1..n -> Message]
  BY <1>2, <1>3
<1>5. c \in Seq(Message) /\ Len(c) = n /\ \A i \in 1..n : c[i] = Msg("cmd", cmds[i])
  BY <1>3, <1>4
<1>6. q = <<m>> \o c
  BY DEF m, c, Beginning
<1>7. /\ q \in Seq(Message) /\ Len(q) = n + 1 /\ q[1] = m
      /\ \A i \in 1..n : i + 1 \in DOMAIN q /\ q[i + 1] = c[i]
      /\ \A i \in DOMAIN q : i = 1 \/ (i - 1 \in 1..n /\ q[i] = c[i - 1])
  BY <1>1, <1>5, <1>6
<1>8. \A v : Msg("cmd", v).type = "cmd"
  BY DEF Msg
<1> QED
  BY <1>1, <1>5, <1>7, <1>8 DEF Starts

LEMMA StartArrival ==
  ASSUME out' \in Seq(Message), NEW n \in Nat, NEW cmds, DOMAIN cmds = 1..n,
         \A i \in 1..n : cmds[i] \in CommandNames, out' = Beginning(cmds),
         \A c \in Setup : \E i \in 1..n : cmds[i] = c,
         \A c \in Setup : \E i \in DOMAIN saved' : saved'[i] = c,
         in' = <<>>, gate' = NoGate, applied' = <<>>, view' = <<>>, pending' = NothingKept,
         ~host'.layout, link' = "down" => ~host'.snapshot,
         open' # {}
  PROVE  ArrivalInv'
<1>1. /\ out' \in Seq(Message) /\ 1 \in DOMAIN out' /\ out'[1].type = "header"
      /\ \A i \in DOMAIN out' : i = 1 \/ out'[i].type = "cmd"
      /\ \A i \in 1..n : i + 1 \in DOMAIN out' /\ out'[i + 1] = Msg("cmd", cmds[i])
  <2> DEFINE q == Beginning(cmds)
  <2>1. Starts(q, n, cmds) /\ out' = q
    BY HeaderAndCommands, Zenon
  <2> HIDE DEF q
  <2>2. 1 \in DOMAIN q
    BY <2>1 DEF Starts
  <2> QED
    BY <2>1, <2>2, Zenon DEF Starts
<1>2. /\ ~NoGate.layout /\ ~NoGate.snapshot /\ ~NoGate.refused /\ ~NoGate.announced
      /\ \A S : Without(<<>>, S)
      /\ DOMAIN in' = {}
  BY DEF NoGate, Without
<1>3. \A i \in DOMAIN out' : out'[i].type \notin Bulk \cup {"torn"}
  BY <1>1 DEF Bulk
<1>4. StageInv'
  <2>1. NoneOf(out', Bulk \cup {"torn"})
    BY <1>3, Zenon DEF NoneOf
  <2>2. \A i \in DOMAIN out' :
           /\ out'[i].type = "torn" => i = 1
           /\ out'[i].type = "header" =>
                i = 1 /\ ~host'.layout /\ ~gate'.refused /\ Without(in', {Capability})
    BY <1>1, <1>2
  <2>3. \A i \in DOMAIN in' : in'[i] = Capability => host'.snapshot \/ host'.failed \/ Preceded(i)'
    BY <1>2
  <2> QED
    BY <1>2, <2>1, <2>2, <2>3, StageNext
<1>5. SnapshotInv'
  <2>1. \A i \in DOMAIN out' : out'[i].type # "snapshot"
    BY <1>1
  <2> QED
    BY <2>1, Zenon DEF SnapshotInv
<1>6. OrderInv'
  <2>1. \A c \in Setup : Comes(c)'
    <3> SUFFICES ASSUME NEW c \in Setup PROVE Comes(c)'
      BY Zenon
    <3>1. PICK i \in 1..n : cmds[i] = c
      OBVIOUS
    <3>2. i + 1 \in DOMAIN out' /\ out'[i + 1] = Msg("cmd", c)
      BY <1>1, <3>1
    <3>3. \A j \in DOMAIN out' : out'[j].type \notin Bulk
      BY <1>3
    <3> QED
      BY <3>2, <3>3, Zenon DEF Comes
  <2>2. ~Has("identity")'
    BY DEF Has
  <2>3. \A i \in DOMAIN out' : out'[i].type # "layout"
    BY <1>1
  <2> HIDE DEF Has, Comes, Current, Tearing, Setup
  <2>4. Setup' = Setup
    BY DEF Setup
  <2> QED
    BY <1>2, <2>1, <2>2, <2>3, <2>4, Zenon DEF OrderInv
<1> QED
  BY <1>4, <1>5, <1>6 DEF ArrivalInv

LEMMA InitArrival == Init => ArrivalInv
<1> SUFFICES ASSUME Init PROVE ArrivalInv
  OBVIOUS
<1>1. /\ out = Beginning(FirstCmds) /\ saved = FirstCmds
      /\ in = <<>> /\ gate = NoGate /\ applied = <<>> /\ view = <<>> /\ pending = NothingKept
      /\ ~host.layout /\ ~host.snapshot /\ open = {FirstPane}
  BY Zenon DEF Init, NothingKept, Beginning
<1>2. /\ DOMAIN FirstCmds = 1..3 /\ FirstCmds[1] = "identity" /\ FirstCmds[3] = "keys"
      /\ \A i \in 1..3 : FirstCmds[i] \in CommandNames
  BY FirstCmdsTypes DEF FirstCmds
<1>3. /\ out \in Seq(Message) /\ Len(out) = 4 /\ out[1].type = "header"
      /\ \A i \in DOMAIN out : i = 1 \/ out[i].type = "cmd"
      /\ \A i \in 1..3 : i + 1 \in DOMAIN out /\ out[i + 1] = Msg("cmd", FirstCmds[i])
  <2>1. 3 \in Nat /\ 3 + 1 = 4
    OBVIOUS
  <2> DEFINE q == Beginning(FirstCmds)
  <2>2. /\ q \in Seq(Message) /\ Len(q) = 3 + 1 /\ q[1].type = "header"
        /\ \A i \in DOMAIN q : i = 1 \/ (q[i].type = "cmd" /\ i - 1 \in 1..3 /\ q[i] = Msg("cmd", FirstCmds[i - 1]))
        /\ \A i \in 1..3 : i + 1 \in DOMAIN q /\ q[i + 1] = Msg("cmd", FirstCmds[i])
    BY <1>2, <2>1, HeaderAndCommands DEF Starts
  <2> HIDE DEF q
  <2>3. out = q
    BY <1>1 DEF q
  <2> QED
    BY <2>1, <2>2, <2>3
<1>4. \A i \in DOMAIN out : out[i].type \notin Bulk \cup {"torn"}
  BY <1>3 DEF Bulk
<1>5. /\ ~NoGate.layout /\ ~NoGate.snapshot /\ ~NoGate.refused /\ ~NoGate.announced
      /\ DOMAIN in = {} /\ DOMAIN applied = {}
  BY <1>1 DEF NoGate
<1>6. Without(in, {Capability})
  BY <1>5, Zenon DEF Without
<1>7. StageInv
  <2>1. NoneOf(out, Bulk \cup {"torn"})
    BY <1>4, Zenon DEF NoneOf
  <2>2. \A i \in DOMAIN out :
           /\ out[i].type = "torn" => i = 1
           /\ out[i].type = "header" =>
                i = 1 /\ ~host.layout /\ ~gate.refused /\ Without(in, {Capability})
    BY <1>1, <1>3, <1>5, <1>6
  <2> QED
    BY <1>1, <1>5, <2>1, <2>2, StageParts
<1>8. SnapshotInv
  <2>1. \A i \in DOMAIN out : out[i].type # "snapshot"
    BY <1>3
  <2> QED
    BY <2>1, Zenon DEF SnapshotInv
<1>9. OrderInv
  <2>1. \A c \in Setup : Comes(c)
    <3>1. \A i \in 1..3 : Comes(FirstCmds[i])
      BY <1>3, <1>4, Zenon DEF Comes
    <3>2. Comes("identity") /\ Comes("keys")
      BY <1>2, <3>1
    <3> QED
      BY <3>2, Zenon DEF Setup
  <2>2. \A c \in Setup : \E i \in DOMAIN saved : saved[i] = c
    BY <1>1, <1>2 DEF Setup
  <2>3. ~Has("identity")
    BY <1>5, Zenon DEF Has
  <2>4. \A i \in DOMAIN out : out[i].type # "layout"
    BY <1>3
  <2>5. open # {}
    BY <1>1
  <2> QED
    BY <1>1, <1>5, <2>1, <2>2, <2>3, <2>4, <2>5, Zenon DEF OrderInv
<1> QED
  BY <1>7, <1>8, <1>9 DEF ArrivalInv

LEMMA DisconnectedArrival == ASSUME IInv, ArrivalInv, Disconnected PROVE ArrivalInv'
<1>1. /\ link' = "down" /\ out' = <<>> /\ in' = <<>> /\ UNCHANGED <<open, saved>>
      /\ gate' = NoGate /\ applied' = <<>> /\ view' = <<>> /\ pending' = NothingKept
      /\ host' = [host EXCEPT !.layout = FALSE, !.snapshot = FALSE]
      /\ reconnected' = (reconnected \/ ~host.failed)
  BY Zenon DEF Disconnected, NoDaemon, paneVars, NothingKept
<1>2. /\ ~NoGate.layout /\ ~NoGate.snapshot /\ ~NoGate.refused /\ ~NoGate.announced
      /\ \A S : Without(<<>>, S)
      /\ DOMAIN in' = {} /\ DOMAIN out' = {} /\ DOMAIN applied' = {}
  BY <1>1 DEF NoGate, Without
<1>3. ~host'.layout /\ ~host'.snapshot /\ host'.failed = host.failed
  BY <1>1 DEF IInv, TypeOK, HostTypes
<1>4. StageInv'
  <2>1. NoneOf(out', Bulk \cup {"torn"})
    BY <1>2, Zenon DEF NoneOf
  <2> QED
    BY <1>1, <1>2, <1>3, <2>1, StageNext
<1>5. SnapshotInv'
  BY <1>2, Zenon DEF SnapshotInv
<1>6. OrderInv'
  <2>1. ~Current'
    BY <1>1, <1>3 DEF Current
  <2>2. \A c : ~Has(c)'
    BY <1>2, Zenon DEF Has
  <2>3. open' # {} /\ \A c \in Setup : \E i \in DOMAIN saved' : saved'[i] = c
    BY <1>1, Zenon DEF ArrivalInv, OrderInv
  <2>4. ~gate'.layout /\ ~gate'.announced /\ applied' = <<>>
    BY <1>1, <1>2
  <2> HIDE DEF Has, Comes, Current, Tearing
  <2> QED
    BY <1>2, <2>1, <2>2, <2>3, <2>4, Zenon DEF OrderInv, Setup
<1> QED
  BY <1>4, <1>5, <1>6 DEF ArrivalInv

LEMMA ConnectArrival == ASSUME IInv, ArrivalInv, Connect PROVE ArrivalInv'
<1>1. /\ link = "down" /\ ~host.failed /\ link' = "up"
      /\ UNCHANGED <<open, saved, reconnected, in, gate, applied, view, pending>>
      /\ in = <<>> /\ gate = NoGate
  BY DEF Connect, paneVars, daemonVars, IInv, HandshakeInv
<1>2. ~host.layout /\ ~host.snapshot /\ view = <<>> /\ pending = NothingKept
  BY <1>1, StageParts DEF ArrivalInv
<1>3. host'.layout = host.layout /\ host'.snapshot = host.snapshot /\ host'.failed = host.failed
  BY DEF Connect, IInv, TypeOK, HostTypes
<1>4. CASE ~reconnected
  <2>1. UNCHANGED <<host, out>>
    BY <1>4 DEF Connect
  <2>2. StageInv'
    <3>1. \A i \in DOMAIN in : Preceded(i)' <=> Preceded(i)
      BY <1>1, Zenon DEF Preceded
    <3>2. /\ NoneOf(out', Bulk \cup {"torn"}) <=> NoneOf(out, Bulk \cup {"torn"})
          /\ Without(in', {Capability}) <=> Without(in, {Capability})
      BY <1>1, <2>1, Zenon
    <3>3. StageInv
      BY DEF ArrivalInv
    <3> QED
      BY <1>1, <1>2, <2>1, <3>1, <3>2, <3>3, StageParts, StageNext
  <2>3. SnapshotInv'
    BY <1>1, <2>1, Zenon DEF ArrivalInv, SnapshotInv, Tearing, NothingKept
  <2>4. OrderInv'
    <3>1. Current
      BY <1>1, <1>4, StageParts DEF Current, NoGate
    <3>2. \A c : (Has(c)' <=> Has(c)) /\ (Comes(c)' <=> Comes(c))
      BY <1>1, <2>1, Zenon DEF Has, Comes
    <3>3. Tearing' <=> Tearing
      BY <2>1, Zenon DEF Tearing
    <3> HIDE DEF Has, Comes, Current, Tearing
    <3> QED
      BY <1>1, <2>1, <3>1, <3>2, <3>3, Zenon DEF ArrivalInv, OrderInv, Setup
  <2> QED
    BY <2>2, <2>3, <2>4 DEF ArrivalInv
<1>5. CASE reconnected
  <2>1. out' = Beginning(Replayed) /\ out' \in Seq(Message)
    BY <1>5, ReplayedTypes DEF Connect, Beginning
  <2>2. /\ saved \in Seq(CommandNames) /\ told \in Names \cup {NoName} /\ Len(saved) \in Nat
        /\ DOMAIN saved = 1..Len(saved)
    BY DEF IInv, TypeOK, HostTypes
  <2>3. \A i \in 1..Len(saved) : saved[i] \in CommandNames
    BY <2>2
  <2>4. DOMAIN Replayed = 1..Len(saved) /\ \A i \in 1..Len(saved) : Replayed[i] \in CommandNames
    BY <2>2, <2>3 DEF Replayed, CommandNames
  <2>5. \A c \in Setup : \E i \in 1..Len(saved) : Replayed[i] = c
    <3> SUFFICES ASSUME NEW c \in Setup PROVE \E i \in 1..Len(saved) : Replayed[i] = c
      OBVIOUS
    <3>1. PICK i \in 1..Len(saved) : saved[i] = c
      BY <2>2 DEF ArrivalInv, OrderInv
    <3>2. c \notin Names
      BY SharingAssumption, Zenon DEF Setup
    <3>3. Replayed[i] = c
      BY <2>2, <3>1, <3>2 DEF Replayed
    <3> QED
      BY <3>3
  <2>6. \A c \in Setup : \E i \in DOMAIN saved' : saved'[i] = c
    BY <1>1 DEF ArrivalInv, OrderInv
  <2>7. applied = <<>>
    BY <1>1 DEF ArrivalInv, OrderInv
  <2>8. open' # {}
    BY <1>1 DEF ArrivalInv, OrderInv
  <2> QED
    BY <1>1, <1>2, <1>3, <2>1, <2>2, <2>4, <2>5, <2>6, <2>7, <2>8, StartArrival
<1> QED
  BY <1>4, <1>5

-----------------------------------------------------------------------------
(* What the daemon reads                                                     *)

(* What letting viewers in leaves alone, and when it happens.                *)
Lets(g, h) ==
  /\ h.layout = g.layout /\ h.snapshot = g.snapshot /\ h.refused = g.refused
  /\ h.awaiting = g.awaiting /\ h.stable = g.stable
  /\ h.announced => g.announced \/ (g.layout /\ g.snapshot /\ ~g.awaiting)

LEMMA ReadyLets ==
  ASSUME NEW g \in Gates
  PROVE  Lets(g, Ready(g)) /\ Ready(g) \in Gates
<1>1. CASE ~g.layout \/ ~g.snapshot
  BY <1>1 DEF Ready, Gates, Lets
<1>2. CASE g.layout /\ g.snapshot /\ g.awaiting
  BY <1>2 DEF Ready, Gates, Lets
<1>3. CASE g.layout /\ g.snapshot /\ ~g.awaiting
  BY <1>3 DEF Ready, Gates, Lets
<1> QED
  BY <1>1, <1>2, <1>3 DEF Gates

LEMMA ResumeLets ==
  ASSUME NEW g \in Gates
  PROVE  Lets(g, Resume(g))
<1> DEFINE h == [g EXCEPT !.readyPending = FALSE]
<1>1. /\ h \in Gates /\ h.layout = g.layout /\ h.snapshot = g.snapshot /\ h.refused = g.refused
      /\ h.awaiting = g.awaiting /\ h.stable = g.stable /\ h.announced = g.announced
  BY DEF Gates
<1>2. Resume(g) = g \/ Resume(g) = Ready(h)
  BY DEF Resume
<1> HIDE DEF h
<1>3. Lets(h, Ready(h)) /\ Ready(h) \in Gates
  BY <1>1, ReadyLets
<1> QED
  BY <1>1, <1>2, <1>3 DEF Lets

LEMMA ArrivalDaemon ==
  ASSUME IInv, ArrivalInv, SnapshotsTaken, ~Tearing, link = "up", out # <<>>, out' = Tail(out),
         UNCHANGED daemonRest,
         in' = in \/ (\E a \in Answers \ {Capability} : in' = Append(in, a)),
         gate'.refused = gate.refused,
         applied' = IF Head(out).type = "cmd" THEN Append(applied, Head(out).value) ELSE applied,
         Head(out).type \notin Bulk =>
           UNCHANGED <<view, pending>> /\ gate'.layout = gate.layout /\ gate'.snapshot = gate.snapshot,
         Head(out).type = "layout" =>
           /\ ~gate.refused /\ gate'.layout /\ gate'.snapshot = gate.snapshot
           /\ DOMAIN view' = Head(out).value /\ pending' = NothingKept,
         Head(out).type = "snapshot" => gate'.layout /\ gate.layout /\ DOMAIN view' = DOMAIN view,
         Head(out).type = "pty" =>
           gate'.layout = gate.layout /\ gate'.snapshot = gate.snapshot /\ DOMAIN view' = DOMAIN view,
         gate.awaiting \/ gate.stable => gate'.awaiting \/ gate'.stable,
         Head(out) = Msg("cmd", "identity") => gate'.awaiting \/ gate'.stable,
         gate'.announced =>
           \/ gate.announced /\ gate'.stable = gate.stable /\ (gate.snapshot => gate'.snapshot)
           \/ gate'.layout /\ gate'.snapshot /\ ~gate'.awaiting
  PROVE  ArrivalInv' /\ SnapshotsTaken'
<1>1. UNCHANGED <<link, host, saved, reconnected, open>>
  BY DEF daemonRest, linkVars, hostVars, paneVars
<1>2. gate'.snapshot => gate'.layout
  BY StageParts DEF ArrivalInv, Bulk
<1>3. StageInv'
  BY <1>1, <1>2, StageDaemon DEF ArrivalInv
<1>4. SnapshotInv'
  <2>1. gate'.snapshot = gate.snapshot \/ Head(out).type = "snapshot"
    BY DEF Bulk
  <2> QED
    BY <2>1, SnapshotDaemon DEF ArrivalInv
<1>5. OrderInv'
  <2>1. gate'.layout =>
           \/ gate.layout /\ DOMAIN view' = DOMAIN view
           \/ ~gate.refused /\ Head(out).type = "layout" /\ DOMAIN view' = Head(out).value
    BY DEF Bulk
  <2>2. OrderInv
    BY DEF ArrivalInv
  <2> HIDE DEF OrderInv, Tearing
  <2> QED
    BY <1>1, <2>1, <2>2, OrderDaemon
<1> QED
  BY <1>3, <1>4, <1>5 DEF ArrivalInv, SnapshotsTaken

LEMMA HeadWhole ==
  ASSUME Head(out).type # "torn"
  PROVE  ~Tearing
  BY DEF Tearing

LEMMA DaemonIgnoresArrival ==
  ASSUME IInv, ArrivalInv, SnapshotsTaken, DaemonIgnores
  PROVE  ArrivalInv' /\ SnapshotsTaken'
<1>1. /\ link = "up" /\ gate.refused /\ out # <<>> /\ out' = Tail(out)
      /\ UNCHANGED <<daemonRest, in, gate, applied, view, pending>>
  BY DEF DaemonIgnores, daemonVars
<1>2. NoneOf(out, Bulk \cup {"torn"}) /\ ~gate.layout /\ ~gate.snapshot
  BY <1>1, StageParts DEF ArrivalInv
<1>3. out \in Seq(Message) /\ Head(out).type \notin Bulk \cup {"torn"}
  <2>1. out \in Seq(Message)
    BY DEF IInv, TypeOK, QueueTypes
  <2>2. 1 \in DOMAIN out /\ Head(out) = out[1]
    BY <1>1, <2>1
  <2> QED
    BY <1>2, <2>1, <2>2 DEF NoneOf
<1>4. StageInv' /\ SnapshotInv'
  BY <1>1, <1>3, StageDaemon, SnapshotDaemon, HeadWhole, StageParts DEF ArrivalInv, daemonRest, linkVars, hostVars, Bulk
<1>5. OrderInv'
  <2>1. \A c : Has(c)' <=> Has(c)
    BY <1>1, Zenon DEF Has
  <2>2. ~Current'
    BY <1>1 DEF Current
  <2>3. \A i \in DOMAIN out' : out'[i].type # "layout"
    <3>1. \A i \in DOMAIN out' : i + 1 \in DOMAIN out /\ out'[i] = out[i + 1]
      <4>1. RestOf(out, out')
        BY <1>1, <1>3, Shifted
      <4> QED
        BY <4>1, Zenon DEF RestOf
    <3>2. \A i \in DOMAIN out : out[i].type # "layout"
      BY <1>2 DEF NoneOf, Bulk
    <3> QED
      BY <3>1, <3>2
  <2>4. /\ ~gate'.layout /\ ~gate'.announced /\ link' # "down" /\ open' # {}
        /\ Has("identity") => gate'.awaiting \/ gate'.stable
        /\ \A c \in Setup : \E i \in DOMAIN saved' : saved'[i] = c
    BY <1>1, <1>2, Zenon DEF ArrivalInv, OrderInv, daemonRest, linkVars, hostVars, paneVars
  <2> HIDE DEF Has, Comes, Current, Tearing
  <2> QED
    BY <2>1, <2>2, <2>3, <2>4, Zenon DEF OrderInv, Setup
<1> QED
  BY <1>1, <1>4, <1>5 DEF ArrivalInv, SnapshotsTaken

LEMMA DaemonReadyArrival ==
  ASSUME IInv, ArrivalInv, SnapshotsTaken, DaemonReady
  PROVE  ArrivalInv' /\ SnapshotsTaken'
<1>1. /\ DaemonGets("ready") /\ gate' = Ready(gate)
      /\ UNCHANGED <<daemonRest, in, applied, view, pending>>
  BY DEF DaemonReady
<1>2. link = "up" /\ out # <<>> /\ out' = Tail(out) /\ Head(out).type = "ready"
  BY <1>1, Reading
<1>3. Lets(gate, gate')
  BY <1>1, ReadyLets DEF IInv, TypeOK, DaemonTypes
<1>4. Head(out) # Msg("cmd", "identity")
  BY <1>2 DEF Msg
<1>5. ~Tearing
  BY <1>2, HeadWhole
<1>6. Head(out).type \notin Bulk
  BY <1>2 DEF Bulk
<1> QED
  BY <1>1, <1>2, <1>3, <1>4, <1>5, <1>6, ArrivalDaemon DEF Lets

LEMMA DaemonStatusArrival ==
  ASSUME IInv, ArrivalInv, SnapshotsTaken, DaemonStatus
  PROVE  ArrivalInv' /\ SnapshotsTaken'
<1>1. /\ DaemonGets("status")
      /\ UNCHANGED <<daemonRest, in, gate, applied, view, pending>>
  BY DEF DaemonStatus
<1>2. link = "up" /\ out # <<>> /\ out' = Tail(out) /\ Head(out).type = "status"
  BY <1>1, Reading
<1>3. Head(out) # Msg("cmd", "identity")
  BY <1>2 DEF Msg
<1>4. ~Tearing
  BY <1>2, HeadWhole
<1>5. Head(out).type \notin Bulk
  BY <1>2 DEF Bulk
<1> QED
  BY <1>1, <1>2, <1>3, <1>4, <1>5, ArrivalDaemon

LEMMA DaemonFinArrival ==
  ASSUME IInv, ArrivalInv, SnapshotsTaken, DaemonFin
  PROVE  ArrivalInv' /\ SnapshotsTaken'
<1>1. /\ DaemonGets("fin") /\ gate' = [gate EXCEPT !.ending = TRUE]
      /\ UNCHANGED <<daemonRest, in, applied, view, pending>>
  BY DEF DaemonFin
<1>2. link = "up" /\ out # <<>> /\ out' = Tail(out) /\ Head(out).type = "fin"
  BY <1>1, Reading
<1>3. /\ gate'.layout = gate.layout /\ gate'.snapshot = gate.snapshot /\ gate'.refused = gate.refused
      /\ gate'.awaiting = gate.awaiting /\ gate'.stable = gate.stable /\ gate'.announced = gate.announced
  BY <1>1 DEF IInv, TypeOK, DaemonTypes, Gates
<1>4. Head(out) # Msg("cmd", "identity")
  BY <1>2 DEF Msg
<1>5. ~Tearing
  BY <1>2, HeadWhole
<1>6. Head(out).type \notin Bulk
  BY <1>2 DEF Bulk
<1> QED
  BY <1>1, <1>2, <1>3, <1>4, <1>5, <1>6, ArrivalDaemon

LEMMA DaemonOutputArrival ==
  ASSUME IInv, ArrivalInv, SnapshotsTaken, DaemonOutput
  PROVE  ArrivalInv' /\ SnapshotsTaken'
<1>1. /\ DaemonGets("pty")
      /\ UNCHANGED <<daemonRest, in, gate, applied>> /\ DOMAIN view' = DOMAIN view
  BY DEF DaemonOutput
<1>2. link = "up" /\ out # <<>> /\ out' = Tail(out) /\ Head(out).type = "pty"
  BY <1>1, Reading
<1>3. Head(out) # Msg("cmd", "identity")
  BY <1>2 DEF Msg
<1>4. ~Tearing
  BY <1>2, HeadWhole
<1>5. Head(out).type \in Bulk
  BY <1>2 DEF Bulk
<1> QED
  BY <1>1, <1>2, <1>3, <1>4, <1>5, ArrivalDaemon

LEMMA DaemonLayoutArrival ==
  ASSUME IInv, ArrivalInv, SnapshotsTaken, DaemonLayout
  PROVE  ArrivalInv' /\ SnapshotsTaken'
<1>1. /\ DaemonGets("layout") /\ DOMAIN view' = Head(out).value /\ pending' = NothingKept
      /\ gate' = Resume([gate EXCEPT !.layout = TRUE]) /\ ~gate.refused
      /\ UNCHANGED <<daemonRest, in, applied>>
  BY DEF DaemonLayout, NothingKept, Value, DaemonGets, Listening
<1>2. link = "up" /\ out # <<>> /\ out' = Tail(out) /\ Head(out).type = "layout"
  BY <1>1, Reading
<1> DEFINE g == [gate EXCEPT !.layout = TRUE]
<1>3. /\ g \in Gates /\ g.layout /\ g.snapshot = gate.snapshot /\ g.refused = gate.refused
      /\ g.awaiting = gate.awaiting /\ g.stable = gate.stable /\ g.announced = gate.announced
  BY DEF IInv, TypeOK, DaemonTypes, Gates
<1>4. gate' = Resume(g)
  BY <1>1
<1> HIDE DEF g
<1>5. Lets(g, gate')
  BY <1>3, <1>4, ResumeLets
<1>6. Head(out) # Msg("cmd", "identity")
  BY <1>2 DEF Msg
<1>7. ~Tearing
  BY <1>2, HeadWhole
<1>8. Head(out).type \in Bulk
  BY <1>2 DEF Bulk
<1> QED
  BY <1>1, <1>2, <1>3, <1>5, <1>6, <1>7, <1>8, ArrivalDaemon DEF Lets

(* The daemon has the panes of the snapshot: it got the layout just before.  *)
LEMMA DaemonSnapshotArrival ==
  ASSUME IInv, ArrivalInv, SnapshotsTaken, DaemonSnapshot
  PROVE  ArrivalInv' /\ SnapshotsTaken'
<1>1. /\ DaemonGets("snapshot") /\ UNCHANGED <<daemonRest, applied>>
  BY DEF DaemonSnapshot
<1>2. link = "up" /\ out # <<>> /\ out' = Tail(out) /\ Head(out).type = "snapshot"
  BY <1>1, Reading
<1>3. ~Tearing
  BY <1>2, HeadWhole
<1>4. gate.layout /\ DOMAIN view = DOMAIN Head(out).value
  <2>1. out \in Seq(Message)
    BY DEF IInv, TypeOK, QueueTypes
  <2>2. 1 \in DOMAIN out /\ Head(out) = out[1]
    BY <1>2, <2>1
  <2> QED
    BY <1>2, <1>3, <2>2, Zenon DEF ArrivalInv, SnapshotInv
<1> DEFINE g == [gate EXCEPT !.snapshot = TRUE]
<1>5. gate' = Resume(g) /\ view' = Head(out).value /\ UNCHANGED in
  BY <1>4 DEF DaemonSnapshot, Value
<1>6. /\ g \in Gates /\ g.layout = gate.layout /\ g.snapshot /\ g.refused = gate.refused
      /\ g.awaiting = gate.awaiting /\ g.stable = gate.stable /\ g.announced = gate.announced
  BY DEF IInv, TypeOK, DaemonTypes, Gates
<1> HIDE DEF g
<1>7. Lets(g, gate')
  BY <1>5, <1>6, ResumeLets
<1>8. Head(out) # Msg("cmd", "identity")
  BY <1>2 DEF Msg
<1>9. Head(out).type \in Bulk
  BY <1>2 DEF Bulk
<1> QED
  BY <1>1, <1>2, <1>3, <1>4, <1>5, <1>6, <1>7, <1>8, <1>9, ArrivalDaemon DEF Lets

LEMMA DaemonCommandArrival ==
  ASSUME IInv, ArrivalInv, SnapshotsTaken, DaemonCommand
  PROVE  ArrivalInv' /\ SnapshotsTaken'
<1>1. /\ DaemonGets("cmd") /\ applied' = Append(applied, Head(out).value)
      /\ UNCHANGED <<daemonRest, view, pending>>
  BY DEF DaemonCommand, Value
<1>2. link = "up" /\ out # <<>> /\ out' = Tail(out) /\ Head(out).type = "cmd"
  BY <1>1, Reading
<1>3. gate \in Gates
  BY DEF IInv, TypeOK, DaemonTypes
<1>4. /\ gate'.layout = gate.layout /\ gate'.snapshot = gate.snapshot /\ gate'.refused = gate.refused
      /\ gate'.stable = gate.stable /\ gate'.announced = gate.announced
      /\ gate.awaiting => gate'.awaiting
  <2>1. gate' = gate \/ gate' = [gate EXCEPT !.awaiting = TRUE]
    BY Zenon DEF DaemonCommand
  <2> QED
    BY <1>3, <2>1 DEF Gates
<1>5. in' = in \/ (\E a \in Answers \ {Capability} : in' = Append(in, a))
  <2>1. in' = in \/ in' = Append(in, "reconnect capability") \/ Registered
    BY Zenon DEF DaemonCommand
  <2>2. "reconnect capability" \in Answers \ {Capability} /\ \A n \in Names : n \in Answers \ {Capability}
    BY SharingAssumption, Zenon DEF Answers, Capability
  <2> QED
    BY <2>1, <2>2, Zenon DEF Registered
<1>6. Head(out) = Msg("cmd", "identity") => gate'.awaiting \/ gate'.stable
  <2> SUFFICES ASSUME Head(out) = Msg("cmd", "identity") PROVE gate'.awaiting \/ gate'.stable
    OBVIOUS
  <2>1. Value = "identity"
    BY DEF Value, Msg
  <2>2. "identity" \notin Names
    BY SharingAssumption, Zenon
  <2>3. \/ gate.announced \/ gate.stable \/ gate.awaiting
        \/ gate' = [gate EXCEPT !.awaiting = TRUE]
    BY <2>1, <2>2, Zenon DEF DaemonCommand
  <2>4. gate.announced => gate.stable
    BY DEF ArrivalInv, OrderInv
  <2> QED
    BY <1>3, <1>4, <2>3, <2>4 DEF Gates
<1>7. ~Tearing
  BY <1>2, HeadWhole
<1>8. Head(out).type \notin Bulk
  BY <1>2 DEF Bulk
<1> QED
  BY <1>1, <1>2, <1>4, <1>5, <1>6, <1>7, <1>8, ArrivalDaemon

LEMMA DaemonIdentityArrival ==
  ASSUME IInv, ArrivalInv, SnapshotsTaken, DaemonIdentity
  PROVE  ArrivalInv' /\ SnapshotsTaken'
<1>1. DaemonGets("identity") /\ UNCHANGED <<daemonRest, applied, view, pending>>
  BY DEF DaemonIdentity
<1>2. link = "up" /\ out # <<>> /\ out' = Tail(out) /\ Head(out).type = "identity" /\ Head(out) \in Message
  BY <1>1, Reading
<1>3. gate \in Gates /\ gate.awaiting /\ ~gate.stable /\ ~gate.announced
  <2>1. Head(out) \in Answer
    BY <1>2, Carried
  <2>2. ~Without(out, Answer)
    <3>1. out \in Seq(Message)
      BY DEF IInv, TypeOK, QueueTypes
    <3>2. 1 \in DOMAIN out /\ Head(out) = out[1]
      BY <1>2, <3>1
    <3> QED
      BY <2>1, <3>2 DEF Without
  <2> QED
    BY <2>2, Zenon DEF IInv, HandshakeInv, TypeOK, DaemonTypes
<1> DEFINE g == [gate EXCEPT !.awaiting = FALSE, !.stable = TRUE, !.identityPending = FALSE]
<1>4. /\ g \in Gates /\ g.layout = gate.layout /\ g.snapshot = gate.snapshot /\ g.refused = gate.refused
      /\ ~g.awaiting /\ g.stable /\ ~g.announced
  BY <1>3 DEF Gates
<1>5. gate' = g \/ gate' = Ready(g)
  BY <1>3 DEF DaemonIdentity
<1> HIDE DEF g
<1>6. Lets(g, gate')
  <2>1. Lets(g, g)
    BY DEF Lets
  <2> QED
    BY <1>4, <1>5, <2>1, ReadyLets
<1>7. in' = in \/ (\E a \in Answers \ {Capability} : in' = Append(in, a))
  <2>1. in' = in \/ Registered
    BY <1>3, Zenon DEF DaemonIdentity
  <2>2. \A n \in Names : n \in Answers \ {Capability}
    BY SharingAssumption, Zenon DEF Answers, Capability
  <2> QED
    BY <2>1, <2>2, Zenon DEF Registered
<1>8. Head(out) # Msg("cmd", "identity")
  BY <1>2 DEF Msg
<1>9. ~Tearing
  BY <1>2, HeadWhole
<1>10. Head(out).type \notin Bulk
  BY <1>2 DEF Bulk
<1> QED
  BY <1>1, <1>2, <1>3, <1>4, <1>6, <1>7, <1>8, <1>9, <1>10, ArrivalDaemon DEF Lets

(* The capabilities are offered, or the host is refused.                     *)
LEMMA DaemonHeaderArrival ==
  ASSUME IInv, ArrivalInv, SnapshotsTaken, DaemonHeader
  PROVE  ArrivalInv' /\ SnapshotsTaken'
<1>1. /\ DaemonGets("header") /\ UNCHANGED <<daemonRest, applied, view, pending>>
  BY DEF DaemonHeader
<1>2. link = "up" /\ out # <<>> /\ out' = Tail(out) /\ Head(out).type = "header" /\ Head(out) \in Message
  BY <1>1, Reading
<1>3. out \in Seq(Message) /\ in \in Seq(Answers) /\ gate \in Gates
  BY DEF IInv, TypeOK, QueueTypes, DaemonTypes
<1>4. RestOf(out, out')
  BY <1>2, <1>3, Shifted
<1>5. ~host.layout /\ ~gate.refused /\ Without(in, {Capability})
  <2>1. 1 \in DOMAIN out /\ Head(out) = out[1]
    BY <1>4, Zenon DEF RestOf
  <2> QED
    BY <1>2, <2>1, StageParts, Zenon DEF ArrivalInv
<1> DEFINE u == "update required"
<1>6. PICK match \in Matching :
        /\ gate' = [gate EXCEPT !.refused = ~match]
        /\ in' = in \o IF match THEN <<Offer, Capability>> ELSE <<u>>
  BY Zenon DEF DaemonHeader, Offer, Capability
<1>7. match \in BOOLEAN /\ u # Capability /\ Offer # Capability /\ {u, Offer, Capability} \subseteq Answers
  <2>1. match \in BOOLEAN
    BY SharingAssumption, Zenon
  <2>2. u # Capability /\ Offer # Capability
    BY Zenon DEF Offer, Capability
  <2>3. u \in Answers /\ Offer \in Answers /\ Capability \in Answers
    BY Zenon DEF Answers, Offer, Capability
  <2> QED
    BY <2>1, <2>2, <2>3
<1> HIDE DEF u
<1>8. /\ gate'.layout = gate.layout /\ gate'.snapshot = gate.snapshot /\ gate'.refused = ~match
      /\ gate'.awaiting = gate.awaiting /\ gate'.stable = gate.stable /\ gate'.announced = gate.announced
  BY <1>3, <1>6 DEF Gates
<1>9. UNCHANGED <<link, host, saved, reconnected, open>>
  BY <1>1 DEF daemonRest, linkVars, hostVars, paneVars
<1>10. /\ \A i \in DOMAIN in' : in'[i] = Capability =>
            match /\ \E j \in DOMAIN in' : j < i /\ in'[j] = Offer
  <2>1. Len(in) \in Nat /\ DOMAIN in = 1..Len(in) /\ \A i \in 1..Len(in) : in[i] # Capability
    BY <1>3, <1>5 DEF Without
  <2> HIDE DEF Capability, Offer
  <2>2. CASE match
    <3>1. in' = in \o <<Offer, Capability>>
      BY <1>6, <2>2
    <3>2. /\ DOMAIN in' = 1..Len(in) + 2 /\ \A i \in 1..Len(in) : in'[i] = in[i]
          /\ in'[Len(in) + 1] = Offer /\ in'[Len(in) + 2] = Capability
      BY <1>3, <1>7, <2>1, <3>1
    <3>3. \A i \in DOMAIN in' : in'[i] = Capability => i = Len(in) + 2
      BY <1>7, <2>1, <3>2
    <3>4. Len(in) + 1 \in DOMAIN in' /\ Len(in) + 1 < Len(in) + 2
      BY <2>1, <3>2
    <3> QED
      BY <2>2, <3>2, <3>3, <3>4, Zenon
  <2>3. CASE ~match
    <3>1. in' = in \o <<u>>
      BY <1>6, <2>3
    <3>2. /\ DOMAIN in' = 1..Len(in) + 1 /\ \A i \in 1..Len(in) : in'[i] = in[i]
          /\ in'[Len(in) + 1] = u
      BY <1>3, <1>7, <2>1, <3>1
    <3> QED
      BY <1>7, <2>1, <3>2
  <2> QED
    BY <2>2, <2>3
<1>11. \A i \in DOMAIN out' : i + 1 \in DOMAIN out /\ i + 1 # 1 /\ out'[i] = out[i + 1]
  BY <1>4, Zenon DEF RestOf
<1>12. StageInv'
  <2>1. ~host'.layout =>
         /\ NoneOf(out', Bulk \cup {"torn"})
         /\ view' = <<>> /\ pending' = NothingKept /\ ~gate'.layout /\ ~gate'.snapshot
    BY <1>1, <1>5, <1>8, <1>11, StageParts DEF ArrivalInv, NoneOf
  <2>2. gate'.refused => ~host'.layout /\ Without(in', {Capability})
    BY <1>5, <1>8, <1>9, <1>10 DEF Without
  <2>3. \A i \in DOMAIN out' : out'[i].type # "torn" /\ out'[i].type # "header"
    BY <1>11, StageParts DEF ArrivalInv
  <2>4. \A i \in DOMAIN in' : in'[i] = Capability => host'.snapshot \/ host'.failed \/ Preceded(i)'
    BY <1>10, Zenon DEF Preceded
  <2>5. link' # "down" /\ (host'.layout => host'.snapshot) /\ (gate'.snapshot => gate'.layout)
    BY <1>2, <1>5, <1>8, <1>9, StageParts DEF ArrivalInv
  <2> QED
    BY <2>1, <2>2, <2>3, <2>4, <2>5, StageNext
<1>13. ~Tearing
  BY <1>2, HeadWhole
<1>14. Head(out).type \notin Bulk /\ Head(out).type # "cmd" /\ Head(out).type # "layout" /\ Head(out).type # "snapshot"
       /\ Head(out) # Msg("cmd", "identity")
  BY <1>2 DEF Bulk, Msg
<1>15. SnapshotInv'
  BY <1>1, <1>2, <1>8, <1>13, <1>14, SnapshotDaemon DEF ArrivalInv
<1>16. OrderInv'
  <2>1. OrderInv /\ DOMAIN view' = DOMAIN view
    BY <1>1 DEF ArrivalInv
  <2> HIDE DEF OrderInv, Tearing
  <2> QED
    BY <1>1, <1>2, <1>5, <1>8, <1>9, <1>13, <1>14, <2>1, OrderDaemon
<1>17. SnapshotsTaken'
  BY <1>7, <1>8 DEF SnapshotsTaken
<1> QED
  BY <1>12, <1>15, <1>16, <1>17 DEF ArrivalInv

-----------------------------------------------------------------------------
(* The relay takes a step that leaves the daemon's flags alone.              *)
LEMMA StillTaken ==
  ASSUME SnapshotsTaken, gate' = gate \/ gate' = NoGate
  PROVE  SnapshotsTaken'
<1>1. ~NoGate.refused
  BY DEF NoGate
<1>2. gate'.refused => gate.refused
  BY <1>1
<1> QED
  BY <1>2, Zenon DEF SnapshotsTaken

Arriving == IInv /\ ArrivalInv /\ SnapshotsTaken

LEMMA HostReadsArrival == ASSUME Arriving, HostReads PROVE ArrivalInv' /\ SnapshotsTaken'
<1>1. IInv /\ ArrivalInv /\ SnapshotsTaken
  BY DEF Arriving
<1>2. ArrivalInv'
  BY <1>1, HostLayoutCapabilityArrival, HostSnapshotCapabilityArrival, HostReconnectCapabilityArrival,
     HostSessionNameArrival, HostUpdateRequiredArrival, Zenon DEF HostReads
<1>3. gate' = gate
  BY DEF HostReads, HostLayoutCapability, HostSnapshotCapability, HostReconnectCapability,
         HostSessionName, HostUpdateRequired, daemonVars
<1> QED
  BY <1>1, <1>2, <1>3, StillTaken

LEMMA DisconnectedTaken == ASSUME Arriving, Disconnected PROVE ArrivalInv' /\ SnapshotsTaken'
<1>1. gate' = NoGate
  BY DEF Disconnected, NoDaemon
<1> QED
  BY <1>1, DisconnectedArrival, StillTaken DEF Arriving

LEMMA DaemonReadsArrival == ASSUME Arriving, DaemonReads PROVE ArrivalInv' /\ SnapshotsTaken'
<1>1. CASE DaemonTorn
  BY <1>1, DisconnectedTaken DEF DaemonTorn
<1> QED
  BY <1>1, DaemonHeaderArrival, DaemonCommandArrival, DaemonIdentityArrival, DaemonReadyArrival,
     DaemonLayoutArrival, DaemonSnapshotArrival, DaemonOutputArrival, DaemonStatusArrival,
     DaemonFinArrival, DaemonIgnoresArrival, Zenon DEF DaemonReads, Arriving

LEMMA StepsArrival == Arriving /\ [Next]_vars => Arriving'
<1> SUFFICES ASSUME Arriving, [Next]_vars PROVE ArrivalInv' /\ SnapshotsTaken'
  BY Preserved DEF Arriving
<1>1. IInv /\ ArrivalInv /\ SnapshotsTaken
  BY DEF Arriving
<1>2. CASE HostReads    BY <1>2, HostReadsArrival
<1>3. CASE DaemonReads  BY <1>3, DaemonReadsArrival
<1>4. CASE Lost \/ DaemonEnds
  BY <1>4, DisconnectedTaken DEF Lost, DaemonEnds
<1>5. CASE StatusChanges \/ UNCHANGED vars
  <2>1. UNCHANGED <<host, saved, reconnected, open, linkVars, out, in, daemonVars, gate>>
    BY <1>5 DEF StatusChanges, vars, hostVars, paneVars, daemonVars
  <2> QED
    BY <1>1, <2>1, QuietArrival, StillTaken
<1>6. CASE ServerLoop \/ ExecCmd \/ StatusTimer \/ CapabilityTimeout \/ Connect \/ ConnectFails
  <2>1. gate' = gate
    BY <1>6 DEF ServerLoop, ExecCmd, StatusTimer, CapabilityTimeout, Connect, ConnectFails, daemonVars
  <2>2. ArrivalInv'
    BY <1>1, <1>6, ServerLoopArrival, ExecCmdArrival, StatusTimerArrival, CapabilityTimeoutArrival,
       ConnectArrival, ConnectFailsArrival, Zenon
  <2> QED
    BY <1>1, <2>1, <2>2, StillTaken
<1>7. CASE \E p \in Panes : PaneOutput(p) \/ SelectWindow(p)
  <2>1. PICK p \in Panes : PaneOutput(p) \/ SelectWindow(p)
    BY <1>7
  <2>2. gate' = gate
    BY <2>1 DEF PaneOutput, SelectWindow, daemonVars
  <2>3. ArrivalInv'
    BY <1>1, <2>1, PaneOutputArrival, SelectWindowArrival, Zenon
  <2> QED
    BY <1>1, <2>2, <2>3, StillTaken
<1>8. CASE \E p \in Panes, w \in BOOLEAN : OpenPane(p, w) \/ ClosePane(p, w)
  <2>1. PICK p \in Panes, w \in BOOLEAN : OpenPane(p, w) \/ ClosePane(p, w)
    BY <1>8
  <2>2. gate' = gate
    BY <2>1 DEF OpenPane, ClosePane, daemonVars
  <2>3. ArrivalInv'
    BY <1>1, <2>1, OpenPaneArrival, ClosePaneArrival, Zenon
  <2> QED
    BY <1>1, <2>2, <2>3, StillTaken
<1> QED
  BY <1>2, <1>3, <1>4, <1>5, <1>6, <1>7, <1>8, Zenon DEF Next

LEMMA FirstArriving == Init => Arriving
<1>1. Init => SnapshotsTaken
  BY DEF Init, SnapshotsTaken, NoGate
<1> QED
  BY <1>1, Initially, InitArrival DEF Arriving

(* Whatever connections break and when: nothing about panes reaches a daemon  *)
(* before the host has both capabilities, the snapshot comes right after its  *)
(* layout, and the identity and the keys before both.                         *)
THEOREM ArrivalInvariance == Spec => []Arriving
<1>1. Init => Arriving
  BY FirstArriving
<1>2. Arriving /\ [Next]_vars => Arriving'
  BY StepsArrival
<1>3. QED  BY <1>1, <1>2, PTL DEF Spec

(* A relay that speaks the protocol never refuses the host's snapshot for     *)
(* having other panes than the daemon.                                        *)
THEOREM SnapshotsAccepted == Spec => []SnapshotsTaken
<1>1. Arriving => SnapshotsTaken
  BY DEF Arriving
<1>2. QED  BY <1>1, ArrivalInvariance, PTL

(* Viewers are let in only when the host's keys are known, its identity is    *)
(* settled and a picture is there that has panes.                             *)
THEOREM Waiting == Spec => []ViewersWait
<1>1. Arriving => ViewersWait
  <2> SUFFICES ASSUME Arriving, gate.announced PROVE ViewersWait
    BY DEF ViewersWait
  <2>1. gate.snapshot /\ gate.stable
    BY Zenon DEF Arriving, ArrivalInv, OrderInv
  <2>2. gate.layout
    BY <2>1, StageParts DEF Arriving, ArrivalInv
  <2>3. Has("keys") /\ DOMAIN view # {}
    BY <2>2, Zenon DEF Arriving, ArrivalInv, OrderInv, Setup
  <2> QED
    BY <2>1, <2>3, Zenon DEF ViewersWait, Has
<1>2. QED  BY <1>1, ArrivalInvariance, PTL

-----------------------------------------------------------------------------
(* Which command is which                                                    *)

Orders == {m \in Message : m.type = "cmd"}
Placed(q, i) == {j \in 1..i : q[j].type = "cmd"}

LEMMA RankNext ==
  ASSUME NEW q, NEW i \in Nat
  PROVE  /\ Rank(q, i) \in Nat /\ IsFiniteSet(Placed(q, i))
         /\ Rank(q, i + 1) = IF q[i + 1].type = "cmd" THEN Rank(q, i) + 1 ELSE Rank(q, i)
         /\ Rank(q, 0) = 0
<1>1. IsFiniteSet(1..i)
  BY FS_Interval
<1>2. IsFiniteSet(Placed(q, i))
  BY <1>1, FS_Subset DEF Placed
<1>3. Rank(q, i) = Cardinality(Placed(q, i)) /\ Rank(q, i + 1) = Cardinality(Placed(q, i + 1))
  BY DEF Rank, Placed
<1>4. Rank(q, i) \in Nat
  BY <1>2, <1>3, FS_CardinalityType
<1> DEFINE m == i + 1
<1>5. /\ m \notin Placed(q, i)
      /\ Placed(q, m) = IF q[m].type = "cmd" THEN Placed(q, i) \cup {m} ELSE Placed(q, i)
  <2> DEFINE X == 1..i
             Y == 1..m
  <2>1. Y = X \cup {m} /\ m \notin X
    OBVIOUS
  <2>2. Placed(q, i) = {j \in X : q[j].type = "cmd"} /\ Placed(q, m) = {j \in Y : q[j].type = "cmd"}
    BY DEF Placed
  <2> HIDE DEF X, Y, m
  <2> QED
    BY <2>1, <2>2
<1>6. Cardinality(Placed(q, m)) = IF q[m].type = "cmd" THEN Cardinality(Placed(q, i)) + 1 ELSE Cardinality(Placed(q, i))
  <2> HIDE DEF m
  <2> QED
    BY <1>2, <1>5, FS_AddElement
<1>7. Rank(q, 0) = 0
  <2>1. {j \in 1..0 : q[j].type = "cmd"} = {}
    OBVIOUS
  <2> QED
    BY <2>1, FS_EmptySet DEF Rank
<1> QED
  BY <1>2, <1>3, <1>4, <1>6, <1>7

LEMMA RankGrows ==
  ASSUME NEW q, NEW i \in Nat, NEW k \in Nat, k <= i
  PROVE  Rank(q, k) <= Rank(q, i) /\ (k > 0 /\ q[k].type = "cmd" => Rank(q, k) > 0)
<1>1. Placed(q, k) \in SUBSET Placed(q, i) /\ IsFiniteSet(Placed(q, i))
  <2>1. \A j \in 1..k : j \in 1..i
    OBVIOUS
  <2> QED
    BY <2>1, RankNext DEF Placed
<1>2. Rank(q, k) <= Rank(q, i)
  BY <1>1, FS_Subset DEF Rank, Placed
<1>3. ASSUME k > 0, q[k].type = "cmd"
      PROVE  Rank(q, k) > 0
  <2>1. k - 1 \in Nat /\ (k - 1) + 1 = k
    BY <1>3
  <2>2. Rank(q, k - 1) \in Nat /\ Rank(q, (k - 1) + 1) = Rank(q, k - 1) + 1
    BY <1>3, <2>1, RankNext
  <2> QED
    BY <2>1, <2>2
<1> QED
  BY <1>2, <1>3

(* The rank of a place depends on the kinds up to it.                        *)
LEMMA RankSame ==
  ASSUME NEW q, NEW r, NEW i \in Nat, \A j \in 1..i : q[j].type = r[j].type
  PROVE  Rank(q, i) = Rank(r, i)
<1>1. {j \in 1..i : q[j].type = "cmd"} = {j \in 1..i : r[j].type = "cmd"}
  OBVIOUS
<1> QED
  BY <1>1 DEF Rank

LEMMA RankTail ==
  ASSUME NEW q \in Seq(Message), q # <<>>, NEW i \in Nat, i < Len(q)
  PROVE  Rank(q, i + 1) = IF Head(q).type = "cmd" THEN Rank(Tail(q), i) + 1 ELSE Rank(Tail(q), i)
<1> DEFINE t == Tail(q)
           S == {j \in 2..i + 1 : q[j].type = "cmd"}
           P == Placed(t, i)
<1>1. /\ Len(q) \in Nat /\ Head(q) = q[1] /\ \A j \in 1..i : t[j] = q[j + 1]
  OBVIOUS
<1>2. IsFiniteSet(P) /\ Cardinality(P) = Rank(t, i) /\ Cardinality(P) \in Nat
  BY RankNext DEF Placed, Rank
<1> DEFINE f == [j \in P |-> j + 1]
<1>3. IsFiniteSet(S) /\ Cardinality(S) = Cardinality(P)
  <2>1. f \in Bijection(P, S)
    <3>1. f \in [P -> S]
      BY <1>1 DEF Placed
    <3>2. \A j, k \in P : f[j] = f[k] => j = k
      BY DEF Placed
    <3>3. \A s \in S : \E j \in P : f[j] = s
      <4> SUFFICES ASSUME NEW s \in S PROVE \E j \in P : f[j] = s
        OBVIOUS
      <4>1. s - 1 \in 1..i /\ (s - 1) + 1 = s
        OBVIOUS
      <4>2. s - 1 \in P
        BY <1>1, <4>1 DEF Placed
      <4> QED
        BY <4>1, <4>2
    <3> HIDE DEF f, P, S
    <3> QED
      BY <3>1, <3>2, <3>3, Fun_IsBij
  <2> HIDE DEF f, P, S
  <2> QED
    BY <1>2, <2>1, FS_Bijection DEF ExistsBijection
<1>4. Rank(q, i + 1) = Cardinality(Placed(q, i + 1))
  BY DEF Rank, Placed
<1>5. CASE Head(q).type = "cmd"
  <2>1. Placed(q, i + 1) = S \cup {1} /\ 1 \notin S
    BY <1>1, <1>5 DEF Placed
  <2> HIDE DEF S
  <2> QED
    BY <1>2, <1>3, <1>4, <1>5, <2>1, FS_AddElement
<1>6. CASE Head(q).type # "cmd"
  <2>1. Placed(q, i + 1) = S
    BY <1>1, <1>6 DEF Placed
  <2> HIDE DEF S
  <2> QED
    BY <1>2, <1>3, <1>4, <1>6, <2>1
<1> QED
  BY <1>5, <1>6

(* Commands right after a header.                                            *)
LEMMA RankHeader ==
  ASSUME NEW q, NEW n \in Nat, q[1].type # "cmd", \A i \in 2..n + 1 : q[i].type = "cmd",
         NEW i \in 1..n + 1
  PROVE  Rank(q, i) = i - 1
<1>1. {j \in 1..i : q[j].type = "cmd"} = 2..i
  OBVIOUS
<1>2. Cardinality(2..i) = i - 1
  BY FS_Interval
<1> QED
  BY <1>1, <1>2 DEF Rank

(* AsSaved for any queue.                                                    *)
SavedAs(a, q, s) ==
  /\ Len(a) + Rank(q, Len(q)) = Len(s)
  /\ \A i \in DOMAIN a : SameCommand(a[i], s[i])
  /\ \A i \in DOMAIN q : q[i].type = "cmd" => SameCommand(q[i].value, s[Len(a) + Rank(q, i)])

LEMMA Numbers ==
  ASSUME NEW q \in Seq(Message)
  PROVE  /\ Len(q) \in Nat /\ DOMAIN q = 1..Len(q)
         /\ \A i \in DOMAIN q : i \in Nat /\ q[i] \in Message
         /\ Rank(q, Len(q)) \in Nat /\ \A i \in DOMAIN q : Rank(q, i) \in Nat
<1>1. /\ Len(q) \in Nat /\ DOMAIN q = 1..Len(q)
      /\ \A i \in DOMAIN q : i \in Nat /\ q[i] \in Message
  OBVIOUS
<1> QED
  BY <1>1, RankNext

(* Something else is queued.                                                 *)
LEMMA OthersQueued ==
  ASSUME NEW a, NEW s, NEW q \in Seq(Message), NEW r \in Seq(Message), Gained(q, r, Orders), SavedAs(a, q, s)
  PROVE  SavedAs(a, r, s)
<1>1. /\ Len(q) \in Nat /\ DOMAIN q = 1..Len(q) /\ Len(r) \in Nat /\ DOMAIN r = 1..Len(r)
      /\ \A i \in DOMAIN r : r[i] \in Message
  BY Numbers
<1>2. \A i \in 1..Len(r) : r[i].type = "cmd" => i \in 1..Len(q)
  <2> SUFFICES ASSUME NEW i \in 1..Len(r), r[i].type = "cmd" PROVE i \in 1..Len(q)
    OBVIOUS
  <2>1. r[i] \in Orders
    BY <1>1 DEF Orders
  <2>2. i \notin Len(q) + 1..Len(r)
    BY <2>1 DEF Gained
  <2> QED
    BY <1>1, <2>2
<1>3. Len(q) <= Len(r) /\ \A i \in 1..Len(q) : i \in 1..Len(r) /\ r[i] = q[i]
  BY <1>1 DEF Gained
<1>4. Rank(r, Len(r)) = Rank(q, Len(q))
  <2> DEFINE Q == 1..Len(q)
             R == 1..Len(r)
  <2>1. Rank(q, Len(q)) = Cardinality({i \in Q : q[i].type = "cmd"})
        /\ Rank(r, Len(r)) = Cardinality({i \in R : r[i].type = "cmd"})
    BY DEF Rank
  <2> HIDE DEF Q, R
  <2>2. {i \in Q : q[i].type = "cmd"} = {i \in R : r[i].type = "cmd"}
    BY <1>2, <1>3 DEF Q, R
  <2> QED
    BY <2>1, <2>2
<1>5. \A i \in 1..Len(q) : Rank(r, i) = Rank(q, i)
  <2> SUFFICES ASSUME NEW i \in 1..Len(q) PROVE Rank(r, i) = Rank(q, i)
    OBVIOUS
  <2>1. i \in Nat /\ \A j \in 1..i : j \in 1..Len(q)
    BY <1>1
  <2> QED
    BY <1>3, <2>1, RankSame
<1>6. \A i \in DOMAIN r : r[i].type = "cmd" => SameCommand(r[i].value, s[Len(a) + Rank(r, i)])
  <2> SUFFICES ASSUME NEW i \in DOMAIN r, r[i].type = "cmd" PROVE SameCommand(r[i].value, s[Len(a) + Rank(r, i)])
    OBVIOUS
  <2>1. i \in 1..Len(q) /\ r[i] = q[i] /\ Rank(r, i) = Rank(q, i)
    BY <1>1, <1>2, <1>3, <1>5
  <2> QED
    BY <1>1, <2>1, Zenon DEF SavedAs
<1> QED
  BY <1>4, <1>6 DEF SavedAs

(* A command is saved and queued.                                            *)
LEMMA OrderQueued ==
  ASSUME NEW a \in Seq(CommandNames), NEW s \in Seq(CommandNames), NEW q \in Seq(Message), NEW c \in CommandNames,
         SavedAs(a, q, s)
  PROVE  SavedAs(a, Append(q, Msg("cmd", c)), Append(s, c))
<1> DEFINE m == Msg("cmd", c)
           r == Append(q, m)
           t == Append(s, c)
<1>1. m \in Message /\ m.type = "cmd" /\ m.value = c
  BY MessageTypes DEF Msg
<1> HIDE DEF m
<1>2. /\ Len(r) = Len(q) + 1 /\ DOMAIN r = 1..Len(q) + 1 /\ r[Len(q) + 1] = m
      /\ \A i \in 1..Len(q) : r[i] = q[i]
      /\ Len(t) = Len(s) + 1 /\ t[Len(s) + 1] = c /\ \A i \in 1..Len(s) : t[i] = s[i]
      /\ Len(s) \in Nat /\ Len(a) \in Nat /\ DOMAIN a = 1..Len(a)
  BY <1>1
<1>3. Len(q) \in Nat /\ DOMAIN q = 1..Len(q) /\ Rank(q, Len(q)) \in Nat
  BY Numbers
<1> HIDE DEF r, t
<1>4. \A i \in 0..Len(q) : Rank(r, i) = Rank(q, i)
  <2> SUFFICES ASSUME NEW i \in 0..Len(q) PROVE Rank(r, i) = Rank(q, i)
    OBVIOUS
  <2>1. i \in Nat /\ \A j \in 1..i : j \in 1..Len(q)
    BY <1>3
  <2> QED
    BY <1>2, <2>1, RankSame
<1>5. Rank(r, Len(q) + 1) = Rank(q, Len(q)) + 1
  <2>1. Rank(r, Len(q)) = Rank(q, Len(q))
    BY <1>3, <1>4
  <2>2. r[Len(q) + 1].type = "cmd"
    BY <1>1, <1>2
  <2>3. Rank(r, Len(q) + 1) = IF r[Len(q) + 1].type = "cmd" THEN Rank(r, Len(q)) + 1 ELSE Rank(r, Len(q))
    BY <1>3, RankNext, Zenon
  <2> QED
    BY <2>1, <2>2, <2>3
<1>6. Len(a) + Rank(q, Len(q)) = Len(s)
  BY DEF SavedAs
<1>10. Len(a) + Rank(r, Len(q) + 1) = Len(s) + 1
  <2>1. Len(a) \in Nat /\ Rank(q, Len(q)) \in Nat
    BY <1>2, <1>3
  <2> QED
    BY <1>5, <1>6, <2>1
<1>7. Len(a) + Rank(r, Len(r)) = Len(t)
  <2>1. Len(r) = Len(q) + 1 /\ Len(t) = Len(s) + 1
    BY <1>2
  <2> QED
    BY <1>10, <2>1
<1>8. \A i \in DOMAIN a : SameCommand(a[i], t[i])
  <2> SUFFICES ASSUME NEW i \in DOMAIN a PROVE SameCommand(a[i], t[i])
    OBVIOUS
  <2>1. i \in 1..Len(s)
    BY <1>2, <1>3, <1>6
  <2> QED
    BY <1>2, <2>1, Zenon DEF SavedAs
<1>9. \A i \in DOMAIN r : r[i].type = "cmd" => SameCommand(r[i].value, t[Len(a) + Rank(r, i)])
  <2> SUFFICES ASSUME NEW i \in DOMAIN r, r[i].type = "cmd" PROVE SameCommand(r[i].value, t[Len(a) + Rank(r, i)])
    OBVIOUS
  <2>1. CASE i = Len(q) + 1
    <3>1. Len(a) + Rank(r, i) = Len(s) + 1
      BY <1>10, <2>1
    <3> QED
      BY <1>1, <1>2, <2>1, <3>1 DEF SameCommand
  <2>2. CASE i \in 1..Len(q)
    <3>1. r[i] = q[i] /\ Rank(r, i) = Rank(q, i)
      BY <1>2, <1>3, <1>4, <2>2
    <3>2. SameCommand(q[i].value, s[Len(a) + Rank(q, i)])
      BY <1>3, <2>2, <3>1, Zenon DEF SavedAs
    <3>3. Len(a) + Rank(q, i) \in 1..Len(s)
      <4>1. i \in Nat /\ i <= Len(q) /\ i > 0
        BY <1>3, <2>2
      <4>2. Rank(q, i) \in Nat
        BY <4>1, RankNext
      <4>3. Rank(q, i) <= Rank(q, Len(q)) /\ Rank(q, i) > 0
        BY <1>3, <3>1, <4>1, RankGrows
      <4> QED
        BY <1>2, <1>3, <1>6, <4>2, <4>3
    <3> QED
      BY <1>2, <3>1, <3>2, <3>3
  <2> QED
    BY <1>2, <1>3, <2>1, <2>2
<1> QED
  BY <1>7, <1>8, <1>9 DEF SavedAs, r, t, m

(* The daemon takes what is first.                                           *)
LEMMA FirstRead ==
  ASSUME NEW a \in Seq(CommandNames), NEW s \in Seq(CommandNames), NEW q \in Seq(Message), q # <<>>,
         SavedAs(a, q, s),
         NEW b, b = IF Head(q).type = "cmd" THEN Append(a, Head(q).value) ELSE a
  PROVE  SavedAs(b, Tail(q), s)
<1> DEFINE t == Tail(q)
           k == IF Head(q).type = "cmd" THEN 1 ELSE 0
<1>1. /\ Len(q) \in Nat \ {0} /\ DOMAIN q = 1..Len(q) /\ Head(q) = q[1] /\ Head(q) \in Message
      /\ t \in Seq(Message) /\ Len(t) = Len(q) - 1 /\ DOMAIN t = 1..Len(t) /\ Len(t) \in Nat
      /\ \A i \in 1..Len(t) : t[i] = q[i + 1] /\ i + 1 \in DOMAIN q
  OBVIOUS
<1>2. \A i \in 0..Len(t) : Rank(q, i + 1) = Rank(t, i) + k /\ Rank(t, i) \in Nat
  <2> SUFFICES ASSUME NEW i \in 0..Len(t) PROVE Rank(q, i + 1) = Rank(t, i) + k /\ Rank(t, i) \in Nat
    OBVIOUS
  <2>1. i \in Nat /\ i < Len(q)
    BY <1>1
  <2>2. Rank(t, i) \in Nat
    BY <2>1, RankNext
  <2> QED
    BY <2>1, <2>2, RankTail
<1>3. Len(a) \in Nat /\ DOMAIN a = 1..Len(a) /\ Len(b) = Len(a) + k /\ DOMAIN b = 1..Len(b)
      /\ \A i \in 1..Len(a) : b[i] = a[i]
  <2>1. Head(q).type = "cmd" => Head(q).value \in CommandNames
    BY <1>1, Carried
  <2> QED
    BY <2>1
<1> HIDE DEF t
<1>4. Len(b) + Rank(t, Len(t)) = Len(s)
  <2>1. Len(t) \in 0..Len(t) /\ Len(t) + 1 = Len(q)
    BY <1>1
  <2>2. Rank(q, Len(q)) = Rank(t, Len(t)) + k /\ Rank(t, Len(t)) \in Nat
    BY <1>2, <2>1
  <2>3. Len(a) + Rank(q, Len(q)) = Len(s)
    BY DEF SavedAs
  <2> QED
    BY <1>3, <2>2, <2>3
<1>5. \A i \in DOMAIN b : SameCommand(b[i], s[i])
  <2> SUFFICES ASSUME NEW i \in DOMAIN b PROVE SameCommand(b[i], s[i])
    OBVIOUS
  <2>1. CASE i \in 1..Len(a)
    BY <1>3, <2>1, Zenon DEF SavedAs
  <2>2. CASE i \notin 1..Len(a)
    <3>1. Head(q).type = "cmd" /\ i = Len(a) + 1
      BY <1>3, <2>2
    <3>2. b[i] = q[1].value /\ q[1].type = "cmd" /\ 1 \in DOMAIN q
      BY <1>1, <3>1
    <3>3. Rank(q, 1) = 1
      <4>1. 0 \in Nat /\ 0 + 1 = 1
        OBVIOUS
      <4> QED
        BY <3>2, <4>1, RankNext
    <3> QED
      BY <3>1, <3>2, <3>3 DEF SavedAs
  <2> QED
    BY <2>1, <2>2
<1>6. \A i \in DOMAIN t : t[i].type = "cmd" => SameCommand(t[i].value, s[Len(b) + Rank(t, i)])
  <2> SUFFICES ASSUME NEW i \in DOMAIN t, t[i].type = "cmd" PROVE SameCommand(t[i].value, s[Len(b) + Rank(t, i)])
    OBVIOUS
  <2>1. i \in 0..Len(t) /\ t[i] = q[i + 1] /\ i + 1 \in DOMAIN q
    BY <1>1
  <2>2. Len(b) + Rank(t, i) = Len(a) + Rank(q, i + 1)
    BY <1>2, <1>3, <2>1
  <2> QED
    BY <2>1, <2>2 DEF SavedAs
<1> QED
  BY <1>4, <1>5, <1>6 DEF SavedAs, t

(* A header and n commands.                                                  *)
Opening(q, n, cmds) ==
  /\ q \in Seq(Message) /\ Len(q) = n + 1 /\ q[1].type = "header"
  /\ \A i \in 1..n : q[i + 1].type = "cmd" /\ q[i + 1].value = cmds[i]

LEMMA StartsOpen ==
  ASSUME NEW q, NEW n \in Nat, NEW cmds, Starts(q, n, cmds)
  PROVE  Opening(q, n, cmds)
<1>1. /\ q \in Seq(Message) /\ Len(q) = n + 1 /\ q[1].type = "header"
      /\ \A i \in 1..n : q[i + 1] = Msg("cmd", cmds[i])
  BY Zenon DEF Starts
<1>2. \A v : Msg("cmd", v).type = "cmd" /\ Msg("cmd", v).value = v
  BY DEF Msg
<1>3. \A i \in 1..n : q[i + 1].type = "cmd" /\ q[i + 1].value = cmds[i]
  BY <1>1, <1>2, Zenon
<1> QED
  BY <1>1, <1>3, Zenon DEF Opening

LEMMA CommandPlaces ==
  ASSUME NEW n \in Nat, NEW cmds, DOMAIN cmds = 1..n, \A i \in 1..n : cmds[i] \in CommandNames
  PROVE  Opening(Beginning(cmds), n, cmds)
  BY HeaderAndCommands, StartsOpen, Zenon

(* A connection begins with all that was saved.                              *)
LEMMA AllReplayed ==
  ASSUME NEW n \in Nat, NEW s \in Seq(CommandNames), Len(s) = n, NEW cmds, DOMAIN cmds = 1..n,
         \A i \in 1..n : cmds[i] \in CommandNames, \A i \in 1..n : SameCommand(cmds[i], s[i])
  PROVE  SavedAs(<<>>, Beginning(cmds), s)
<1> DEFINE q == Beginning(cmds)
<1>1. Len(<<>>) = 0 /\ DOMAIN <<>> = {}
  OBVIOUS
<1>2. Opening(q, n, cmds)
  BY CommandPlaces, Zenon
<1> HIDE DEF q
<1>3. DOMAIN q = 1..n + 1 /\ \A i \in 2..n + 1 : i - 1 \in 1..n /\ (i - 1) + 1 = i
  BY <1>2 DEF Opening
<1>4. \A i \in 1..n + 1 : Rank(q, i) = i - 1
  <2>1. \A i \in 2..n + 1 : q[i].type = "cmd"
    <3> SUFFICES ASSUME NEW i \in 2..n + 1 PROVE q[i].type = "cmd"
      OBVIOUS
    <3>1. q[(i - 1) + 1].type = "cmd"
      BY <1>2, <1>3 DEF Opening
    <3> QED
      BY <1>3, <3>1
  <2>2. q[1].type # "cmd"
    BY <1>2 DEF Opening
  <2> QED
    BY <2>1, <2>2, RankHeader
<1>5. Len(<<>>) + Rank(q, Len(q)) = n
  BY <1>1, <1>2, <1>4 DEF Opening
<1>6. \A i \in DOMAIN q : q[i].type = "cmd" => SameCommand(q[i].value, s[Len(<<>>) + Rank(q, i)])
  <2> SUFFICES ASSUME NEW i \in DOMAIN q, q[i].type = "cmd" PROVE SameCommand(q[i].value, s[Len(<<>>) + Rank(q, i)])
    OBVIOUS
  <2>1. i \in 2..n + 1
    BY <1>2, <1>3 DEF Opening
  <2>2. q[i].value = cmds[i - 1] /\ i - 1 \in 1..n
    <3>1. q[(i - 1) + 1].value = cmds[i - 1]
      BY <1>2, <1>3, <2>1 DEF Opening
    <3> QED
      BY <1>3, <2>1, <3>1
  <2>3. Len(<<>>) + Rank(q, i) = i - 1
    BY <1>1, <1>4, <2>1
  <2> QED
    BY <2>2, <2>3
<1> QED
  BY <1>1, <1>5, <1>6 DEF SavedAs, q

-----------------------------------------------------------------------------
(* No command is lost on its way                                             *)

LEMMA SavedAsAll ==
  /\ AsSaved <=> SavedAs(applied, out, saved)
  /\ AsSaved' <=> SavedAs(applied', out', saved')
  BY DEF AsSaved, SavedAs

(* What the host queues that is not a command.                               *)
NoOrder(r) == r \in Seq(Message) /\ Gained(out, r, Orders)

LEMMA NoOrderYet == ASSUME IInv PROVE NoOrder(out) /\ out \in Seq(Message)
  BY Same DEF IInv, TypeOK, QueueTypes, NoOrder

LEMMA NoOrderMore ==
  ASSUME IInv, NEW r, NoOrder(r), NEW m \in Message, m.type # "cmd"
  PROVE  NoOrder(Append(r, m))
<1>1. out \in Seq(Message)
  BY NoOrderYet
<1>2. m \in Message \ Orders
  BY DEF Orders
<1> QED
  BY <1>1, <1>2, Enqueued, Zenon DEF NoOrder

LEMMA Plain ==
  /\ Fin \in Message /\ Fin.type # "cmd"
  /\ Msg("ready", 0) \in Message /\ Msg("ready", 0).type # "cmd"
  /\ Msg("identity", 0) \in Message /\ Msg("identity", 0).type # "cmd"
  /\ \A ps \in SUBSET Panes : Msg("layout", ps) \in Message /\ Msg("layout", ps).type # "cmd"
  /\ \A v \in 0..MaxStatus : Msg("status", v) \in Message /\ Msg("status", v).type # "cmd"
  /\ \A ps \in SUBSET Panes : \A f \in [ps -> 0..MaxOutput] :
       Msg("snapshot", f) \in Message /\ Msg("snapshot", f).type # "cmd"
  /\ \A c \in [pane : Panes, nth : 1..MaxOutput] : Msg("pty", c) \in Message /\ Msg("pty", c).type # "cmd"
<1>1. \A k, v : Msg(k, v).type = k
  BY DEF Msg
<1> QED
  BY <1>1, MessageTypes DEF Fin, Signals

LEMMA ConfigHost ==
  ASSUME IInv, ConfigInv, NoOrder(out'), UNCHANGED <<saved, applied, link, reconnected, gate>>,
         host.failed => host'.failed
  PROVE  ConfigInv'
<1> SUFFICES ASSUME Current', ~Tearing' PROVE AsSaved'
  BY DEF ConfigInv
<1>1. out \in Seq(Message) /\ out' \in Seq(Message) /\ Gained(out, out', Orders)
  BY NoOrderYet DEF NoOrder
<1>2. MoreOf(out, out', Orders)
  BY <1>1, Grown
<1>3. ~Tearing
  BY <1>2, Zenon DEF Tearing, MoreOf
<1>4. Current
  BY DEF Current
<1>5. SavedAs(applied, out, saved)
  BY <1>3, <1>4, SavedAsAll DEF ConfigInv
<1>6. SavedAs(applied, out', saved)
  BY <1>1, <1>5, OthersQueued
<1> QED
  BY <1>6, SavedAsAll

LEMMA NoOrderFail ==
  ASSUME IInv, NEW q, NoOrder(q), Fail(q)
  PROVE  NoOrder(out') /\ host'.failed
<1>1. NoOrder(Append(q, Fin))
  BY NoOrderMore, Plain
<1>2. host'.failed
  BY DEF Fail, IInv, TypeOK, HostTypes
<1> QED
  BY <1>1, <1>2 DEF Fail

LEMMA NoOrderSync ==
  ASSUME IInv, NEW ps \in SUBSET Panes, SyncLayout(ps)
  PROVE  NoOrder(out') /\ (host.failed => host'.failed)
<1>1. CASE UNCHANGED <<host, out>>
  BY <1>1, NoOrderYet
<1>2. CASE UNCHANGED host /\ out' = Append(out, Msg("layout", ps))
  BY <1>2, NoOrderYet, NoOrderMore, Plain
<1>3. CASE Fail(out)
  BY <1>3, NoOrderYet, NoOrderFail
<1> QED
  BY <1>1, <1>2, <1>3, Zenon DEF SyncLayout

LEMMA NoOrderStatus ==
  ASSUME IInv, NEW q, NoOrder(q)
  PROVE  NoOrder(WithStatus(q))
<1>1. status \in 0..MaxStatus
  BY DEF IInv, TypeOK, HostTypes
<1>2. NoOrder(Append(q, Msg("status", status)))
  BY <1>1, NoOrderMore, Plain
<1> QED
  BY <1>2 DEF WithStatus

LEMMA NoOrderStart ==
  ASSUME IInv, NEW h \in HostRecord, ~h.failed, StartSharing(h)
  PROVE  NoOrder(out')
<1> DEFINE withLayout == IF Room(out) THEN Append(out, Msg("layout", Shared)) ELSE out
           withSnapshot == Append(withLayout, Msg("snapshot", Snapshot))
<1>1. Shared \in SUBSET Panes /\ Snapshot \in [Shared -> 0..MaxOutput]
  <2>1. open \in SUBSET Panes /\ written \in [Panes -> 0..MaxOutput]
    BY DEF IInv, TypeOK, HostTypes
  <2>2. Shared \in SUBSET Panes
    BY <2>1, PanesTypes DEF Shared
  <2> QED
    BY <2>1, <2>2 DEF Snapshot
<1>2. NoOrder(withLayout)
  <2>1. NoOrder(Append(out, Msg("layout", Shared)))
    BY <1>1, NoOrderYet, NoOrderMore, Plain
  <2> QED
    BY <2>1, NoOrderYet
<1>3. \/ out' = Append(out, Fin)
      \/ out' = WithStatus(withSnapshot) \o <<Msg("ready", 0)>>
      \/ out' = WithStatus(withSnapshot) \o <<>>
      \/ out' = WithStatus(Append(withLayout, Fin))
  BY DEF StartSharing
<1> HIDE DEF withLayout
<1>4. NoOrder(withSnapshot)
  BY <1>1, <1>2, NoOrderMore, Plain
<1> HIDE DEF withSnapshot
<1> DEFINE w == WithStatus(withSnapshot)
<1>5. NoOrder(w)
  BY <1>4, NoOrderStatus
<1> HIDE DEF w
<1>6. w \in Seq(Message) /\ w \o <<>> = w /\ w \o <<Msg("ready", 0)>> = Append(w, Msg("ready", 0))
  <2> DEFINE m == Msg("ready", 0)
  <2>1. m \in Message /\ w \in Seq(Message)
    BY <1>5, Plain DEF NoOrder
  <2> HIDE DEF m
  <2>2. w \o <<>> = w /\ w \o <<m>> = Append(w, m)
    BY <2>1
  <2> QED
    BY <2>1, <2>2 DEF m
<1>7. NoOrder(Append(w, Msg("ready", 0))) /\ NoOrder(Append(out, Fin))
  BY <1>5, NoOrderYet, NoOrderMore, Plain
<1>8. NoOrder(WithStatus(Append(withLayout, Fin)))
  BY <1>2, NoOrderMore, NoOrderStatus, Plain
<1>9. \/ out' = Append(out, Fin) \/ out' = Append(w, Msg("ready", 0)) \/ out' = w
      \/ out' = WithStatus(Append(withLayout, Fin))
  BY <1>3, <1>6 DEF w
<1> QED
  BY <1>5, <1>7, <1>8, <1>9, Zenon

LEMMA NoOrderNegotiated ==
  ASSUME IInv, NEW c \in {"layout", "snapshot"}, Negotiated(c)
  PROVE  NoOrder(out') /\ (host.failed => host'.failed)
<1>1. host \in HostRecord
  BY DEF IInv, TypeOK, HostTypes, HostRecord
<1> DEFINE h == [host EXCEPT ![c] = TRUE]
<1>2. h \in HostRecord /\ h.failed = host.failed
  BY <1>1 DEF HostRecord
<1>3. \/ UNCHANGED <<host, out>>
      \/ ~host.failed /\ StartSharing(h)
      \/ ~host.failed /\ UNCHANGED out
  BY DEF Negotiated
<1> HIDE DEF h
<1> QED
  BY <1>2, <1>3, NoOrderYet, NoOrderStart

LEMMA HostReadsConfig == ASSUME IInv, ConfigInv, HostReads PROVE ConfigInv'
<1>1. UNCHANGED <<saved, applied, link, reconnected, gate>>
  BY DEF HostReads, HostLayoutCapability, HostSnapshotCapability, HostReconnectCapability,
         HostSessionName, HostUpdateRequired, linkVars, daemonVars, hostVars
<1>2. NoOrder(out') /\ (host.failed => host'.failed)
  <2>1. CASE HostLayoutCapability \/ HostSnapshotCapability
    BY <2>1, NoOrderNegotiated DEF HostLayoutCapability, HostSnapshotCapability
  <2>2. CASE HostReconnectCapability
    BY <2>2, NoOrderYet, NoOrderMore, Plain DEF HostReconnectCapability, hostVars
  <2>3. CASE HostSessionName
    BY <2>3, NoOrderYet DEF HostSessionName
  <2>4. CASE HostUpdateRequired
    BY <2>4, NoOrderYet, NoOrderFail DEF HostUpdateRequired
  <2> QED
    BY <2>1, <2>2, <2>3, <2>4 DEF HostReads
<1> QED
  BY <1>1, <1>2, ConfigHost

LEMMA PanesConfig ==
  ASSUME IInv, ConfigInv, NEW p \in Panes, NEW w \in BOOLEAN,
         OpenPane(p, w) \/ ClosePane(p, w) \/ SelectWindow(p) \/ ServerLoop
  PROVE  ConfigInv'
<1>1. UNCHANGED <<saved, applied, link, reconnected, gate>>
  BY DEF OpenPane, ClosePane, SelectWindow, ServerLoop, linkVars, daemonVars
<1>2. open \in SUBSET Panes /\ open' \in SUBSET Panes
  BY DEF OpenPane, ClosePane, SelectWindow, ServerLoop, paneVars, IInv, TypeOK, HostTypes
<1>3. UNCHANGED <<host, out>> \/ \E ps \in SUBSET Panes : SyncLayout(ps)
  <2>1. CASE OpenPane(p, w)
    BY <1>2, <2>1, PanesTypes DEF OpenPane
  <2>2. CASE ClosePane(p, w)
    BY <1>2, <2>2, PanesTypes DEF ClosePane
  <2>3. CASE SelectWindow(p)
    BY <1>2, <2>3, PanesTypes DEF SelectWindow
  <2>4. CASE ServerLoop
    BY <1>2, <2>4, PanesTypes DEF ServerLoop, Shared
  <2> QED
    BY <2>1, <2>2, <2>3, <2>4
<1>4. NoOrder(out') /\ (host.failed => host'.failed)
  BY <1>3, NoOrderYet, NoOrderSync
<1> QED
  BY <1>1, <1>4, ConfigHost

LEMMA PaneOutputConfig == ASSUME IInv, ConfigInv, NEW p \in Panes, PaneOutput(p) PROVE ConfigInv'
<1> DEFINE chunk == Msg("pty", [pane |-> p, nth |-> written'[p]])
<1>1. /\ UNCHANGED <<host, saved, applied, link, reconnected, gate>>
      /\ \/ UNCHANGED out
         \/ out' = Append(out, chunk)
         \/ out # <<>> /\ out' = Append(Torn(out), chunk)
  BY RoomWhenEmpty DEF PaneOutput, hostVars, linkVars, daemonVars
<1>2. written'[p] \in 1..MaxOutput
  <2>1. MaxOutput \in Nat
    BY SharingAssumption
  <2> QED
    BY <2>1 DEF PaneOutput, IInv, TypeOK, HostTypes
<1>3. chunk \in Message /\ chunk.type # "cmd"
  BY <1>2, Plain
<1> HIDE DEF chunk
<1>4. CASE UNCHANGED out \/ out' = Append(out, chunk)
  <2>1. NoOrder(out')
    BY <1>3, <1>4, NoOrderYet, NoOrderMore
  <2> QED
    BY <1>1, <2>1, ConfigHost
<1>5. CASE out # <<>> /\ out' = Append(Torn(out), chunk)
  <2> DEFINE r == Torn(out)
  <2>1. r \in Seq(Message) /\ Len(r) = Len(out) /\ r[1].type = "torn" /\ 1 \in DOMAIN r
    <3>1. Msg("torn", Head(out).type).type = "torn"
      BY DEF Msg
    <3> QED
      BY <1>5, <3>1, NoOrderYet, TornForm, Zenon
  <2>2. out' = Append(r, chunk)
    BY <1>5
  <2> HIDE DEF r
  <2>3. out' # <<>> /\ Head(out').type = "torn"
    BY <1>3, <2>1, <2>2
  <2> QED
    BY <2>3 DEF ConfigInv, Tearing
<1> QED
  BY <1>1, <1>4, <1>5

LEMMA ExecCmdConfig == ASSUME IInv, ConfigInv, ExecCmd PROVE ConfigInv'
<1> SUFFICES ASSUME Current', ~Tearing' PROVE AsSaved'
  BY DEF ConfigInv
<1>1. /\ saved' = Append(saved, "opt") /\ out' = Append(out, Msg("cmd", "opt"))
      /\ UNCHANGED <<applied, link, reconnected, gate, host>>
  BY DEF ExecCmd, linkVars, daemonVars
<1>2. /\ applied \in Seq(CommandNames) /\ saved \in Seq(CommandNames) /\ "opt" \in CommandNames
      /\ out \in Seq(Message)
  BY DEF IInv, TypeOK, HostTypes, QueueTypes, DaemonTypes, CommandNames
<1>3. Current
  BY <1>1 DEF Current
<1>4. ~Tearing
  <2> DEFINE m == Msg("cmd", "opt")
  <2>1. out' = Append(out, m) /\ m \in Message
    BY <1>1, <1>2, MessageTypes
  <2> HIDE DEF m
  <2>2. out # <<>> => out' # <<>> /\ Head(out') = Head(out)
    BY <1>2, <2>1
  <2> QED
    BY <2>2 DEF Tearing
<1>5. SavedAs(applied, out, saved)
  BY <1>3, <1>4, SavedAsAll DEF ConfigInv
<1>6. SavedAs(applied, Append(out, Msg("cmd", "opt")), Append(saved, "opt"))
  BY <1>2, <1>5, OrderQueued
<1> QED
  BY <1>1, <1>6, SavedAsAll, Zenon

LEMMA TimersConfig ==
  ASSUME IInv, ConfigInv, StatusTimer \/ CapabilityTimeout \/ StatusChanges \/ UNCHANGED vars
  PROVE  ConfigInv'
<1>1. UNCHANGED <<saved, applied, link, reconnected, gate>>
  BY DEF StatusTimer, CapabilityTimeout, StatusChanges, vars, linkVars, daemonVars, hostVars
<1>2. NoOrder(out') /\ (host.failed => host'.failed)
  <2>1. CASE StatusTimer
    BY <2>1, NoOrderYet, NoOrderStatus DEF StatusTimer
  <2>2. CASE CapabilityTimeout
    BY <2>2, NoOrderYet, NoOrderFail DEF CapabilityTimeout
  <2>3. CASE UNCHANGED <<host, out>>
    BY <2>3, NoOrderYet
  <2> QED
    BY <2>1, <2>2, <2>3 DEF StatusChanges, vars, hostVars
<1> QED
  BY <1>1, <1>2, ConfigHost

LEMMA ConnectFailsConfig == ASSUME ConnectFails PROVE ConfigInv'
  BY DEF ConnectFails, ConfigInv, Current, linkVars

LEMMA DisconnectedConfig == ASSUME IInv, Disconnected PROVE ConfigInv'
<1>1. /\ link' = "down" /\ host' = [host EXCEPT !.layout = FALSE, !.snapshot = FALSE]
      /\ reconnected' = (reconnected \/ ~host.failed)
  BY DEF Disconnected
<1>2. host'.failed = host.failed
  BY <1>1 DEF IInv, TypeOK, HostTypes
<1>3. ~Current'
  BY <1>1, <1>2 DEF Current
<1> QED
  BY <1>3, Zenon DEF ConfigInv

LEMMA ConnectConfig == ASSUME IInv, ArrivalInv, ConfigInv, Connect PROVE ConfigInv'
<1>1. /\ link = "down" /\ ~host.failed /\ gate = NoGate
      /\ UNCHANGED <<saved, applied, reconnected, gate>>
  BY DEF Connect, daemonVars, IInv, HandshakeInv
<1>2. CASE ~reconnected
  <2>1. UNCHANGED out
    BY <1>2 DEF Connect
  <2>2. Current
    BY <1>1, <1>2 DEF Current, NoGate
  <2>3. Tearing' = Tearing
    BY <2>1 DEF Tearing
  <2>4. AsSaved' = AsSaved
    <3>1. SavedAs(applied, out, saved) = SavedAs(applied', out', saved')
      BY <1>1, <2>1
    <3> QED
      BY <3>1, Zenon DEF AsSaved, SavedAs
  <2> QED
    BY <2>2, <2>3, <2>4, Zenon DEF ConfigInv
<1>3. CASE reconnected
  <2>1. out' = Beginning(Replayed)
    BY <1>3 DEF Connect, Beginning
  <2>2. applied' = <<>>
    BY <1>1, Zenon DEF ArrivalInv, OrderInv
  <2> DEFINE n == Len(saved)
             cmds == Replayed
  <2>3. saved \in Seq(CommandNames) /\ n \in Nat /\ DOMAIN saved = 1..n /\ told \in Names \cup {NoName}
    BY DEF IInv, TypeOK, HostTypes
  <2>4. DOMAIN cmds = 1..n
    BY <2>3 DEF Replayed
  <2>5. \A i \in 1..n : cmds[i] \in CommandNames
    BY <2>3 DEF Replayed, CommandNames
  <2>6. \A i \in 1..n : SameCommand(cmds[i], saved[i])
    BY <2>3 DEF Replayed, SameCommand
  <2> HIDE DEF n, cmds
  <2>7. SavedAs(<<>>, Beginning(cmds), saved)
    BY <2>3, <2>4, <2>5, <2>6, AllReplayed DEF n
  <2>8. SavedAs(applied', out', saved')
    BY <1>1, <2>1, <2>2, <2>7 DEF cmds
  <2> QED
    BY <2>8, SavedAsAll, Zenon DEF ConfigInv
<1> QED
  BY <1>2, <1>3

(* A daemon that listens reads the next message.                             *)
LEMMA ConfigDaemon ==
  ASSUME IInv, ConfigInv, UNCHANGED <<saved, link, reconnected, host>>, gate'.refused \/ ~gate.refused,
         out # <<>>, out' = Tail(out), Head(out).type # "torn",
         applied' = IF Head(out).type = "cmd" THEN Append(applied, Head(out).value) ELSE applied
  PROVE  ConfigInv'
<1> SUFFICES ASSUME Current' PROVE AsSaved'
  BY DEF ConfigInv
<1>1. Current /\ ~Tearing
  BY DEF Current, Tearing
<1>2. /\ applied \in Seq(CommandNames) /\ saved \in Seq(CommandNames) /\ out \in Seq(Message)
  BY DEF IInv, TypeOK, HostTypes, QueueTypes, DaemonTypes
<1>3. SavedAs(applied, out, saved)
  BY <1>1, SavedAsAll DEF ConfigInv
<1>4. SavedAs(applied', out', saved)
  BY <1>2, <1>3, FirstRead
<1> QED
  BY <1>4, SavedAsAll

LEMMA DaemonReadsConfig == ASSUME IInv, ConfigInv, DaemonReads PROVE ConfigInv'
<1>1. CASE DaemonTorn
  BY <1>1, DisconnectedConfig DEF DaemonTorn
<1>2. CASE DaemonIgnores
  <2>1. ~Current'
    BY <1>2 DEF DaemonIgnores, daemonVars, Current
  <2> QED
    BY <2>1, Zenon DEF ConfigInv
<1>3. ASSUME ~DaemonTorn, ~DaemonIgnores
      PROVE  ConfigInv'
  <2>1. /\ UNCHANGED <<saved, link, reconnected, host>> /\ ~gate.refused
        /\ out # <<>> /\ out' = Tail(out)
    BY <1>3 DEF DaemonReads, DaemonHeader, DaemonCommand, DaemonIdentity, DaemonReady, DaemonLayout,
         DaemonSnapshot, DaemonOutput, DaemonStatus, DaemonFin, DaemonGets, Listening, daemonRest,
         hostVars, linkVars
  <2>2. /\ Head(out).type # "torn"
        /\ applied' = IF Head(out).type = "cmd" THEN Append(applied, Head(out).value) ELSE applied
    <3>1. CASE DaemonCommand
      BY <3>1 DEF DaemonCommand, DaemonGets, Value
    <3>2. CASE DaemonHeader \/ DaemonIdentity \/ DaemonReady \/ DaemonLayout \/ DaemonSnapshot
               \/ DaemonOutput \/ DaemonStatus \/ DaemonFin
      BY <3>2 DEF DaemonHeader, DaemonIdentity, DaemonReady, DaemonLayout,
           DaemonSnapshot, DaemonOutput, DaemonStatus, DaemonFin, DaemonGets
    <3> QED
      BY <1>3, <3>1, <3>2 DEF DaemonReads
  <2> QED
    BY <2>1, <2>2, ConfigDaemon
<1> QED
  BY <1>1, <1>2, <1>3

Configured == Arriving /\ ConfigInv

LEMMA StepsConfig == Configured /\ [Next]_vars => Configured'
<1> SUFFICES ASSUME Configured, [Next]_vars PROVE ConfigInv'
  BY StepsArrival DEF Configured
<1>1. IInv /\ ArrivalInv /\ ConfigInv
  BY DEF Configured, Arriving
<1>2. CASE HostReads    BY <1>1, <1>2, HostReadsConfig
<1>3. CASE DaemonReads  BY <1>1, <1>3, DaemonReadsConfig
<1>4. CASE Lost \/ DaemonEnds
  BY <1>1, <1>4, DisconnectedConfig DEF Lost, DaemonEnds
<1>5. CASE StatusTimer \/ CapabilityTimeout \/ StatusChanges \/ UNCHANGED vars
  BY <1>1, <1>5, TimersConfig
<1>6. CASE ExecCmd \/ Connect \/ ConnectFails
  BY <1>1, <1>6, ExecCmdConfig, ConnectConfig, ConnectFailsConfig
<1>7. CASE ServerLoop
  <2>1. FirstPane \in Panes /\ TRUE \in BOOLEAN
    BY SharingAssumption
  <2> QED
    BY <1>1, <1>7, <2>1, PanesConfig
<1>8. CASE \E p \in Panes : PaneOutput(p) \/ SelectWindow(p)
  <2>1. TRUE \in BOOLEAN
    OBVIOUS
  <2> QED
    BY <1>1, <1>8, <2>1, PaneOutputConfig, PanesConfig
<1>9. CASE \E p \in Panes, w \in BOOLEAN : OpenPane(p, w) \/ ClosePane(p, w)
  BY <1>1, <1>9, PanesConfig
<1> QED
  BY <1>2, <1>3, <1>4, <1>5, <1>6, <1>7, <1>8, <1>9, Zenon DEF Next

LEMMA FirstConfigured == Init => Configured
<1> SUFFICES ASSUME Init PROVE SavedAs(applied, out, saved)
  BY FirstArriving, SavedAsAll DEF Configured, ConfigInv
<1>1. applied = <<>> /\ saved = FirstCmds /\ out = Beginning(FirstCmds)
  BY DEF Init, Beginning
<1>2. FirstCmds \in Seq(CommandNames) /\ Len(FirstCmds) = 3 /\ DOMAIN FirstCmds = 1..3
      /\ \A i \in 1..3 : FirstCmds[i] \in CommandNames
  BY FirstCmdsTypes DEF FirstCmds
<1>3. \A i \in 1..3 : SameCommand(FirstCmds[i], FirstCmds[i])
  BY DEF SameCommand
<1>4. 3 \in Nat
  OBVIOUS
<1> DEFINE cmds == FirstCmds
<1> QED
  BY <1>1, <1>2, <1>3, <1>4, AllReplayed, Zenon

(* However many connections break, and when: what a daemon that listens has   *)
(* applied and what is on its way to it are the commands the host has saved,  *)
(* in their order, each once.                                                 *)
THEOREM ConfigComplete == Spec => []ConfigIntact
<1>1. Init => Configured
  BY FirstConfigured
<1>2. Configured /\ [Next]_vars => Configured'
  BY StepsConfig
<1>3. Configured => ConfigIntact
  BY DEF Configured, ConfigInv, ConfigIntact, Current, Listening
<1> QED
  BY <1>1, <1>2, <1>3, PTL DEF Spec

-----------------------------------------------------------------------------
(* The output of one pane, on its way                                        *)

NoPiece(q, p) == \A i \in DOMAIN q, n \in 1..MaxOutput : ~Piece(q, i, p, n)

LEMMA FlowNone ==
  ASSUME NEW q, NEW p, NEW b \in Nat, NEW w \in Nat, b <= w, NEW live, live => b = w, NoPiece(q, p)
  PROVE  Flow(b, q, w, live, p)
<1>1. b \in 0..w
  OBVIOUS
<1>2. \A i \in DOMAIN q, n \in 1..MaxOutput : ~Piece(q, i, p, n)
  BY DEF NoPiece
<1>3. live => (b + 1)..w = {}
  OBVIOUS
<1> QED
  BY <1>1, <1>2, <1>3, Zenon DEF Flow

(* What is queued is not a chunk of this pane.                               *)
LEMMA FlowMore ==
  ASSUME NEW q, NEW r, MoreOf(q, r, {}), NEW p,
         \A i \in DOMAIN r : i \in DOMAIN q \/ \A n \in 1..MaxOutput : ~Piece(r, i, p, n),
         NEW b, NEW w \in Nat, NEW v \in Nat, w <= v, NEW live, NEW still,
         still => v = w /\ (live \/ w = 0), Flow(b, q, w, live, p)
  PROVE  Flow(b, r, v, still, p)
<1>1. b \in 0..w /\ b \in 0..v /\ b \in Nat
  BY DEF Flow
<1>2. \A i \in DOMAIN q : i \in DOMAIN r /\ r[i] = q[i]
  BY DEF MoreOf
<1>3. \A i \in DOMAIN q : \A n : Piece(r, i, p, n) <=> Piece(q, i, p, n)
  BY <1>2, Zenon DEF Piece
<1>4. \A i \in DOMAIN r, n \in 1..MaxOutput : Piece(r, i, p, n) => i \in DOMAIN q /\ Piece(q, i, p, n)
  BY <1>3, Zenon
<1>5. ASSUME NEW i \in DOMAIN r, NEW n \in 1..MaxOutput, Piece(r, i, p, n)
      PROVE  /\ n > b /\ n <= v
             /\ \A m \in (b + 1)..(n - 1) : \E j \in DOMAIN r : j < i /\ Piece(r, j, p, m)
             /\ \A j \in DOMAIN r : j < i => ~Piece(r, j, p, n)
  <2>1. i \in DOMAIN q /\ Piece(q, i, p, n)
    BY <1>4, <1>5, Zenon
  <2>2. /\ n > b /\ n <= w
        /\ \A m \in (b + 1)..(n - 1) : \E j \in DOMAIN q : j < i /\ Piece(q, j, p, m)
        /\ \A j \in DOMAIN q : j < i => ~Piece(q, j, p, n)
    BY <2>1, Zenon DEF Flow
  <2>3. n <= v
    BY <2>2
  <2>4. \A m \in (b + 1)..(n - 1) : \E j \in DOMAIN r : j < i /\ Piece(r, j, p, m)
    BY <1>2, <1>3, <2>2, Zenon
  <2>5. \A j \in DOMAIN r : j < i => ~Piece(r, j, p, n)
    BY <1>4, <2>2, Zenon
  <2> QED
    BY <2>2, <2>3, <2>4, <2>5
<1>6. ASSUME still
      PROVE  \A n \in (b + 1)..v : \E i \in DOMAIN r : Piece(r, i, p, n)
  <2>1. CASE live
    <3>1. \A n \in (b + 1)..w : \E i \in DOMAIN q : Piece(q, i, p, n)
      BY <2>1, Zenon DEF Flow
    <3> QED
      BY <1>2, <1>3, <1>6, <3>1, Zenon
  <2>2. CASE w = 0
    <3>1. (b + 1)..v = {}
      BY <1>1, <1>6, <2>2
    <3> QED
      BY <3>1
  <2> QED
    BY <1>6, <2>1, <2>2
<1> QED
  BY <1>1, <1>5, <1>6, Zenon DEF Flow

LEMMA OnePiece ==
  ASSUME NEW q, NEW i, NEW p, NEW n, NEW m, Piece(q, i, p, n), Piece(q, i, p, m)
  PROVE  n = m
<1>1. Msg("pty", [pane |-> p, nth |-> n]).value.nth = n /\ Msg("pty", [pane |-> p, nth |-> m]).value.nth = m
  BY DEF Msg
<1> QED
  BY <1>1, Zenon DEF Piece

(* The next chunk is queued.                                                 *)
LEMMA FlowQueued ==
  ASSUME NEW q \in Seq(Message), NEW p \in Panes, NEW b, NEW w \in Nat, w + 1 <= MaxOutput, MaxOutput \in Nat, NEW live,
         Flow(b, q, w, TRUE, p)
  PROVE  Flow(b, Append(q, Msg("pty", [pane |-> p, nth |-> w + 1])), w + 1, live, p)
<1> DEFINE c == Msg("pty", [pane |-> p, nth |-> w + 1])
           r == Append(q, c)
           k == Len(q) + 1
<1>1. c \in Message
  <2>1. [pane |-> p, nth |-> w + 1] \in [pane : Panes, nth : 1..MaxOutput]
    OBVIOUS
  <2> QED
    BY <2>1, MessageTypes
<1>2. Piece(r, k, p, w + 1)
  <2> HIDE DEF c
  <2>1. r[k] = c
    BY <1>1
  <2> QED
    BY <2>1 DEF Piece, c
<1> HIDE DEF c
<1>3. /\ k \in Nat /\ DOMAIN q = 1..Len(q) /\ DOMAIN r = 1..Len(q) + 1 /\ k \in DOMAIN r
      /\ \A i \in DOMAIN q : i \in DOMAIN r /\ r[i] = q[i] /\ i < k
      /\ \A i \in DOMAIN r : i \in DOMAIN q \/ i = k
  BY <1>1
<1> HIDE DEF r, k
<1>4. \A i \in DOMAIN q : \A n : Piece(r, i, p, n) <=> Piece(q, i, p, n)
  BY <1>3, Zenon DEF Piece
<1>5. b \in 0..w /\ b \in Nat /\ b \in 0..w + 1
  BY DEF Flow
<1>6. \A n \in (b + 1)..w : \E i \in DOMAIN q : Piece(q, i, p, n)
  BY Zenon DEF Flow
<1>7. \A i \in DOMAIN q, n \in 1..MaxOutput : Piece(q, i, p, n) =>
       /\ n > b /\ n <= w
       /\ \A m \in (b + 1)..(n - 1) : \E j \in DOMAIN q : j < i /\ Piece(q, j, p, m)
       /\ \A j \in DOMAIN q : j < i => ~Piece(q, j, p, n)
  BY Zenon DEF Flow
<1>8. ASSUME NEW i \in DOMAIN r, NEW n \in 1..MaxOutput, Piece(r, i, p, n)
      PROVE  /\ n > b /\ n <= w + 1
             /\ \A m \in (b + 1)..(n - 1) : \E j \in DOMAIN r : j < i /\ Piece(r, j, p, m)
             /\ \A j \in DOMAIN r : j < i => ~Piece(r, j, p, n)
  <2>1. CASE i \in DOMAIN q
    <3>1. Piece(q, i, p, n)
      BY <1>4, <1>8, <2>1, Zenon
    <3>2. /\ n > b /\ n <= w
          /\ \A m \in (b + 1)..(n - 1) : \E j \in DOMAIN q : j < i /\ Piece(q, j, p, m)
          /\ \A j \in DOMAIN q : j < i => ~Piece(q, j, p, n)
      BY <1>7, <2>1, <3>1, Zenon
    <3>3. \A m \in (b + 1)..(n - 1) : \E j \in DOMAIN r : j < i /\ Piece(r, j, p, m)
      BY <1>3, <1>4, <3>2, Zenon
    <3>4. n <= w + 1
      BY <3>2
    <3>5. ~(k < i)
      BY <1>3, <2>1
    <3>6. \A j \in DOMAIN r : j < i => ~Piece(r, j, p, n)
      BY <1>3, <1>4, <3>2, <3>5, Zenon
    <3> QED
      BY <3>2, <3>3, <3>4, <3>6
  <2>2. CASE i = k
    <3>1. n = w + 1
      BY <1>2, <1>8, <2>2, OnePiece
    <3>2. n > b /\ n <= w + 1 /\ n - 1 = w
      BY <1>5, <3>1
    <3>3. \A m \in (b + 1)..(n - 1) : \E j \in DOMAIN r : j < i /\ Piece(r, j, p, m)
      BY <1>3, <1>4, <1>6, <2>2, <3>2, Zenon
    <3>4. ~(k < k) /\ ~(w + 1 <= w) /\ w + 1 \in 1..MaxOutput
      BY <1>3
    <3>5. \A j \in DOMAIN r : j < i => ~Piece(r, j, p, n)
      BY <1>3, <1>4, <1>7, <2>2, <3>1, <3>4, Zenon
    <3> QED
      BY <3>2, <3>3, <3>5
  <2> QED
    BY <1>3, <2>1, <2>2
<1>9. \A n \in (b + 1)..(w + 1) : \E i \in DOMAIN r : Piece(r, i, p, n)
  <2>1. \A n \in (b + 1)..(w + 1) : n \in (b + 1)..w \/ n = w + 1
    BY <1>5
  <2> QED
    BY <1>2, <1>3, <1>4, <1>6, <2>1, Zenon
<1> QED
  BY <1>5, <1>8, <1>9, Zenon DEF Flow, r, c

(* Something else is read.                                                   *)
LEMMA FlowRest ==
  ASSUME NEW q, NEW t, RestOf(q, t), NEW p, \A n \in 1..MaxOutput : ~Piece(q, 1, p, n),
         NEW b, NEW w \in Nat, w <= MaxOutput, MaxOutput \in Nat, NEW live, NEW still, still => live, Flow(b, q, w, live, p)
  PROVE  Flow(b, t, w, still, p)
<1>1. b \in 0..w /\ b \in Nat
  BY DEF Flow
<1>2. \A i \in DOMAIN t : \A n : i + 1 \in DOMAIN q /\ (Piece(t, i, p, n) <=> Piece(q, i + 1, p, n))
  BY Zenon DEF Piece, RestOf
<1>3. \A i, k \in DOMAIN t : k + 1 < i + 1 <=> k < i
  BY Zenon DEF RestOf
<1>4. \A j \in DOMAIN q : j = 1 \/ \E k \in DOMAIN t : j = k + 1
  BY Zenon DEF RestOf
<1>5. \A i \in DOMAIN q, n \in 1..MaxOutput : Piece(q, i, p, n) =>
       /\ n > b /\ n <= w
       /\ \A m \in (b + 1)..(n - 1) : \E j \in DOMAIN q : j < i /\ Piece(q, j, p, m)
       /\ \A j \in DOMAIN q : j < i => ~Piece(q, j, p, n)
  BY Zenon DEF Flow
<1>6. ASSUME NEW i \in DOMAIN t, NEW n \in 1..MaxOutput, Piece(t, i, p, n)
      PROVE  /\ n > b /\ n <= w
             /\ \A m \in (b + 1)..(n - 1) : \E j \in DOMAIN t : j < i /\ Piece(t, j, p, m)
             /\ \A j \in DOMAIN t : j < i => ~Piece(t, j, p, n)
  <2>1. i + 1 \in DOMAIN q /\ Piece(q, i + 1, p, n)
    BY <1>2, <1>6, Zenon
  <2>2. /\ n > b /\ n <= w
        /\ \A m \in (b + 1)..(n - 1) : \E j \in DOMAIN q : j < i + 1 /\ Piece(q, j, p, m)
        /\ \A j \in DOMAIN q : j < i + 1 => ~Piece(q, j, p, n)
    BY <1>5, <2>1, Zenon
  <2>3. \A m \in (b + 1)..(n - 1) : \E j \in DOMAIN t : j < i /\ Piece(t, j, p, m)
    <3> SUFFICES ASSUME NEW m \in (b + 1)..(n - 1) PROVE \E j \in DOMAIN t : j < i /\ Piece(t, j, p, m)
      OBVIOUS
    <3>1. m \in 1..MaxOutput
      BY <1>1, <2>2
    <3>2. PICK j \in DOMAIN q : j < i + 1 /\ Piece(q, j, p, m)
      BY <2>2, Zenon
    <3>3. j # 1
      BY <3>1, <3>2, Zenon
    <3>4. PICK k \in DOMAIN t : j = k + 1
      BY <1>4, <3>2, <3>3, Zenon
    <3>5. k + 1 < i + 1 /\ Piece(q, k + 1, p, m)
      BY <3>2, <3>4
    <3> QED
      BY <1>2, <1>3, <3>4, <3>5, Zenon
  <2>4. \A j \in DOMAIN t : j < i => ~Piece(t, j, p, n)
    BY <1>2, <1>3, <2>2, Zenon
  <2> QED
    BY <2>2, <2>3, <2>4
<1>7. ASSUME still
      PROVE  \A n \in (b + 1)..w : \E i \in DOMAIN t : Piece(t, i, p, n)
  <2> SUFFICES ASSUME NEW n \in (b + 1)..w PROVE \E i \in DOMAIN t : Piece(t, i, p, n)
    OBVIOUS
  <2>1. n \in 1..MaxOutput
    BY <1>1
  <2>2. PICK i \in DOMAIN q : Piece(q, i, p, n)
    BY <1>7, Zenon DEF Flow
  <2>3. i # 1
    BY <2>1, <2>2, Zenon
  <2> QED
    BY <1>2, <1>4, <2>2, <2>3, Zenon
<1> QED
  BY <1>1, <1>6, <1>7, Zenon DEF Flow

(* The chunk that is first is the next one, and is read.                     *)
LEMMA FlowRead ==
  ASSUME NEW q, NEW t, RestOf(q, t), NEW p, NEW n \in 1..MaxOutput, Piece(q, 1, p, n),
         NEW b, NEW w \in Nat, w <= MaxOutput, MaxOutput \in Nat, NEW live, NEW still, still => live, Flow(b, q, w, live, p)
  PROVE  n = b + 1 /\ Flow(n, t, w, still, p)
<1>1. b \in 0..w /\ b \in Nat
  BY DEF Flow
<1>2. \A i \in DOMAIN t : \A m : i + 1 \in DOMAIN q /\ (Piece(t, i, p, m) <=> Piece(q, i + 1, p, m))
  BY Zenon DEF Piece, RestOf
<1>3. /\ \A i, k \in DOMAIN t : k + 1 < i + 1 <=> k < i
      /\ \A i \in DOMAIN t : 1 < i + 1
      /\ 1 \in DOMAIN q
  BY Zenon DEF RestOf
<1>4. \A j \in DOMAIN q : j = 1 \/ \E k \in DOMAIN t : j = k + 1
  BY Zenon DEF RestOf
<1>5. \A i \in DOMAIN q, m \in 1..MaxOutput : Piece(q, i, p, m) =>
       /\ m > b /\ m <= w
       /\ \A l \in (b + 1)..(m - 1) : \E j \in DOMAIN q : j < i /\ Piece(q, j, p, l)
       /\ \A j \in DOMAIN q : j < i => ~Piece(q, j, p, m)
  BY Zenon DEF Flow
<1>6. n > b /\ n <= w /\ \A l \in (b + 1)..(n - 1) : \E j \in DOMAIN q : j < 1 /\ Piece(q, j, p, l)
  BY <1>3, <1>5, Zenon
<1>7. n = b + 1
  <2>1. \A j \in DOMAIN t : ~(j + 1 < 1)
    BY Zenon DEF RestOf
  <2>2. \A j \in DOMAIN q : ~(j < 1)
    <3>1. ~(1 < 1)
      OBVIOUS
    <3> QED
      BY <1>4, <2>1, <3>1, Zenon
  <2>3. ~(b + 1 \in (b + 1)..(n - 1))
    BY <1>6, <2>2, Zenon
  <2> QED
    BY <1>1, <1>6, <2>3
<1>8. ASSUME NEW i \in DOMAIN t, NEW m \in 1..MaxOutput, Piece(t, i, p, m)
      PROVE  /\ m > n /\ m <= w
             /\ \A l \in (n + 1)..(m - 1) : \E j \in DOMAIN t : j < i /\ Piece(t, j, p, l)
             /\ \A j \in DOMAIN t : j < i => ~Piece(t, j, p, m)
  <2>1. i + 1 \in DOMAIN q /\ Piece(q, i + 1, p, m) /\ 1 < i + 1
    BY <1>2, <1>3, <1>8, Zenon
  <2>2. /\ m > b /\ m <= w
        /\ \A l \in (b + 1)..(m - 1) : \E j \in DOMAIN q : j < i + 1 /\ Piece(q, j, p, l)
        /\ \A j \in DOMAIN q : j < i + 1 => ~Piece(q, j, p, m)
    BY <1>5, <2>1, Zenon
  <2>3. m # n
    <3>1. ~Piece(q, 1, p, m)
      BY <1>3, <2>1, <2>2, Zenon
    <3> QED
      BY <3>1
  <2>4. m > n
    BY <1>1, <1>7, <2>2, <2>3
  <2>5. \A l \in (n + 1)..(m - 1) : \E j \in DOMAIN t : j < i /\ Piece(t, j, p, l)
    <3> SUFFICES ASSUME NEW l \in (n + 1)..(m - 1) PROVE \E j \in DOMAIN t : j < i /\ Piece(t, j, p, l)
      OBVIOUS
    <3>1. l \in (b + 1)..(m - 1) /\ l # n
      BY <1>1, <1>7
    <3>2. PICK j \in DOMAIN q : j < i + 1 /\ Piece(q, j, p, l)
      BY <2>2, <3>1, Zenon
    <3>3. j # 1
      BY <3>1, <3>2, OnePiece, Zenon
    <3>4. PICK k \in DOMAIN t : j = k + 1
      BY <1>4, <3>2, <3>3, Zenon
    <3>5. k + 1 < i + 1 /\ Piece(q, k + 1, p, l)
      BY <3>2, <3>4
    <3> QED
      BY <1>2, <1>3, <3>4, <3>5, Zenon
  <2>6. \A j \in DOMAIN t : j < i => ~Piece(t, j, p, m)
    BY <1>2, <1>3, <2>2, Zenon
  <2> QED
    BY <2>2, <2>4, <2>5, <2>6
<1>9. ASSUME still
      PROVE  \A m \in (n + 1)..w : \E i \in DOMAIN t : Piece(t, i, p, m)
  <2> SUFFICES ASSUME NEW m \in (n + 1)..w PROVE \E i \in DOMAIN t : Piece(t, i, p, m)
    OBVIOUS
  <2>1. m \in (b + 1)..w /\ m # n
    BY <1>1, <1>7
  <2>2. PICK i \in DOMAIN q : Piece(q, i, p, m)
    BY <1>9, <2>1, Zenon DEF Flow
  <2>3. i # 1
    BY <2>1, <2>2, OnePiece, Zenon
  <2> QED
    BY <1>2, <1>4, <2>2, <2>3, Zenon
<1>10. n \in 0..w
  BY <1>6
<1> QED
  BY <1>7, <1>8, <1>9, <1>10, Zenon DEF Flow

-----------------------------------------------------------------------------
(* What the host adds to the picture                                         *)

(* All panes are in the session that is shared.                              *)
OneSession == \A p, q \in Panes : Session[p] = Session[q]

LEMMA AllShared ==
  ASSUME OneSession, NEW ps \in SUBSET Panes
  PROVE  FirstByName(ps) = ps /\ \A p \in Panes : PanesOf(Session[p], ps) = ps
<1>1. \A p \in Panes : Session[p] \in Nat
  BY SharingAssumption
<1>2. \A p, q \in ps : Session[p] <= Session[q]
  <2> SUFFICES ASSUME NEW p \in ps, NEW q \in ps PROVE Session[p] <= Session[q]
    OBVIOUS
  <2>1. Session[p] = Session[q] /\ Session[p] \in Nat
    BY <1>1 DEF OneSession
  <2> QED
    BY <2>1
<1>3. FirstByName(ps) = ps
  BY <1>2 DEF FirstByName
<1>4. \A p \in Panes, q \in ps : Session[q] = Session[p]
  BY DEF OneSession
<1> QED
  BY <1>3, <1>4 DEF PanesOf

(* r is q, perhaps torn, with more elements.                                 *)
Extends(q, r) ==
  /\ \A i \in DOMAIN q : i \in DOMAIN r /\ (r[i] = q[i] \/ r[i].type = "torn")
  /\ \A i \in DOMAIN r : i \in DOMAIN q \/ \A j \in DOMAIN q : Later(i, j)

LEMMA TornMentionsNone ==
  ASSUME NEW m, m.type = "torn", NEW p
  PROVE  ~Mentions(m, p)
  BY DEF Mentions

LEMMA LifeHost ==
  ASSUME LifeInv, UNCHANGED <<view, pending>>, Extends(out, out'),
         \A i \in DOMAIN out' : i \in DOMAIN out \/
           /\ \A p \in Panes : Mentions(out'[i], p) => p \in open'
           /\ out'[i].type = "layout" => out'[i].value = open',
         open' \cap closed' = {}, closed \subseteq closed',
         open \cup closed \subseteq open' \cup closed',
         \A p \in Panes \ (open' \cup closed') : written'[p] = written[p],
         sent' \subseteq sent \cup open'
  PROVE  LifeInv'
<1>1. \A i \in DOMAIN out : \A p : out[i].type # "torn" \/ ~Mentions(out[i], p)
  BY TornMentionsNone
<1>2. \A i \in DOMAIN out : \A p : Mentions(out'[i], p) => Mentions(out[i], p)
  <2> SUFFICES ASSUME NEW i \in DOMAIN out, NEW p, Mentions(out'[i], p) PROVE Mentions(out[i], p)
    OBVIOUS
  <2>1. CASE out'[i] = out[i]
    BY <2>1
  <2>2. CASE out'[i].type = "torn"
    BY <2>2, TornMentionsNone
  <2> QED
    BY <2>1, <2>2 DEF Extends
<1>3. ASSUME NEW p \in Panes \ (open' \cup closed')
      PROVE  /\ written'[p] = 0 /\ pending'[p] = <<>> /\ p \notin DOMAIN view' /\ p \notin sent'
             /\ \A i \in DOMAIN out' : ~Mentions(out'[i], p)
  <2>1. p \in Panes \ (open \cup closed)
    OBVIOUS
  <2>2. /\ written[p] = 0 /\ pending[p] = <<>> /\ p \notin DOMAIN view /\ p \notin sent
        /\ \A i \in DOMAIN out : ~Mentions(out[i], p)
    BY <2>1, Zenon DEF LifeInv
  <2>3. \A i \in DOMAIN out' : ~Mentions(out'[i], p)
    BY <1>2, <2>2, Zenon
  <2> QED
    BY <2>2, <2>3
<1>4. ASSUME NEW i \in DOMAIN out', NEW p \in Panes, out'[i].type = "layout", p \notin out'[i].value
      PROVE  NotYet(p, i)' \/ NoMore(p, i)'
  <2>1. CASE i \in DOMAIN out
    <3>1. out'[i] = out[i]
      BY <1>4, <2>1 DEF Extends
    <3>2. NotYet(p, i) \/ NoMore(p, i)
      BY <1>4, <2>1, <3>1, Zenon DEF LifeInv
    <3>3. CASE NotYet(p, i)
      <4>1. \A j \in DOMAIN out' : j < i => j \in DOMAIN out
        BY <2>1, Zenon DEF Extends, Later
      <4>2. \A j \in DOMAIN out' : j < i => ~Mentions(out'[j], p)
        BY <1>2, <3>3, <4>1, Zenon DEF NotYet
      <4>3. p \notin DOMAIN view' /\ pending'[p] = <<>>
        BY <3>3 DEF NotYet
      <4> QED
        BY <4>2, <4>3, Zenon DEF NotYet
    <3>4. CASE NoMore(p, i)
      <4>1. p \in closed /\ p \in closed' /\ p \notin open'
        BY <3>4 DEF NoMore
      <4>2. \A j \in DOMAIN out' : i < j => ~Mentions(out'[j], p)
        BY <1>2, <3>4, <4>1, Zenon DEF NoMore
      <4> QED
        BY <4>1, <4>2, Zenon DEF NoMore
    <3> QED
      BY <3>2, <3>3, <3>4
  <2>2. CASE i \notin DOMAIN out
    <3>1. p \notin open'
      BY <1>4, <2>2, Zenon
    <3>2. CASE p \in closed'
      <4>1. \A j \in DOMAIN out' : i < j => j \notin DOMAIN out
        BY <2>2, Zenon DEF Extends, Later
      <4>2. \A j \in DOMAIN out' : i < j => ~Mentions(out'[j], p)
        BY <3>1, <4>1, Zenon
      <4> QED
        BY <3>2, <4>2, Zenon DEF NoMore
    <3>3. CASE p \notin closed'
      <4>1. p \in Panes \ (open' \cup closed')
        BY <3>1, <3>3
      <4>2. /\ pending'[p] = <<>> /\ p \notin DOMAIN view'
            /\ \A j \in DOMAIN out' : ~Mentions(out'[j], p)
        BY <1>3, <4>1, Zenon
      <4> QED
        BY <4>2, Zenon DEF NotYet
    <3> QED
      BY <3>2, <3>3
  <2> QED
    BY <2>1, <2>2
<1> QED
  BY <1>3, <1>4, Zenon DEF LifeInv

(* Nothing about panes is on its way or has arrived.                         *)
LEMMA LifeQuiet ==
  ASSUME LifeInv, NoneOf(out', Bulk), view' = <<>>, pending' = NothingKept,
         UNCHANGED paneVars, sent' \in {{}, sent}
  PROVE  LifeInv'
<1>1. \A i \in DOMAIN out' : \A p : ~Mentions(out'[i], p) /\ out'[i].type # "layout"
  BY DEF Mentions, NoneOf, Bulk
<1>2. DOMAIN view' = {} /\ \A p \in Panes : pending'[p] = <<>>
  BY DEF NothingKept
<1>3. UNCHANGED <<open, closed, written>>
  BY DEF paneVars
<1>4. open' \cap closed' = {}
  BY <1>3 DEF LifeInv
<1>5. \A p \in Panes \ (open' \cup closed') : written'[p] = 0 /\ p \notin sent'
  BY <1>3, Zenon DEF LifeInv
<1>6. \A p \in Panes \ (open' \cup closed') :
       /\ written'[p] = 0 /\ pending'[p] = <<>> /\ p \notin DOMAIN view' /\ p \notin sent'
       /\ \A i \in DOMAIN out' : ~Mentions(out'[i], p)
  BY <1>1, <1>2, <1>5
<1>7. \A i \in DOMAIN out', p \in Panes : out'[i].type = "layout" /\ p \notin out'[i].value =>
       NotYet(p, i)' \/ NoMore(p, i)'
  BY <1>1
<1> QED
  BY <1>4, <1>6, <1>7, Zenon DEF LifeInv

(* The layout that is queued last is the one that was sent last.             *)
LEMMA LastHost ==
  ASSUME LastInv, UNCHANGED view, MoreOf(out, out', {}),
         CanShow' /\ ~Tearing' => CanShow /\ ~Tearing,
         \/ sent' = sent /\ \A i \in DOMAIN out' : i \in DOMAIN out \/ out'[i].type # "layout"
         \/ \E i \in DOMAIN out' : /\ out'[i] = Msg("layout", sent')
                                  /\ \A j \in DOMAIN out' : i < j => out'[j].type # "layout"
  PROVE  LastInv'
<1> SUFFICES ASSUME CanShow', ~Tearing',
                    sent' = sent /\ \A i \in DOMAIN out' : i \in DOMAIN out \/ out'[i].type # "layout"
             PROVE  \/ \E i \in DOMAIN out' : /\ out'[i] = Msg("layout", sent')
                                             /\ \A j \in DOMAIN out' : i < j => out'[j].type # "layout"
                    \/ NoneOf(out', {"layout"}) /\ DOMAIN view' = sent'
  BY Zenon DEF LastInv
<1>1. \/ \E i \in DOMAIN out : /\ out[i] = Msg("layout", sent)
                              /\ \A j \in DOMAIN out : i < j => out[j].type # "layout"
      \/ NoneOf(out, {"layout"}) /\ DOMAIN view = sent
  BY Zenon DEF LastInv
<1>2. \A i \in DOMAIN out : i \in DOMAIN out' /\ out'[i] = out[i]
  BY DEF MoreOf
<1>3. CASE \E i \in DOMAIN out : /\ out[i] = Msg("layout", sent)
                                /\ \A j \in DOMAIN out : i < j => out[j].type # "layout"
  <2>1. PICK i \in DOMAIN out : /\ out[i] = Msg("layout", sent)
                               /\ \A j \in DOMAIN out : i < j => out[j].type # "layout"
    BY <1>3
  <2>2. \A j \in DOMAIN out' : i < j => out'[j].type # "layout"
    BY <1>2, <2>1
  <2>3. i \in DOMAIN out' /\ out'[i] = Msg("layout", sent')
    BY <1>2, <2>1
  <2> QED
    BY <2>2, <2>3
<1>4. CASE NoneOf(out, {"layout"}) /\ DOMAIN view = sent
  <2>1. \A i \in DOMAIN out' : out'[i].type # "layout"
    BY <1>2, <1>4 DEF NoneOf
  <2>2. DOMAIN view' = sent'
    BY <1>4
  <2> QED
    BY <2>1, <2>2 DEF NoneOf
<1> QED
  BY <1>1, <1>3, <1>4

-----------------------------------------------------------------------------
(* What the daemon takes from the picture                                    *)

LEMMA LifeDaemon ==
  ASSUME LifeInv, UNCHANGED <<paneVars, sent>>, RestOf(out, out'),
         \A p \in Panes : ~Mentions(out[1], p) /\ p \notin DOMAIN view /\ pending[p] = <<>> =>
           p \notin DOMAIN view' /\ pending'[p] = <<>>
  PROVE  LifeInv'
<1>1. UNCHANGED <<open, closed, written>>
  BY DEF paneVars
<1>2. open' \cap closed' = {}
  BY <1>1 DEF LifeInv
<1>3. \A i \in DOMAIN out' : i + 1 \in DOMAIN out /\ 1 < i + 1 /\ out'[i] = out[i + 1]
  BY Zenon DEF RestOf
<1>4. 1 \in DOMAIN out
  BY DEF RestOf
<1>5. ASSUME NEW p \in Panes \ (open' \cup closed')
      PROVE  /\ written'[p] = 0 /\ pending'[p] = <<>> /\ p \notin DOMAIN view' /\ p \notin sent'
             /\ \A i \in DOMAIN out' : ~Mentions(out'[i], p)
  <2>1. /\ written[p] = 0 /\ pending[p] = <<>> /\ p \notin DOMAIN view /\ p \notin sent
        /\ \A i \in DOMAIN out : ~Mentions(out[i], p)
    BY <1>1, Zenon DEF LifeInv
  <2>2. p \notin DOMAIN view' /\ pending'[p] = <<>>
    BY <1>4, <2>1
  <2>3. \A i \in DOMAIN out' : ~Mentions(out'[i], p)
    BY <1>3, <2>1, Zenon
  <2> QED
    BY <1>1, <2>1, <2>2, <2>3
<1>6. ASSUME NEW i \in DOMAIN out', NEW p \in Panes, out'[i].type = "layout", p \notin out'[i].value
      PROVE  NotYet(p, i)' \/ NoMore(p, i)'
  <2>1. NotYet(p, i + 1) \/ NoMore(p, i + 1)
    BY <1>3, <1>6, Zenon DEF LifeInv
  <2>2. \A k \in DOMAIN out' : (k + 1 < i + 1 <=> k < i) /\ (i + 1 < k + 1 <=> i < k)
    BY Zenon DEF RestOf
  <2>3. CASE NotYet(p, i + 1)
    <3>1. p \notin DOMAIN view /\ pending[p] = <<>> /\ \A j \in DOMAIN out : j < i + 1 => ~Mentions(out[j], p)
      BY <2>3, Zenon DEF NotYet
    <3>2. ~Mentions(out[1], p)
      BY <1>3, <1>4, <3>1, Zenon
    <3>3. p \notin DOMAIN view' /\ pending'[p] = <<>>
      BY <3>1, <3>2
    <3>4. \A j \in DOMAIN out' : j < i => ~Mentions(out'[j], p)
      BY <1>3, <2>2, <3>1, Zenon
    <3> QED
      BY <3>3, <3>4, Zenon DEF NotYet
  <2>4. CASE NoMore(p, i + 1)
    <3>1. p \in closed'
      BY <1>1, <2>4 DEF NoMore
    <3>2. \A j \in DOMAIN out' : i < j => ~Mentions(out'[j], p)
      BY <1>3, <2>2, <2>4, Zenon DEF NoMore
    <3> QED
      BY <3>1, <3>2, Zenon DEF NoMore
  <2> QED
    BY <2>1, <2>3, <2>4
<1> QED
  BY <1>2, <1>5, <1>6, Zenon DEF LifeInv

LEMMA LastDaemon ==
  ASSUME LastInv, ~Tearing, UNCHANGED <<host, sent>>, RestOf(out, out'),
         DOMAIN view' = IF out[1].type = "layout" THEN out[1].value ELSE DOMAIN view
  PROVE  LastInv'
<1> SUFFICES ASSUME CanShow
             PROVE  \/ \E i \in DOMAIN out' : /\ out'[i] = Msg("layout", sent)
                                             /\ \A j \in DOMAIN out' : i < j => out'[j].type # "layout"
                    \/ NoneOf(out', {"layout"}) /\ DOMAIN view' = sent
  BY Zenon DEF LastInv, CanShow
<1>1. /\ 1 \in DOMAIN out
      /\ \A i \in DOMAIN out' : i + 1 \in DOMAIN out /\ 1 < i + 1 /\ out'[i] = out[i + 1]
      /\ \A j \in DOMAIN out : j = 1 \/ \E k \in DOMAIN out' : j = k + 1
      /\ \A i, k \in DOMAIN out' : k + 1 < i + 1 <=> k < i
  BY Zenon DEF RestOf
<1>2. \/ \E i \in DOMAIN out : /\ out[i] = Msg("layout", sent)
                              /\ \A j \in DOMAIN out : i < j => out[j].type # "layout"
      \/ NoneOf(out, {"layout"}) /\ DOMAIN view = sent
  BY Zenon DEF LastInv
<1>3. CASE \E i \in DOMAIN out : /\ out[i] = Msg("layout", sent)
                                /\ \A j \in DOMAIN out : i < j => out[j].type # "layout"
  <2>1. PICK i \in DOMAIN out : /\ out[i] = Msg("layout", sent)
                               /\ \A j \in DOMAIN out : i < j => out[j].type # "layout"
    BY <1>3, Zenon
  <2>2. CASE i = 1
    <3>1. out[1].type = "layout" /\ out[1].value = sent
      BY <2>1, <2>2 DEF Msg
    <3>2. \A j \in DOMAIN out' : out'[j].type # "layout"
      BY <1>1, <2>1, <2>2, Zenon
    <3> QED
      BY <3>1, <3>2, Zenon DEF NoneOf
  <2>3. CASE i # 1
    <3>1. PICK k \in DOMAIN out' : i = k + 1
      BY <1>1, <2>3, Zenon
    <3>2. out'[k] = Msg("layout", sent)
      BY <1>1, <2>1, <3>1, Zenon
    <3>3. \A j \in DOMAIN out' : k < j => out'[j].type # "layout"
      BY <1>1, <2>1, <3>1, Zenon
    <3> QED
      BY <3>2, <3>3
  <2> QED
    BY <2>2, <2>3
<1>4. CASE NoneOf(out, {"layout"}) /\ DOMAIN view = sent
  <2>1. \A j \in DOMAIN out : out[j].type # "layout"
    BY <1>4 DEF NoneOf
  <2>2. \A j \in DOMAIN out' : out'[j].type # "layout"
    BY <1>1, <2>1, Zenon
  <2>3. DOMAIN view' = sent
    BY <1>1, <1>4, <2>1
  <2> QED
    BY <2>2, <2>3 DEF NoneOf
<1> QED
  BY <1>2, <1>3, <1>4

-----------------------------------------------------------------------------
(* What screens still get                                                    *)

LEMMA ScreenTypes ==
  ASSUME IInv
  PROVE  /\ out \in Seq(Message) /\ MaxOutput \in Nat
         /\ \A p \in Panes : written[p] \in 0..MaxOutput /\ written[p] \in Nat /\ written[p] <= MaxOutput
         /\ \A p \in Panes : pending[p] \in Seq(1..MaxOutput)
         /\ \A p \in DOMAIN view : p \in Panes /\ view[p] \in Screens
<1>1. MaxOutput \in Nat
  BY SharingAssumption
<1>2. out \in Seq(Message)
  BY DEF IInv, TypeOK, QueueTypes
<1>3. written \in [Panes -> 0..MaxOutput]
  BY DEF IInv, TypeOK, HostTypes
<1>4. pending \in [Panes -> Seq(1..MaxOutput)] /\ view \in UNION {[ps -> Screens] : ps \in SUBSET Panes}
  BY DEF IInv, TypeOK, DaemonTypes
<1>5. \A p \in DOMAIN view : p \in Panes /\ view[p] \in Screens
  <2> HIDE DEF Screens
  <2> QED
    BY <1>4
<1> QED
  BY <1>1, <1>2, <1>3, <1>4, <1>5

LEMMA NoChunk ==
  ASSUME NEW q, NEW i, q[i].type # "pty", NEW p, NEW n
  PROVE  ~Piece(q, i, p, n)
  BY DEF Piece, Msg

(* Nothing about panes is on its way or has arrived.                         *)
LEMMA ScreenQuiet ==
  ASSUME IInv, NoneOf(out, Bulk), view = <<>>, pending = NothingKept, ~CanShow
  PROVE  LastInv /\ ScreenInv
<1>1. \A p \in Panes : written[p] \in Nat
  BY ScreenTypes
<1>2. DOMAIN view = {} /\ \A p \in Panes : Len(pending[p]) = 0 /\ DOMAIN pending[p] = {}
  BY DEF NothingKept
<1>3. \A i \in DOMAIN out : out[i].type # "pty" /\ out[i].type # "snapshot"
  BY DEF NoneOf, Bulk
<1>4. \A p : NoPiece(out, p)
  BY <1>3, NoChunk, Zenon DEF NoPiece
<1>5. ASSUME NEW p \in Panes PROVE Continues(view, p)
  <2>1. Base(view, pending, p) = 0
    BY <1>2 DEF Base
  <2>2. 0 <= written[p] /\ ~Listed(p)
    BY <1>1 DEF Listed
  <2>3. Flow(0, out, written[p], Listed(p), p)
    <3> HIDE DEF Listed
    <3> QED
      BY <1>1, <1>4, <2>2, FlowNone
  <2> QED
    BY <2>1, <2>3 DEF Continues
<1>6. ScreenInv
  BY <1>2, <1>3, <1>5, Zenon DEF ScreenInv
<1> QED
  BY <1>6 DEF LastInv

-----------------------------------------------------------------------------
(* Each pane's output, when the host queues                                  *)

LEMMA ScreenNext ==
  ASSUME \A p \in DOMAIN view' : view'[p] # Garbled,
         ~Tearing' => \A p \in Panes : \A i \in DOMAIN pending'[p] : pending'[p][i] = i,
         ~Tearing' /\ NoneOf(out', {"snapshot"}) =>
           \A p \in Panes : Flow(Base(view', pending', p), out', written'[p], Listed(p)', p),
         ~Tearing' => \A k \in DOMAIN out' : out'[k].type = "snapshot" =>
           \A p \in Panes : Flow(Base(out'[k].value, pending', p), out', written'[p], Listed(p)', p)
  PROVE  ScreenInv'
<1> HIDE DEF Tearing, Listed, Base, Flow
<1> QED
  BY Zenon DEF ScreenInv, Continues

(* A chunk of p is queued, or nothing of it.                                 *)
Heard(p) == \A b : Flow(b, out, written[p], Listed(p), p) => Flow(b, out', written'[p], Listed(p)', p)

LEMMA Unheard ==
  ASSUME IInv, IInv', MoreOf(out, out', {}), NEW p \in Panes,
         \A i \in DOMAIN out' : i \in DOMAIN out \/ \A n \in 1..MaxOutput : ~Piece(out', i, p, n),
         written[p] <= written'[p],
         Listed(p)' => written'[p] = written[p] /\ (Listed(p) \/ written[p] = 0)
  PROVE  Heard(p)
<1>1. written[p] \in Nat /\ written'[p] \in Nat
  <2>1. written' \in [Panes -> 0..MaxOutput]
    BY DEF IInv, TypeOK, HostTypes
  <2> QED
    BY <2>1, ScreenTypes
<1> DEFINE w == written[p]
           v == written'[p]
           live == Listed(p)
           still == Listed(p)'
           r == out'
<1>2. /\ \A i \in DOMAIN r : i \in DOMAIN out \/ \A n \in 1..MaxOutput : ~Piece(r, i, p, n)
      /\ w <= v /\ (still => v = w /\ (live \/ w = 0))
      /\ w \in Nat /\ v \in Nat /\ MoreOf(out, r, {})
  BY <1>1
<1> HIDE DEF w, v, live, still, r
<1>3. \A b : Flow(b, out, w, live, p) => Flow(b, r, v, still, p)
  BY <1>2, FlowMore
<1> QED
  BY <1>3, Zenon DEF Heard, w, v, live, still, r

LEMMA ScreenHost ==
  ASSUME ScreenInv, UNCHANGED <<view, pending>>,
         ~Tearing' => /\ MoreOf(out, out', Snapshots)
                      /\ \A m \in DOMAIN out' : out'[m] \in Message
                      /\ \A p \in Panes : Heard(p)
  PROVE  ScreenInv'
<1>1. \A p \in DOMAIN view' : view'[p] # Garbled
  BY DEF ScreenInv
<1>2. ASSUME ~Tearing'
      PROVE  /\ \A p \in Panes : \A i \in DOMAIN pending'[p] : pending'[p][i] = i
             /\ NoneOf(out', {"snapshot"}) =>
                  \A p \in Panes : Flow(Base(view', pending', p), out', written'[p], Listed(p)', p)
             /\ \A k \in DOMAIN out' : out'[k].type = "snapshot" =>
                  \A p \in Panes : Flow(Base(out'[k].value, pending', p), out', written'[p], Listed(p)', p)
  <2>1. ~Tearing
    BY <1>2, StillWhole
  <2>2. \A i \in DOMAIN out : i \in DOMAIN out' /\ out'[i] = out[i]
    BY <1>2 DEF MoreOf
  <2>3. \A i \in DOMAIN out' : out'[i].type = "snapshot" => i \in DOMAIN out
    BY <1>2, Zenon DEF MoreOf, Snapshots
  <2>4. \A p \in Panes : \A b : Flow(b, out, written[p], Listed(p), p) => Flow(b, out', written'[p], Listed(p)', p)
    BY <1>2, Zenon DEF Heard
  <2>5. \A p \in Panes : \A i \in DOMAIN pending'[p] : pending'[p][i] = i
    BY <2>1, Zenon DEF ScreenInv
  <2>6. NoneOf(out', {"snapshot"}) => \A p \in Panes : Flow(Base(view, pending, p), out, written[p], Listed(p), p)
    <3>1. NoneOf(out', {"snapshot"}) => NoneOf(out, {"snapshot"})
      BY <2>2, Zenon DEF NoneOf
    <3> QED
      BY <2>1, <3>1, Zenon DEF ScreenInv, Continues
  <2>7. \A k \in DOMAIN out' : out'[k].type = "snapshot" =>
          \A p \in Panes : Flow(Base(out'[k].value, pending, p), out, written[p], Listed(p), p)
    BY <2>1, <2>2, <2>3, Zenon DEF ScreenInv, Continues
  <2>8. view' = view /\ pending' = pending
    OBVIOUS
  <2>9. NoneOf(out', {"snapshot"}) =>
          \A p \in Panes : Flow(Base(view', pending', p), out', written'[p], Listed(p)', p)
    BY <2>4, <2>6, <2>8, Zenon
  <2>10. \A k \in DOMAIN out' : out'[k].type = "snapshot" =>
           \A p \in Panes : Flow(Base(out'[k].value, pending', p), out', written'[p], Listed(p)', p)
    BY <2>4, <2>7, <2>8, Zenon
  <2> QED
    BY <2>5, <2>9, <2>10
<1> HIDE DEF Tearing, Listed, Base, Flow
<1> QED
  BY <1>1, <1>2, ScreenNext, Zenon

-----------------------------------------------------------------------------
(* Each pane's output, when the daemon reads                                 *)

LEMMA NothingListed ==
  ASSUME UNCHANGED <<paneVars, host, sent>>
  PROVE  \A p : written'[p] = written[p] /\ Listed(p)' = Listed(p)
<1>1. UNCHANGED <<open, written, host, sent>>
  BY DEF paneVars
<1> QED
  BY <1>1 DEF Listed, CanShow

LEMMA PassedOver ==
  ASSUME IInv, UNCHANGED <<paneVars, host, sent>>, RestOf(out, out'), NEW p \in Panes,
         \A n \in 1..MaxOutput : ~Piece(out, 1, p, n)
  PROVE  Heard(p)
<1>1. written[p] \in Nat /\ written[p] <= MaxOutput /\ MaxOutput \in Nat
  BY ScreenTypes
<1>2. written'[p] = written[p] /\ Listed(p)' = Listed(p)
  BY NothingListed
<1> DEFINE w == written[p]
           live == Listed(p)
           r == out'
<1>3. w \in Nat /\ w <= MaxOutput /\ MaxOutput \in Nat /\ RestOf(out, r)
  BY <1>1
<1> HIDE DEF w, live, r
<1>4. \A b : Flow(b, out, w, live, p) => Flow(b, r, w, live, p)
  BY <1>3, FlowRest
<1> QED
  BY <1>2, <1>4, Zenon DEF Heard, w, live, r

LEMMA NextRead ==
  ASSUME IInv, UNCHANGED <<paneVars, host, sent>>, RestOf(out, out'), NEW p \in Panes,
         NEW n \in 1..MaxOutput, Piece(out, 1, p, n)
  PROVE  \A b : Flow(b, out, written[p], Listed(p), p) =>
           n = b + 1 /\ Flow(n, out', written'[p], Listed(p)', p)
<1>1. written[p] \in Nat /\ written[p] <= MaxOutput /\ MaxOutput \in Nat
  BY ScreenTypes
<1>2. written'[p] = written[p] /\ Listed(p)' = Listed(p)
  BY NothingListed
<1> DEFINE w == written[p]
           live == Listed(p)
           r == out'
<1>3. w \in Nat /\ w <= MaxOutput /\ MaxOutput \in Nat /\ RestOf(out, r)
  BY <1>1
<1> HIDE DEF w, live, r
<1>4. \A b : Flow(b, out, w, live, p) => n = b + 1 /\ Flow(n, r, w, live, p)
  BY <1>3, FlowRead
<1> QED
  BY <1>2, <1>4, Zenon DEF w, live, r

(* The screens that go with a snapshot that is still to come.                *)
LEMMA SnapshotWaits ==
  ASSUME ScreenInv, ~Tearing, RestOf(out, out'),
         \A k \in DOMAIN out' : out'[k].type = "snapshot" => \A p \in Panes :
           Heard(p) /\ Base(out'[k].value, pending', p) = Base(out'[k].value, pending, p)
  PROVE  \A k \in DOMAIN out' : out'[k].type = "snapshot" =>
           \A p \in Panes : Flow(Base(out'[k].value, pending', p), out', written'[p], Listed(p)', p)
<1>1. \A k \in DOMAIN out' : k + 1 \in DOMAIN out /\ out'[k] = out[k + 1]
  BY Zenon DEF RestOf
<1>2. \A k \in DOMAIN out' : out'[k].type = "snapshot" => \A p \in Panes :
        Flow(Base(out'[k].value, pending, p), out, written[p], Listed(p), p)
  BY <1>1, Zenon DEF ScreenInv, Continues
<1> QED
  BY <1>2, Zenon DEF Heard

LEMMA ScreenRest ==
  ASSUME IInv, ScreenInv, ~Tearing, UNCHANGED <<paneVars, host, sent, view, pending>>,
         RestOf(out, out'), out[1].type \notin Bulk
  PROVE  ScreenInv'
<1>1. \A p \in Panes : Heard(p)
  BY NoChunk, PassedOver, Zenon DEF Bulk
<1>2. view' = view /\ pending' = pending
  OBVIOUS
<1>3. \A p \in DOMAIN view' : view'[p] # Garbled
  BY <1>2 DEF ScreenInv
<1>4. \A p \in Panes : \A i \in DOMAIN pending'[p] : pending'[p][i] = i
  BY <1>2, Zenon DEF ScreenInv
<1>5. NoneOf(out', {"snapshot"}) => NoneOf(out, {"snapshot"})
  <2>1. out[1].type # "snapshot"
    BY DEF Bulk
  <2> SUFFICES ASSUME NoneOf(out', {"snapshot"}), NEW j \in DOMAIN out, j # 1 PROVE out[j].type # "snapshot"
    BY <2>1 DEF NoneOf
  <2>2. PICK k \in DOMAIN out' : j = k + 1
    BY Zenon DEF RestOf
  <2>3. out'[k] = out[k + 1]
    BY Zenon DEF RestOf
  <2> QED
    BY <2>2, <2>3 DEF NoneOf
<1>6. NoneOf(out', {"snapshot"}) =>
        \A p \in Panes : Flow(Base(view', pending', p), out', written'[p], Listed(p)', p)
  BY <1>1, <1>2, <1>5, Zenon DEF ScreenInv, Continues, Heard
<1>7. \A k \in DOMAIN out' : out'[k].type = "snapshot" =>
        \A p \in Panes : Flow(Base(out'[k].value, pending', p), out', written'[p], Listed(p)', p)
  BY <1>1, <1>2, SnapshotWaits, Zenon
<1> HIDE DEF Tearing, Listed, Base, Flow
<1> QED
  BY <1>3, <1>4, <1>6, <1>7, ScreenNext, Zenon

(* A snapshot is read: it has the screens of the panes that are there.       *)
LEMMA ScreenSnapshot ==
  ASSUME IInv, SnapshotInv, ScreenInv, ~Tearing, UNCHANGED <<paneVars, host, sent, pending>>,
         RestOf(out, out'), out[1].type = "snapshot", out[1].value \in UNION {[ps -> 0..MaxOutput] : ps \in SUBSET Panes},
         view' = out[1].value
  PROVE  ScreenInv'
<1>1. \A p \in Panes : Heard(p)
  <2>1. out[1].type # "pty"
    OBVIOUS
  <2> QED
    BY <2>1, NoChunk, PassedOver, Zenon
<1>2. \A p \in DOMAIN view' : view'[p] # Garbled
  <2>1. \A p \in DOMAIN view' : view'[p] \in 0..MaxOutput
    OBVIOUS
  <2>2. Garbled \notin 0..MaxOutput
    <3>1. Garbled \notin Nat /\ MaxOutput \in Nat
      BY SharingAssumption
    <3> QED
      BY <3>1
  <2> QED
    BY <2>1, <2>2
<1>3. \A p \in Panes : \A i \in DOMAIN pending'[p] : pending'[p][i] = i
  BY Zenon DEF ScreenInv
<1>4. 1 \in DOMAIN out /\ \A k \in DOMAIN out' : k + 1 \in DOMAIN out /\ k + 1 # 1 /\ out'[k] = out[k + 1]
  BY Zenon DEF RestOf
<1>5. \A k \in DOMAIN out' : out'[k].type # "snapshot"
  <2>1. out[1].type \in Bulk
    BY DEF Bulk
  <2>2. \A j \in DOMAIN out : out[j].type = "snapshot" => 1 = j
    BY <1>4, <2>1, Zenon DEF SnapshotInv
  <2> QED
    BY <1>4, <2>2, Zenon
<1>6. \A p \in Panes : Flow(Base(view', pending, p), out, written[p], Listed(p), p)
  BY <1>4, Zenon DEF ScreenInv, Continues
<1>7. \A p \in Panes : Flow(Base(view', pending', p), out', written'[p], Listed(p)', p)
  BY <1>1, <1>6, Zenon DEF Heard
<1> HIDE DEF Tearing, Listed, Base, Flow
<1> QED
  BY <1>2, <1>3, <1>5, <1>7, ScreenNext, Zenon

-----------------------------------------------------------------------------
(* No snapshot is behind a chunk.                                            *)
LEMMA NoSnapshotBehind ==
  ASSUME SnapshotInv, ~Tearing, 1 \in DOMAIN out, out[1].type = "pty", out \in Seq(Message)
  PROVE  NoneOf(out, {"snapshot"})
<1> SUFFICES ASSUME NEW k \in DOMAIN out, out[k].type = "snapshot" PROVE FALSE
  BY DEF NoneOf
<1>1. 1 + 1 >= k
  BY Zenon DEF SnapshotInv, Bulk
<1>2. k # 1 /\ k \in Nat
  OBVIOUS
<1>3. 1 + 1 = k
  BY <1>1, <1>2
<1>4. out[1] = Msg("layout", DOMAIN out[k].value)
  BY <1>3, Zenon DEF SnapshotInv
<1> QED
  BY <1>4 DEF Msg

LEMMA WrittenNext ==
  ASSUME NEW s \in Nat
  PROVE  Written(s, <<s + 1>>) = s + 1
<1>1. /\ Len(<<s + 1>>) = 1 /\ <<s + 1>> # <<>>
      /\ \A i \in DOMAIN <<s + 1>> : <<s + 1>>[i] = s + i
  OBVIOUS
<1>2. s # Garbled
  BY SharingAssumption
<1> QED
  BY <1>1, <1>2 DEF Written

LEMMA KeptNext ==
  ASSUME NEW c \in Seq(1..MaxOutput), NEW n \in 1..MaxOutput, MaxOutput \in Nat, n = Len(c) + 1,
         \A i \in DOMAIN c : c[i] = i
  PROVE  /\ Len(Append(c, n)) = n
         /\ \A i \in DOMAIN Append(c, n) : Append(c, n)[i] = i
  OBVIOUS

(* Chunk n of p0 is read.                                                    *)
LEMMA ScreenOutput ==
  ASSUME IInv, SnapshotInv, ScreenInv, ~Tearing, UNCHANGED <<paneVars, host, sent>>,
         RestOf(out, out'), NEW p0 \in Panes, NEW n \in 1..MaxOutput,
         out[1] = Msg("pty", [pane |-> p0, nth |-> n]),
         IF p0 \in DOMAIN view
         THEN view' = [view EXCEPT ![p0] = Written(@, <<n>>)] /\ UNCHANGED pending
         ELSE pending' = [pending EXCEPT ![p0] = Append(@, n)] /\ UNCHANGED view
  PROVE  ScreenInv'
<1>1. 1 \in DOMAIN out /\ out[1].type = "pty" /\ Piece(out, 1, p0, n)
  BY DEF RestOf, Piece, Msg
<1>2. NoneOf(out, {"snapshot"}) /\ NoneOf(out', {"snapshot"})
  <2>1. NoneOf(out, {"snapshot"})
    BY <1>1, ScreenTypes, NoSnapshotBehind
  <2>2. \A i \in DOMAIN out' : i + 1 \in DOMAIN out /\ out'[i] = out[i + 1]
    BY Zenon DEF RestOf
  <2> QED
    BY <2>1, <2>2, Zenon DEF NoneOf
<1>3. \A p \in Panes : Flow(Base(view, pending, p), out, written[p], Listed(p), p)
  BY <1>2, Zenon DEF ScreenInv, Continues
<1>4. n = Base(view, pending, p0) + 1 /\ Flow(n, out', written'[p0], Listed(p0)', p0)
  <2>1. \A b : Flow(b, out, written[p0], Listed(p0), p0) =>
           n = b + 1 /\ Flow(n, out', written'[p0], Listed(p0)', p0)
    BY <1>1, NextRead
  <2> QED
    BY <1>3, <2>1, Zenon
<1>5. \A p \in Panes : p # p0 => Heard(p)
  <2> SUFFICES ASSUME NEW p \in Panes, p # p0 PROVE Heard(p)
    OBVIOUS
  <2>1. \A m \in 1..MaxOutput : ~Piece(out, 1, p, m)
    <3>1. out[1].value.pane = p0 /\ \A m : Msg("pty", [pane |-> p, nth |-> m]).value.pane = p
      BY DEF Msg
    <3> QED
      BY <3>1 DEF Piece
  <2> QED
    BY <2>1, PassedOver
<1>6. /\ MaxOutput \in Nat /\ \A p \in Panes : pending[p] \in Seq(1..MaxOutput)
      /\ \A p \in DOMAIN view : p \in Panes /\ view[p] \in Screens
      /\ pending \in [Panes -> Seq(1..MaxOutput)]
  BY ScreenTypes DEF IInv, TypeOK, DaemonTypes
<1>7. /\ \A p \in DOMAIN view : view[p] # Garbled
      /\ \A p \in Panes : \A i \in DOMAIN pending[p] : pending[p][i] = i
  BY Zenon DEF ScreenInv
<1>8. /\ \A p \in DOMAIN view' : view'[p] # Garbled
      /\ \A p \in Panes : \A i \in DOMAIN pending'[p] : pending'[p][i] = i
      /\ Base(view', pending', p0) = n
      /\ \A p \in Panes : p # p0 => Base(view', pending', p) = Base(view, pending, p)
  <2>1. CASE p0 \in DOMAIN view
    <3>1. view' = [view EXCEPT ![p0] = Written(@, <<n>>)] /\ pending' = pending
      BY <2>1
    <3>2. view[p0] \in Nat /\ n = view[p0] + 1
      BY <1>4, <1>6, <1>7, <2>1 DEF Base, Screens
    <3>3. Written(view[p0], <<n>>) = n
      BY <3>2, WrittenNext
    <3>4. DOMAIN view' = DOMAIN view /\ view'[p0] = n /\ \A p \in DOMAIN view : p # p0 => view'[p] = view[p]
      BY <2>1, <3>1, <3>3
    <3>5. n # Garbled
      <4>1. n \in Nat
        OBVIOUS
      <4> QED
        BY <4>1, SharingAssumption
    <3>6. \A p \in DOMAIN view' : view'[p] # Garbled
      BY <1>7, <3>4, <3>5, Zenon
    <3>7. \A p \in Panes : p # p0 => Base(view', pending', p) = Base(view, pending, p)
      BY <3>1, <3>4 DEF Base
    <3>8. Base(view', pending', p0) = n
      BY <2>1, <3>4 DEF Base
    <3> QED
      BY <1>7, <3>1, <3>6, <3>7, <3>8, Zenon
  <2>2. CASE p0 \notin DOMAIN view
    <3>1. view' = view /\ pending' = [pending EXCEPT ![p0] = Append(@, n)]
      BY <2>2
    <3>2. n = Len(pending[p0]) + 1
      BY <1>4, <2>2 DEF Base
    <3>3. /\ Len(Append(pending[p0], n)) = n
          /\ \A i \in DOMAIN Append(pending[p0], n) : Append(pending[p0], n)[i] = i
      <4> DEFINE c == pending[p0]
      <4>1. c \in Seq(1..MaxOutput) /\ n = Len(c) + 1
        BY <1>6, <3>2
      <4>2. \A i \in DOMAIN c : c[i] = i
        BY <1>7, Zenon
      <4> HIDE DEF c
      <4>3. /\ Len(Append(c, n)) = n
            /\ \A i \in DOMAIN Append(c, n) : Append(c, n)[i] = i
        BY <1>6, <4>1, <4>2, KeptNext
      <4> QED
        BY <4>3 DEF c
    <3>4. pending'[p0] = Append(pending[p0], n) /\ \A p \in Panes : p # p0 => pending'[p] = pending[p]
      BY <1>6, <3>1
    <3>5. \A p \in Panes : \A i \in DOMAIN pending'[p] : pending'[p][i] = i
      BY <1>7, <3>3, <3>4, Zenon
    <3>6. Base(view', pending', p0) = n
      BY <2>2, <3>1, <3>3, <3>4 DEF Base
    <3>7. \A p \in Panes : p # p0 => Base(view', pending', p) = Base(view, pending, p)
      BY <3>1, <3>4 DEF Base
    <3> QED
      BY <1>7, <3>1, <3>5, <3>6, <3>7, Zenon
  <2> QED
    BY <2>1, <2>2
<1>9. \A p \in Panes : Flow(Base(view', pending', p), out', written'[p], Listed(p)', p)
  BY <1>3, <1>4, <1>5, <1>8, Zenon DEF Heard
<1>10. \A k \in DOMAIN out' : out'[k].type # "snapshot"
  BY <1>2 DEF NoneOf
<1> HIDE DEF Tearing, Listed, Base, Flow
<1> QED
  BY <1>8, <1>9, <1>10, ScreenNext, Zenon

-----------------------------------------------------------------------------
(* A layout is read                                                          *)

LEMMA WrittenAll ==
  ASSUME NEW c \in Seq(1..MaxOutput), \A i \in DOMAIN c : c[i] = i
  PROVE  Written(0, c) = Len(c)
<1>1. CASE c = <<>>
  BY <1>1 DEF Written
<1>2. CASE c # <<>>
  <2>1. 0 # Garbled
    <3>1. 0 \in Nat
      OBVIOUS
    <3> QED
      BY <3>1, SharingAssumption
  <2>2. \A i \in DOMAIN c : c[i] = 0 + i
    OBVIOUS
  <2>3. Written(0, c) = 0 + Len(c)
    BY <1>2, <2>1, <2>2 DEF Written
  <2> QED
    BY <2>3
<1> QED
  BY <1>1, <1>2

(* A pane that the layout lacks gets nothing any more, or has got nothing.    *)
LEMMA LeftOut ==
  ASSUME IInv, LifeInv, LastInv, ~Tearing, RestOf(out, out'),
         UNCHANGED <<paneVars, host, sent>>, out[1].type = "layout",
         NEW p \in Panes, p \notin out[1].value
  PROVE  \/ p \notin DOMAIN view /\ pending[p] = <<>>
         \/ NoPiece(out', p) /\ ~Listed(p)'
<1>1. 1 \in DOMAIN out /\ \A i \in DOMAIN out' : i + 1 \in DOMAIN out /\ 1 < i + 1 /\ out'[i] = out[i + 1]
  BY Zenon DEF RestOf
<1>2. NotYet(p, 1) \/ NoMore(p, 1)
  BY <1>1, Zenon DEF LifeInv
<1>3. CASE NotYet(p, 1)
  BY <1>3 DEF NotYet
<1>4. CASE NoMore(p, 1)
  <2>1. p \in closed /\ \A j \in DOMAIN out : 1 < j => ~Mentions(out[j], p)
    BY <1>4, Zenon DEF NoMore
  <2>2. NoPiece(out', p)
    <3> SUFFICES ASSUME NEW i \in DOMAIN out', NEW n \in 1..MaxOutput, Piece(out', i, p, n) PROVE FALSE
      BY DEF NoPiece
    <3>1. ~Mentions(out'[i], p)
      BY <1>1, <2>1, Zenon
    <3>2. out'[i].type = "pty" /\ out'[i].value.pane = p
      BY DEF Piece, Msg
    <3> QED
      BY <3>1, <3>2 DEF Mentions
  <2>3. p \notin open
    BY <2>1 DEF LifeInv
  <2>4. CanShow => p \notin sent
    <3> SUFFICES ASSUME CanShow, p \in sent PROVE FALSE
      OBVIOUS
    <3>1. ~NoneOf(out, {"layout"})
      BY <1>1 DEF NoneOf
    <3>2. PICK i \in DOMAIN out : out[i] = Msg("layout", sent)
      BY <3>1, Zenon DEF LastInv
    <3>3. out[i].type = "layout" /\ out[i].value = sent
      BY <3>2 DEF Msg
    <3>4. i # 1
      BY <3>3
    <3>5. 1 < i
      <4>1. out \in Seq(Message)
        BY ScreenTypes
      <4> QED
        BY <3>4, <4>1
    <3>6. Mentions(out[i], p)
      BY <3>3 DEF Mentions
    <3> QED
      BY <2>1, <3>5, <3>6
  <2>5. ~Listed(p)
    BY <2>3, <2>4 DEF Listed
  <2> QED
    BY <2>2, <2>5, NothingListed
<1> QED
  BY <1>2, <1>3, <1>4

LEMMA ScreenLayout ==
  ASSUME IInv, SnapshotInv, LifeInv, LastInv, ScreenInv, ~Tearing, UNCHANGED <<paneVars, host, sent>>,
         RestOf(out, out'), out[1].type = "layout", out[1].value \in SUBSET Panes,
         view' = [p \in out[1].value |-> IF p \in DOMAIN view THEN view[p] ELSE Written(0, pending[p])],
         pending' = NothingKept
  PROVE  ScreenInv'
<1>1. \A p \in Panes : Heard(p)
  <2>1. out[1].type # "pty"
    OBVIOUS
  <2> QED
    BY <2>1, NoChunk, PassedOver, Zenon
<1>2. /\ MaxOutput \in Nat /\ \A p \in Panes : pending[p] \in Seq(1..MaxOutput) /\ written[p] \in Nat
      /\ \A p \in DOMAIN view : p \in Panes /\ view[p] \in Screens
  BY ScreenTypes
<1>3. /\ \A p \in DOMAIN view : view[p] # Garbled
      /\ \A p \in Panes : \A i \in DOMAIN pending[p] : pending[p][i] = i
  BY Zenon DEF ScreenInv
<1>4. \A p \in Panes : Written(0, pending[p]) = Len(pending[p]) /\ Len(pending[p]) \in Nat
  BY <1>2, <1>3, WrittenAll
<1>5. DOMAIN view' = out[1].value /\ \A p \in out[1].value :
        view'[p] = IF p \in DOMAIN view THEN view[p] ELSE Len(pending[p])
  BY <1>4
<1>6. \A p \in DOMAIN view' : view'[p] # Garbled
  <2>1. \A p \in Panes : Len(pending[p]) # Garbled
    <3>1. Garbled \notin Nat
      BY SharingAssumption
    <3> QED
      BY <1>4, <3>1
  <2> QED
    BY <1>3, <1>5, <2>1
<1>7. \A p \in Panes : pending'[p] = <<>>
  BY DEF NothingKept
<1>8. \A p \in Panes : \A i \in DOMAIN pending'[p] : pending'[p][i] = i
  BY <1>7
<1>9. \A k \in DOMAIN out' : out'[k].type = "snapshot" => pending = NothingKept
  <2>1. \A k \in DOMAIN out' : k + 1 \in DOMAIN out /\ out'[k] = out[k + 1]
    BY Zenon DEF RestOf
  <2> QED
    BY <2>1, Zenon DEF SnapshotInv
<1>10. \A k \in DOMAIN out' : out'[k].type = "snapshot" =>
        \A p \in Panes : Flow(Base(out'[k].value, pending', p), out', written'[p], Listed(p)', p)
  <2>1. \A k \in DOMAIN out' : out'[k].type = "snapshot" => pending' = pending
    BY <1>9
  <2>2. \A k \in DOMAIN out' : out'[k].type = "snapshot" => \A p \in Panes :
          Heard(p) /\ Base(out'[k].value, pending', p) = Base(out'[k].value, pending, p)
    BY <1>1, <2>1, Zenon
  <2> HIDE DEF Heard, Base, Flow, Tearing, ScreenInv
  <2> QED
    BY <2>2, SnapshotWaits, Zenon
<1>11. NoneOf(out', {"snapshot"}) =>
        \A p \in Panes : Flow(Base(view', pending', p), out', written'[p], Listed(p)', p)
  <2> SUFFICES ASSUME NoneOf(out', {"snapshot"}), NEW p \in Panes
               PROVE  Flow(Base(view', pending', p), out', written'[p], Listed(p)', p)
    OBVIOUS
  <2>1. NoneOf(out, {"snapshot"})
    <3>1. \A k \in DOMAIN out' : out'[k] = out[k + 1]
      BY Zenon DEF RestOf
    <3> SUFFICES ASSUME NEW j \in DOMAIN out, j # 1 PROVE out[j].type # "snapshot"
      BY DEF NoneOf
    <3>2. PICK k \in DOMAIN out' : j = k + 1
      BY Zenon DEF RestOf
    <3> QED
      BY <3>1, <3>2 DEF NoneOf
  <2>2. Flow(Base(view, pending, p), out', written'[p], Listed(p)', p)
    BY <1>1, <2>1, Zenon DEF ScreenInv, Continues, Heard
  <2>3. CASE p \in out[1].value
    <3>1. Base(view', pending', p) = Base(view, pending, p)
      BY <1>5, <2>3 DEF Base
    <3> QED
      BY <2>2, <3>1, Zenon
  <2>4. CASE p \notin out[1].value
    <3>1. Base(view', pending', p) = 0
      BY <1>5, <1>7, <2>4 DEF Base
    <3>2. CASE p \notin DOMAIN view /\ pending[p] = <<>>
      <4>1. Base(view, pending, p) = 0
        BY <3>2 DEF Base
      <4> QED
        BY <2>2, <3>1, <4>1, Zenon
    <3>3. CASE NoPiece(out', p) /\ ~Listed(p)'
      <4> DEFINE r == out'
                 w == written'[p]
                 live == Listed(p)'
      <4>1. w \in Nat /\ 0 <= w /\ 0 \in Nat
        BY <1>2 DEF paneVars
      <4>2. NoPiece(r, p) /\ ~live
        BY <3>3, Zenon
      <4> HIDE DEF r, w, live
      <4>3. Flow(0, r, w, live, p)
        BY <4>1, <4>2, FlowNone
      <4> QED
        BY <3>1, <4>3, Zenon DEF r, w, live
    <3> QED
      BY <2>4, <3>2, <3>3, LeftOut
  <2> QED
    BY <2>3, <2>4
<1> HIDE DEF Tearing, Listed, Base, Flow
<1> QED
  BY <1>6, <1>8, <1>10, <1>11, ScreenNext, Zenon

-----------------------------------------------------------------------------
(* Steps of the host, and the picture                                        *)

Blank == NoneOf(out, Bulk) /\ view = <<>> /\ pending = NothingKept /\ ~CanShow

LEMMA BlankPicture == IInv /\ Blank => LastInv /\ ScreenInv
  BY ScreenQuiet DEF Blank

LEMMA BlankStage == ArrivalInv /\ ~host.layout => Blank
<1> SUFFICES ASSUME ArrivalInv, ~host.layout PROVE Blank
  OBVIOUS
<1>1. NoneOf(out, Bulk \cup {"torn"}) /\ view = <<>> /\ pending = NothingKept
  BY StageParts DEF ArrivalInv
<1>2. NoneOf(out, Bulk)
  BY <1>1, Zenon DEF NoneOf
<1> QED
  BY <1>1, <1>2 DEF Blank, CanShow

LEMMA BlankNext ==
  ASSUME IInv', ArrivalInv', ~host'.layout
  PROVE  LastInv' /\ ScreenInv'
<1>1. (IInv /\ Blank => LastInv /\ ScreenInv)'
  BY BlankPicture, PTL
<1>2. (ArrivalInv /\ ~host.layout => Blank)'
  BY BlankStage, PTL
<1> QED
  BY <1>1, <1>2

(* Messages about panes.                                                     *)
Drawn == {m \in Message : m.type \in Bulk \cup {"torn"}}

LEMMA MoreExtends ==
  ASSUME NEW q, NEW r, NEW S, MoreOf(q, r, S)
  PROVE  Extends(q, r) /\ MoreOf(q, r, {})
  BY Zenon DEF MoreOf, Extends

LEMMA PlainPicture ==
  ASSUME IInv, IInv', PictureInv, Gained(out, out', Drawn),
         UNCHANGED <<paneVars, sent, view, pending>>, host.failed => host'.failed, host'.layout => host.layout
  PROVE  PictureInv'
<1>1. out \in Seq(Message) /\ out' \in Seq(Message)
  BY DEF IInv, TypeOK, QueueTypes
<1>2. MoreOf(out, out', Drawn)
  BY <1>1, Grown
<1>3. Extends(out, out') /\ MoreOf(out, out', {})
  BY <1>2, MoreExtends
<1>4. \A i \in DOMAIN out' : out'[i] \in Message
  BY <1>1, Elements
<1>5. \A i \in DOMAIN out' : i \in DOMAIN out \/ out'[i].type \notin Bulk
  BY <1>2, <1>4 DEF MoreOf, Drawn
<1>6. UNCHANGED <<open, closed, written>>
  BY DEF paneVars
<1>7. LifeInv'
  <2>1. \A i \in DOMAIN out' : i \in DOMAIN out \/
           /\ \A p \in Panes : Mentions(out'[i], p) => p \in open'
           /\ out'[i].type = "layout" => out'[i].value = open'
    BY <1>5 DEF Mentions, Bulk
  <2>2. open' \cap closed' = {}
    BY <1>6 DEF PictureInv, LifeInv
  <2> QED
    BY <1>3, <1>6, <2>1, <2>2, LifeHost DEF PictureInv
<1>8. CanShow' => CanShow
  BY DEF CanShow
<1>9. LastInv'
  <2>1. ~Tearing' => ~Tearing
    BY <1>3, StillWhole
  <2>2. \A i \in DOMAIN out' : i \in DOMAIN out \/ out'[i].type # "layout"
    BY <1>5 DEF Bulk
  <2> QED
    BY <1>3, <1>8, <2>1, <2>2, LastHost DEF PictureInv
<1>10. ScreenInv'
  <2>1. MoreOf(out, out', Snapshots)
    <3>1. \A i \in DOMAIN out' : i \in DOMAIN out \/ out'[i] \notin Snapshots
      BY <1>5 DEF Bulk, Snapshots
    <3> QED
      BY <1>3, <3>1, Zenon DEF MoreOf
  <2>2. \A p \in Panes : Heard(p)
    <3> SUFFICES ASSUME NEW p \in Panes PROVE Heard(p)
      OBVIOUS
    <3>1. \A i \in DOMAIN out' : i \in DOMAIN out \/ \A n \in 1..MaxOutput : ~Piece(out', i, p, n)
      BY <1>5, NoChunk, Zenon DEF Bulk
    <3>2. written[p] <= written'[p] /\ (Listed(p)' => written'[p] = written[p] /\ (Listed(p) \/ written[p] = 0))
      BY <1>6, <1>8, ScreenTypes DEF Listed
    <3> QED
      BY <1>3, <3>1, <3>2, Unheard
  <2> QED
    BY <1>4, <2>1, <2>2, ScreenHost DEF PictureInv
<1> QED
  BY <1>7, <1>9, <1>10 DEF PictureInv

LEMMA UndrawnTypes ==
  /\ Fin \notin Drawn /\ Msg("ready", 0) \notin Drawn /\ Msg("identity", 0) \notin Drawn
  /\ \A c : Msg("cmd", c) \notin Drawn
  /\ \A v : Msg("status", v) \notin Drawn
  BY DEF Drawn, Fin, Msg, Bulk

(* A change of the panes, with the layout that is sent of it or without.     *)
LEMMA SyncPicture ==
  ASSUME IInv, IInv', PictureInv, SyncLayout(open') \/ UNCHANGED <<host, sent, out>>,
         UNCHANGED <<written, view, pending>>,
         open' \cap closed' = {}, closed \subseteq closed',
         open \cup closed \subseteq open' \cup closed', (open' \ open) \cap closed = {}
  PROVE  PictureInv'
<1>1. /\ out \in Seq(Message) /\ out' \in Seq(Message) /\ open' \in SUBSET Panes
      /\ host \in HostRecord
  BY DEF IInv, TypeOK, QueueTypes, HostTypes, HostRecord
<1> DEFINE L == Msg("layout", open')
<1>2. L \in Message /\ Fin \in Message /\ L.type = "layout" /\ L.value = open' /\ Fin.type = "fin"
  BY <1>1, MessageTypes DEF Fin, Signals, Msg
<1>3. \/ UNCHANGED <<host, sent, out>>
      \/ CanShow /\ UNCHANGED host /\ sent' = open' /\ out' = Append(out, L)
      \/ CanShow /\ UNCHANGED sent /\ Fail(out)
  BY DEF SyncLayout
<1> HIDE DEF L
<1>4. /\ Gained(out, out', Snapshots)
      /\ \A i \in DOMAIN out' : i \in DOMAIN out \/ out'[i] = L \/ out'[i] = Fin
  <2>1. CASE out' = out
    BY <1>1, <2>1, Same
  <2>2. ASSUME NEW m \in {L, Fin}, out' = Append(out, m)
        PROVE  Gained(out, out', Snapshots) /\ \A i \in DOMAIN out' : i \in DOMAIN out \/ out'[i] = m
    <3>1. m \in Message /\ m \notin Snapshots
      BY <1>2 DEF Snapshots
    <3>2. Gained(out, out', Snapshots)
      BY <1>1, <2>2, <3>1, AppendGains
    <3> QED
      BY <1>1, <2>2, <3>1, <3>2
  <2> QED
    BY <1>3, <2>1, <2>2 DEF Fail
<1>5. MoreOf(out, out', Snapshots)
  BY <1>1, <1>4, Grown
<1>6. Extends(out, out') /\ MoreOf(out, out', {})
  BY <1>5, MoreExtends
<1>7. LifeInv'
  <2>1. \A i \in DOMAIN out' : i \in DOMAIN out \/
           /\ \A p \in Panes : Mentions(out'[i], p) => p \in open'
           /\ out'[i].type = "layout" => out'[i].value = open'
    BY <1>2, <1>4 DEF Mentions
  <2>2. sent' \subseteq sent \cup open'
    BY <1>3
  <2> QED
    BY <1>6, <2>1, <2>2, LifeHost DEF PictureInv
<1>8. CanShow' => CanShow
  BY <1>1, <1>3 DEF CanShow, Fail, HostRecord
<1>9. ~Tearing' => ~Tearing
  BY <1>6, StillWhole
<1>10. LastInv'
  <2>1. CASE sent' = sent /\ \A i \in DOMAIN out' : i \in DOMAIN out \/ out'[i].type # "layout"
    BY <1>6, <1>8, <1>9, <2>1, LastHost DEF PictureInv
  <2>2. CASE sent' = open' /\ out' = Append(out, L)
    <3> DEFINE k == Len(out) + 1
    <3>1. k \in DOMAIN out' /\ out'[k] = L /\ \A j \in DOMAIN out' : ~(k < j)
      BY <1>1, <1>2, <2>2
    <3> HIDE DEF k
    <3>2. out'[k] = Msg("layout", sent')
      BY <2>2, <3>1 DEF L
    <3>3. \E i \in DOMAIN out' : /\ out'[i] = Msg("layout", sent')
                                /\ \A j \in DOMAIN out' : i < j => out'[j].type # "layout"
      BY <3>1, <3>2
    <3> QED
      BY <1>6, <1>8, <1>9, <3>3, LastHost DEF PictureInv
  <2>3. CASE Fail(out) /\ sent' = sent
    <3>1. ~CanShow'
      BY <1>1, <2>3 DEF Fail, CanShow, HostRecord
    <3> QED
      BY <3>1, Zenon DEF LastInv
  <2>4. CASE UNCHANGED <<host, sent, out>>
    BY <2>1, <2>4
  <2> QED
    BY <1>3, <2>2, <2>3, <2>4
<1>11. ScreenInv'
  <2>1. \A p \in Panes : Heard(p)
    <3> SUFFICES ASSUME NEW p \in Panes PROVE Heard(p)
      OBVIOUS
    <3>1. \A i \in DOMAIN out' : i \in DOMAIN out \/ \A n \in 1..MaxOutput : ~Piece(out', i, p, n)
      <4>1. \A i \in DOMAIN out' : i \in DOMAIN out \/ out'[i].type # "pty"
        BY <1>2, <1>4
      <4> QED
        BY <4>1, NoChunk, Zenon
    <3>2. Listed(p)' => Listed(p) \/ written[p] = 0
      <4> SUFFICES ASSUME CanShow', p \in sent' \cup open' PROVE Listed(p) \/ written[p] = 0
        BY DEF Listed
      <4>1. CASE p \in sent \cup open
        BY <1>8, <4>1 DEF Listed
      <4>2. CASE p \notin sent \cup open
        <5>1. p \in open' \ open
          BY <1>3, <4>2
        <5>2. p \in Panes \ (open \cup closed)
          BY <5>1
        <5> QED
          BY <5>2, Zenon DEF PictureInv, LifeInv
      <4> QED
        BY <4>1, <4>2
    <3>3. written[p] <= written'[p]
      BY ScreenTypes
    <3> QED
      BY <1>6, <3>1, <3>2, <3>3, Unheard
  <2>2. \A i \in DOMAIN out' : out'[i] \in Message
    BY <1>1, Elements
  <2> QED
    BY <1>5, <2>1, <2>2, ScreenHost DEF PictureInv
<1> QED
  BY <1>7, <1>10, <1>11 DEF PictureInv

-----------------------------------------------------------------------------
(* Sharing starts                                                            *)

FirstLayout == Msg("layout", open)
FirstScreens == Msg("snapshot", [p \in open |-> written[p]])

LEMMA FirstTypes ==
  ASSUME IInv, OneSession
  PROVE  /\ out \in Seq(Message) /\ open \in SUBSET Panes /\ Shared = open
         /\ Snapshot = [p \in open |-> written[p]]
         /\ FirstLayout \in Message /\ FirstLayout.type = "layout" /\ FirstLayout.value = open
         /\ FirstScreens \in Message /\ FirstScreens.type = "snapshot"
         /\ FirstScreens.value = [p \in open |-> written[p]]
         /\ Fin \in Message \ Drawn /\ Msg("ready", 0) \in Message \ Drawn
         /\ Msg("status", status) \in Message \ Drawn
<1>1. /\ out \in Seq(Message) /\ open \in SUBSET Panes /\ written \in [Panes -> 0..MaxOutput]
      /\ status \in 0..MaxStatus
  BY DEF IInv, TypeOK, QueueTypes, HostTypes
<1>2. Shared = open
  BY <1>1, AllShared DEF Shared
<1>3. Snapshot = [p \in open |-> written[p]]
  BY <1>2 DEF Snapshot
<1>4. [p \in open |-> written[p]] \in [open -> 0..MaxOutput]
  BY <1>1
<1>5. FirstLayout \in Message /\ FirstScreens \in Message
  BY <1>1, <1>4, MessageTypes DEF FirstLayout, FirstScreens
<1>6. Fin \in Message /\ Msg("ready", 0) \in Message /\ Msg("status", status) \in Message
  BY <1>1, MessageTypes DEF Fin, Signals
<1>7. FirstLayout.type = "layout" /\ FirstLayout.value = open
  BY DEF FirstLayout, Msg
<1>8. FirstScreens.type = "snapshot" /\ FirstScreens.value = [p \in open |-> written[p]]
  BY DEF FirstScreens, Msg
<1> QED
  BY <1>1, <1>2, <1>3, <1>5, <1>6, <1>7, <1>8, UndrawnTypes

(* What is queued when sharing starts, or fails to.                          *)
Failing(q) == q \in Seq(Message) /\ Gained(out, q, Drawn \ {FirstLayout})
Picture == Append(Append(out, FirstLayout), FirstScreens)
Starting(q) == q \in Seq(Message) /\ Gained(Picture, q, Drawn)

LEMMA StartForms ==
  ASSUME OneSession, IInv, ArrivalInv, ~host.layout, NEW h \in HostRecord, h.layout, StartSharing(h)
  PROVE  \/ host'.failed /\ Failing(out') /\ sent' \subseteq open
         \/ sent' = open /\ Starting(out')
<1>1. Room(out)
  <2>1. NoneOf(out, Bulk)
    BY BlankStage DEF Blank
  <2> QED
    BY <2>1, RoomAtStart
<1> DEFINE one == Append(out, FirstLayout)
           two == Append(one, FirstScreens)
           three == Append(one, Fin)
           X == Drawn \ {FirstLayout}
<1>2. /\ out \in Seq(Message) /\ one \in Seq(Message) /\ two \in Seq(Message) /\ two = Picture
      /\ Fin \in Message \ Drawn /\ Msg("ready", 0) \in Message \ Drawn
      /\ Msg("status", status) \in Message \ Drawn
      /\ FirstLayout \in Message \ X /\ Fin \in Message \ X /\ Msg("status", status) \in Message \ X
  BY FirstTypes DEF Picture
<1>3. (IF Room(out) THEN Append(out, Msg("layout", Shared)) ELSE out) = one
  BY <1>1, FirstTypes DEF FirstLayout
<1>4. Msg("snapshot", Snapshot) = FirstScreens /\ (IF Room(out) THEN Shared ELSE {}) = open
  BY <1>1, FirstTypes DEF FirstScreens
<1>5. \/ host' = [h EXCEPT !.failed = TRUE] /\ out' = Append(out, Fin) /\ sent' = {}
      \/ host' = [h EXCEPT !.failed = TRUE] /\ out' = WithStatus(three) /\ sent' = open
      \/ /\ sent' = open
         /\ out' = WithStatus(two) \o <<Msg("ready", 0)>> \/ out' = WithStatus(two) \o <<>>
  BY <1>3, <1>4 DEF StartSharing
<1>6. Gained(out, out, X) /\ Gained(out, one, X) /\ one \in Seq(Message)
  <2> HIDE DEF X
  <2>1. Gained(out, out, X)
    BY <1>2, Same
  <2> QED
    BY <1>2, <2>1, Enqueued
<1>7. CASE host' = [h EXCEPT !.failed = TRUE] /\ out' = Append(out, Fin) /\ sent' = {}
  <2>1. host'.failed
    BY <1>7 DEF HostRecord
  <2> HIDE DEF X
  <2>2. Append(out, Fin) \in Seq(Message) /\ Gained(out, Append(out, Fin), X)
    BY <1>2, <1>6, Enqueued
  <2> QED
    BY <1>7, <2>1, <2>2 DEF Failing, X
<1>8. CASE host' = [h EXCEPT !.failed = TRUE] /\ out' = WithStatus(three) /\ sent' = open
  <2>1. host'.failed
    BY <1>8 DEF HostRecord
  <2> HIDE DEF X, one
  <2>2. three \in Seq(Message) /\ Gained(out, three, X)
    BY <1>2, <1>6, Enqueued
  <2> HIDE DEF three
  <2>3. Append(three, Msg("status", status)) \in Seq(Message) /\ Gained(out, Append(three, Msg("status", status)), X)
    BY <1>2, <2>2, Enqueued
  <2>4. out' \in Seq(Message) /\ Gained(out, out', X)
    BY <1>8, <2>2, <2>3 DEF WithStatus
  <2> QED
    BY <1>8, <2>1, <2>4 DEF Failing, X
<1>9. CASE /\ sent' = open
           /\ out' = WithStatus(two) \o <<Msg("ready", 0)>> \/ out' = WithStatus(two) \o <<>>
  <2> HIDE DEF two
  <2> DEFINE r == WithStatus(two)
  <2>1. two \in Seq(Message) /\ Gained(two, two, Drawn)
    BY <1>2, Same
  <2>2. r \in Seq(Message) /\ Gained(two, r, Drawn)
    <3>1. Append(two, Msg("status", status)) \in Seq(Message) /\ Gained(two, Append(two, Msg("status", status)), Drawn)
      BY <1>2, <2>1, Enqueued
    <3> QED
      BY <2>1, <3>1 DEF WithStatus
  <2> HIDE DEF r
  <2>3. out' = Append(r, Msg("ready", 0)) \/ out' = r
    <3>1. r \o <<Msg("ready", 0)>> = Append(r, Msg("ready", 0)) /\ r \o <<>> = r
      BY <1>2, <2>2
    <3> QED
      BY <1>9, <3>1 DEF r
  <2>4. Append(r, Msg("ready", 0)) \in Seq(Message) /\ Gained(two, Append(r, Msg("ready", 0)), Drawn)
    BY <1>2, <2>1, <2>2, Enqueued
  <2>5. out' \in Seq(Message) /\ Gained(two, out', Drawn)
    BY <2>2, <2>3, <2>4
  <2> QED
    BY <1>2, <1>9, <2>5 DEF Starting
<1> QED
  BY <1>5, <1>7, <1>8, <1>9

-----------------------------------------------------------------------------
Started(q) ==
  /\ MoreOf(out, q, {})
  /\ \A i \in DOMAIN q : i \in DOMAIN out \/ q[i] = FirstLayout \/ q[i] = FirstScreens \/ q[i].type \notin Bulk
  /\ \E k \in DOMAIN q : q[k] = FirstLayout /\ \A j \in DOMAIN q : k < j => q[j].type # "layout"
  /\ \E k \in DOMAIN q : q[k] = FirstScreens

LEMMA StartPlaces ==
  ASSUME IInv, OneSession, NEW q, Starting(q)
  PROVE  Started(q)
<1> DEFINE one == Append(out, FirstLayout)
           n == Len(out)
<1>1. /\ out \in Seq(Message) /\ FirstLayout \in Message /\ FirstScreens \in Message
      /\ FirstScreens.type = "snapshot"
  BY FirstTypes
<1>2. /\ one \in Seq(Message) /\ n \in Nat /\ DOMAIN out = 1..n /\ DOMAIN one = 1..n + 1 /\ Len(one) = n + 1
      /\ \A i \in 1..n : one[i] = out[i]
      /\ one[n + 1] = FirstLayout
  BY <1>1
<1>3. Picture = Append(one, FirstScreens)
  BY DEF Picture
<1> HIDE DEF one, n
<1>4. /\ Picture \in Seq(Message) /\ DOMAIN Picture = 1..n + 2 /\ Len(Picture) = n + 2
      /\ \A i \in 1..n + 1 : Picture[i] = one[i]
      /\ Picture[n + 2] = FirstScreens
  BY <1>1, <1>2, <1>3
<1>5. /\ \A i \in 1..n : Picture[i] = out[i]
      /\ Picture[n + 1] = FirstLayout /\ Picture[n + 2] = FirstScreens
  BY <1>2, <1>4
<1>6. /\ q \in Seq(Message) /\ Len(q) \in Nat /\ DOMAIN q = 1..Len(q) /\ n + 2 <= Len(q)
      /\ \A i \in 1..n + 2 : q[i] = Picture[i]
      /\ \A i \in n + 3..Len(q) : q[i] \notin Drawn
  <2>1. q \in Seq(Message) /\ Gained(Picture, q, Drawn)
    BY DEF Starting
  <2>2. Len(Picture) + 1 = n + 3
    BY <1>2, <1>4
  <2> QED
    BY <1>4, <2>1, <2>2 DEF Gained
<1> HIDE DEF Picture
<1>7. \A i \in n + 3..Len(q) : q[i].type \notin Bulk
  <2>1. \A i \in n + 3..Len(q) : q[i] \in Message
    BY <1>2, <1>6, Elements
  <2> QED
    BY <1>6, <2>1 DEF Drawn
<1>8. /\ \A i \in DOMAIN out : i \in DOMAIN q /\ q[i] = out[i]
      /\ q[n + 1] = FirstLayout /\ q[n + 2] = FirstScreens /\ n + 1 \in DOMAIN q /\ n + 2 \in DOMAIN q
  <2>1. \A i \in 1..n : i \in 1..n + 2 /\ i \in 1..Len(q)
    BY <1>2, <1>6
  <2>2. n + 1 \in 1..n + 2 /\ n + 2 \in 1..n + 2 /\ n + 1 \in 1..Len(q) /\ n + 2 \in 1..Len(q)
    BY <1>2, <1>6
  <2> QED
    BY <1>2, <1>5, <1>6, <2>1, <2>2, Zenon
<1>9. \A i \in DOMAIN q : i \in DOMAIN out \/ i = n + 1 \/ i = n + 2 \/ i \in n + 3..Len(q)
  BY <1>2, <1>6
<1>10. Gained(out, q, {})
  BY <1>2, <1>6, <1>8 DEF Gained, n
<1>11. MoreOf(out, q, {})
  BY <1>1, <1>6, <1>10, Grown
<1>12. \A i \in DOMAIN q : i \in DOMAIN out \/ q[i] = FirstLayout \/ q[i] = FirstScreens \/ q[i].type \notin Bulk
  BY <1>7, <1>8, <1>9, Zenon
<1>13. \A j \in DOMAIN q : n + 1 < j => q[j].type # "layout"
  <2>1. \A j \in DOMAIN q : n + 1 < j => j = n + 2 \/ j \in n + 3..Len(q)
    BY <1>2, <1>6
  <2>2. q[n + 2].type # "layout"
    BY <1>1, <1>8
  <2>3. \A j \in n + 3..Len(q) : q[j].type # "layout"
    BY <1>7 DEF Bulk
  <2> QED
    BY <2>1, <2>2, <2>3, Zenon
<1> QED
  BY <1>8, <1>11, <1>12, <1>13, Zenon DEF Started

LEMMA StartPicture ==
  ASSUME OneSession, IInv, IInv', ArrivalInv, PictureInv, ~host.layout,
         NEW h \in HostRecord, h.layout, StartSharing(h), UNCHANGED <<paneVars, view, pending>>
  PROVE  PictureInv'
<1>1. NoneOf(out, Bulk) /\ view = <<>> /\ pending = NothingKept /\ ~CanShow
  BY BlankStage DEF Blank
<1>2. UNCHANGED <<open, closed, written>>
  BY DEF paneVars
<1>3. out \in Seq(Message) /\ open \in SUBSET Panes /\ open \cap closed = {}
  BY FirstTypes DEF PictureInv, LifeInv
<1>4. /\ FirstLayout.type = "layout" /\ FirstLayout.value = open
      /\ FirstScreens.type = "snapshot" /\ FirstScreens.value = [p \in open |-> written[p]]
  BY FirstTypes
<1>5. /\ \A p : Mentions(FirstLayout, p) => p \in open
      /\ \A p : Mentions(FirstScreens, p) => p \in open
      /\ \A m, p : m.type \notin Bulk => ~Mentions(m, p)
      /\ "layout" \in Bulk
  BY <1>4 DEF Mentions, Bulk
<1>6. ASSUME Extends(out, out'), sent' \subseteq open,
             \A i \in DOMAIN out' : i \in DOMAIN out \/ out'[i] = FirstLayout \/ out'[i] = FirstScreens \/ out'[i].type \notin Bulk
      PROVE  LifeInv'
  <2>1. \A i \in DOMAIN out' : i \in DOMAIN out \/
          /\ \A p \in Panes : Mentions(out'[i], p) => p \in open
          /\ out'[i].type = "layout" => out'[i].value = open
    <3>1. FirstScreens.type # "layout"
      BY <1>4
    <3> QED
      BY <1>4, <1>5, <1>6, <3>1, Zenon
  <2> QED
    BY <1>2, <1>3, <1>6, <2>1, LifeHost DEF PictureInv
<1>7. CASE host'.failed /\ Failing(out') /\ sent' \subseteq open
  <2>1. out' \in Seq(Message) /\ MoreOf(out, out', Drawn \ {FirstLayout})
    BY <1>3, <1>7, Grown DEF Failing
  <2>2. Extends(out, out') /\ MoreOf(out, out', {})
    BY <2>1, MoreExtends
  <2>3. \A i \in DOMAIN out' : out'[i] \in Message
    BY <2>1, Elements
  <2>4. \A i \in DOMAIN out' : i \in DOMAIN out \/ out'[i] = FirstLayout \/ out'[i].type \notin Bulk
    BY <2>1, <2>3 DEF MoreOf, Drawn
  <2>5. LifeInv'
    BY <1>6, <1>7, <2>2, <2>4
  <2>6. ~CanShow'
    BY <1>7 DEF CanShow
  <2>7. LastInv'
    BY <2>6, Zenon DEF LastInv
  <2>8. \A i \in DOMAIN out' : i \in DOMAIN out \/ (out'[i].type # "snapshot" /\ out'[i].type # "pty")
    BY <1>4, <2>4 DEF Bulk
  <2>9. \A p \in Panes : Heard(p)
    <3> SUFFICES ASSUME NEW p \in Panes PROVE Heard(p)
      OBVIOUS
    <3>1. \A i \in DOMAIN out' : i \in DOMAIN out \/ \A n \in 1..MaxOutput : ~Piece(out', i, p, n)
      BY <2>8, NoChunk, Zenon
    <3>2. ~Listed(p)' /\ written[p] <= written'[p]
      BY <1>2, <2>6, ScreenTypes DEF Listed
    <3> QED
      BY <2>2, <3>1, <3>2, Unheard
  <2>10. MoreOf(out, out', Snapshots)
    <3>1. \A i \in DOMAIN out' : i \in DOMAIN out \/ out'[i] \notin Snapshots
      BY <2>8 DEF Snapshots
    <3> QED
      BY <2>2, <3>1, Zenon DEF MoreOf
  <2>11. ScreenInv'
    BY <2>3, <2>9, <2>10, ScreenHost DEF PictureInv
  <2> QED
    BY <2>5, <2>7, <2>11 DEF PictureInv
<1>8. CASE sent' = open /\ Starting(out')
  <2>1. Started(out')
    BY <1>8, StartPlaces
  <2>2. MoreOf(out, out', {}) /\ Extends(out, out')
    BY <2>1, MoreExtends DEF Started
  <2>3. LifeInv'
    BY <1>6, <1>8, <2>1, <2>2 DEF Started
  <2>4. LastInv'
    <3>1. \E i \in DOMAIN out' : /\ out'[i] = Msg("layout", sent')
                                /\ \A j \in DOMAIN out' : i < j => out'[j].type # "layout"
      BY <1>8, <2>1 DEF Started, FirstLayout
    <3> QED
      BY <3>1, Zenon DEF LastInv
  <2>5. ScreenInv'
    <3>1. \A p \in Panes : written[p] \in Nat /\ 0 \in Nat /\ written[p] <= written[p] /\ 0 <= written[p]
      BY ScreenTypes
    <3>2. DOMAIN view' = {} /\ \A p \in Panes : pending'[p] = <<>> /\ Len(pending'[p]) = 0
      BY <1>1 DEF NothingKept
    <3>3. \A i \in DOMAIN out' : out'[i].type # "pty"
      <4>1. \A i \in DOMAIN out : out'[i] = out[i]
        BY <2>2 DEF MoreOf
      <4> QED
        BY <1>1, <1>4, <2>1, <4>1 DEF Started, NoneOf, Bulk
    <3>4. \A p : NoPiece(out', p)
      BY <3>3, NoChunk, Zenon DEF NoPiece
    <3>5. ~NoneOf(out', {"snapshot"})
      <4>1. PICK k \in DOMAIN out' : out'[k] = FirstScreens
        BY <2>1, Zenon DEF Started
      <4> QED
        BY <1>4, <4>1 DEF NoneOf
    <3>6. ASSUME NEW k \in DOMAIN out', out'[k].type = "snapshot", NEW p \in Panes
          PROVE  Flow(Base(out'[k].value, pending', p), out', written'[p], Listed(p)', p)
      <4>1. out'[k] = FirstScreens
        <5>1. k \notin DOMAIN out
          <6>1. k \in DOMAIN out => out'[k] = out[k]
            BY <2>2 DEF MoreOf
          <6> QED
            BY <1>1, <3>6, <6>1 DEF NoneOf, Bulk
        <5> QED
          BY <1>4, <2>1, <3>6, <5>1 DEF Started, Bulk
      <4> DEFINE b == Base(out'[k].value, pending', p)
                 w == written'[p]
                 live == Listed(p)'
                 r == out'
      <4>2. b = IF p \in open THEN written[p] ELSE 0
        BY <1>4, <3>2, <4>1 DEF Base
      <4>3. live => p \in open
        BY <1>2, <1>8 DEF Listed
      <4>4. b \in Nat /\ w \in Nat /\ b <= w /\ (live => b = w)
        BY <1>2, <3>1, <4>2, <4>3
      <4>5. NoPiece(r, p)
        BY <3>4, Zenon
      <4> HIDE DEF b, w, live, r
      <4>6. Flow(b, r, w, live, p)
        BY <4>4, <4>5, FlowNone
      <4> QED
        BY <4>6, Zenon DEF b, w, live, r
    <3>7. \A p \in DOMAIN view' : view'[p] # Garbled
      BY <3>2
    <3>8. \A p \in Panes : \A i \in DOMAIN pending'[p] : pending'[p][i] = i
      BY <3>2
    <3> HIDE DEF Tearing, Listed, Base, Flow
    <3> QED
      BY <3>5, <3>6, <3>7, <3>8, ScreenNext, Zenon
  <2> QED
    BY <2>3, <2>4, <2>5 DEF PictureInv
<1> QED
  BY <1>7, <1>8, StartForms

-----------------------------------------------------------------------------
(* Steps of the host, one by one                                             *)

LEMMA PanesPicture ==
  ASSUME OneSession, IInv, IInv', PictureInv, NEW p \in Panes, NEW w \in BOOLEAN,
         ServerLoop \/ SelectWindow(p) \/ OpenPane(p, w) \/ ClosePane(p, w)
  PROVE  PictureInv'
<1>1. open \in SUBSET Panes /\ open' \in SUBSET Panes
  BY DEF IInv, TypeOK, HostTypes
<1>2. Shared = open /\ PanesOf(Session[p], open) = open /\ PanesOf(Session[p], open') = open'
  <2>1. Shared = open /\ PanesOf(Session[p], open) = open
    BY <1>1, AllShared DEF Shared
  <2> DEFINE ps == open'
  <2>2. ps \in SUBSET Panes
    BY <1>1
  <2> HIDE DEF ps
  <2>3. PanesOf(Session[p], ps) = ps
    BY <2>2, AllShared
  <2> QED
    BY <2>1, <2>3 DEF ps
<1>3. /\ SyncLayout(open') \/ UNCHANGED <<host, sent, out>>
      /\ UNCHANGED <<written, view, pending>>
  <2>1. CASE ServerLoop
    <3>1. SyncLayout(Shared) /\ open' = open /\ UNCHANGED <<written, view, pending>>
      BY <2>1 DEF ServerLoop, paneVars, daemonVars
    <3> QED
      BY <1>2, <3>1
  <2>2. CASE SelectWindow(p)
    <3>1. SyncLayout(PanesOf(Session[p], open)) /\ open' = open /\ UNCHANGED <<written, view, pending>>
      BY <2>2 DEF SelectWindow, paneVars, daemonVars
    <3> QED
      BY <1>2, <3>1
  <2>3. CASE OpenPane(p, w)
    <3>1. /\ SyncLayout(PanesOf(Session[p], open')) \/ UNCHANGED <<host, sent, out>>
          /\ UNCHANGED <<written, view, pending>>
      BY <2>3 DEF OpenPane, daemonVars
    <3> QED
      BY <1>2, <3>1
  <2>4. CASE ClosePane(p, w)
    <3>1. /\ SyncLayout(PanesOf(Session[p], open')) \/ UNCHANGED <<host, sent, out>>
          /\ UNCHANGED <<written, view, pending>>
      BY <2>4 DEF ClosePane, daemonVars
    <3> QED
      BY <1>2, <3>1
  <2> QED
    BY <2>1, <2>2, <2>3, <2>4
<1>4. open \cap closed = {}
  BY DEF PictureInv, LifeInv
<1>5. /\ open' \cap closed' = {} /\ closed \subseteq closed'
      /\ open \cup closed \subseteq open' \cup closed' /\ (open' \ open) \cap closed = {}
  <2>1. CASE ServerLoop \/ SelectWindow(p)
    BY <1>4, <2>1 DEF ServerLoop, SelectWindow, paneVars
  <2>2. CASE OpenPane(p, w)
    BY <1>4, <2>2 DEF OpenPane
  <2>3. CASE ClosePane(p, w)
    BY <1>4, <2>3 DEF ClosePane
  <2> QED
    BY <2>1, <2>2, <2>3
<1> QED
  BY <1>3, <1>5, SyncPicture

LEMMA OutputPicture ==
  ASSUME IInv, IInv', ArrivalInv, PictureInv, NEW p \in Panes, PaneOutput(p)
  PROVE  PictureInv'
<1>1. /\ out \in Seq(Message) /\ out' \in Seq(Message) /\ written \in [Panes -> 0..MaxOutput] /\ MaxOutput \in Nat
  BY SharingAssumption DEF IInv, TypeOK, HostTypes, QueueTypes
<1> DEFINE chunk == Msg("pty", [pane |-> p, nth |-> written[p] + 1])
<1>2. /\ UNCHANGED <<host, sent, open, closed, view, pending>> /\ p \in open
      /\ written[p] < MaxOutput /\ written' = [written EXCEPT ![p] = @ + 1]
  BY DEF PaneOutput, hostVars, daemonVars
<1>3. /\ written'[p] = written[p] + 1 /\ written[p] \in Nat /\ written[p] + 1 \in 1..MaxOutput
      /\ written[p] <= written'[p]
      /\ \A o \in Panes : o # p => written'[o] = written[o]
  BY <1>1, <1>2
<1>4. \/ ~CanShow /\ UNCHANGED out
      \/ CanShow /\ out' = Append(out, chunk)
      \/ CanShow /\ out # <<>> /\ out' = Append(Torn(out), chunk)
  <2>1. host.layout => host.snapshot
    BY StageParts DEF ArrivalInv
  <2> QED
    BY <1>3, <2>1, RoomWhenEmpty DEF PaneOutput, CanShow
<1>5. chunk \in Message /\ chunk.type = "pty" /\ chunk.value = [pane |-> p, nth |-> written[p] + 1]
  <2>1. [pane |-> p, nth |-> written[p] + 1] \in [pane : Panes, nth : 1..MaxOutput]
    BY <1>3
  <2> QED
    BY <2>1, MessageTypes DEF Msg
<1> HIDE DEF chunk
<1>6. CanShow' = CanShow /\ \A o : Listed(o)' = Listed(o)
  BY <1>2 DEF CanShow, Listed
<1>7. \A o : Mentions(chunk, o) => o = p
  BY <1>5 DEF Mentions
<1>8. ASSUME Extends(out, out'), \A i \in DOMAIN out' : i \in DOMAIN out \/ out'[i] = chunk
      PROVE  LifeInv'
  <2>1. \A i \in DOMAIN out' : i \in DOMAIN out \/
           /\ \A o \in Panes : Mentions(out'[i], o) => o \in open'
           /\ out'[i].type = "layout" => out'[i].value = open'
    BY <1>2, <1>5, <1>7, <1>8
  <2>2. \A o \in Panes \ (open' \cup closed') : written'[o] = written[o]
    BY <1>2, <1>3
  <2>3. open' \cap closed' = {}
    BY <1>2 DEF PictureInv, LifeInv
  <2> QED
    BY <1>2, <1>8, <2>1, <2>2, <2>3, LifeHost DEF PictureInv
<1>9. CASE UNCHANGED out /\ ~CanShow
  <2>1. MoreOf(out, out', Snapshots)
    BY <1>1, <1>9, Same, Grown
  <2>2. Extends(out, out') /\ MoreOf(out, out', {})
    BY <2>1, MoreExtends
  <2>3. LifeInv'
    BY <1>8, <1>9, <2>2
  <2>4. LastInv'
    BY <1>6, <1>9, Zenon DEF LastInv
  <2>5. \A o \in Panes : Heard(o)
    <3> SUFFICES ASSUME NEW o \in Panes PROVE Heard(o)
      OBVIOUS
    <3>1. ~Listed(o)'
      BY <1>6, <1>9 DEF Listed
    <3>2. written[o] <= written'[o]
      BY <1>1, <1>3
    <3> QED
      BY <1>9, <2>2, <3>1, <3>2, Unheard
  <2>6. \A i \in DOMAIN out' : out'[i] \in Message
    BY <1>1, Elements
  <2>7. ScreenInv'
    BY <1>2, <2>1, <2>5, <2>6, ScreenHost DEF PictureInv
  <2> QED
    BY <2>3, <2>4, <2>7 DEF PictureInv
<1>10. CASE CanShow /\ out' = Append(out, chunk)
  <2>1. MoreOf(out, out', Snapshots)
    <3>1. chunk \notin Snapshots
      BY <1>5 DEF Snapshots
    <3>2. Gained(out, out', Snapshots)
      BY <1>1, <1>5, <1>10, <3>1, AppendGains
    <3> QED
      BY <1>1, <3>2, Grown
  <2>2. Extends(out, out') /\ MoreOf(out, out', {})
    BY <2>1, MoreExtends
  <2>3. \A i \in DOMAIN out' : i \in DOMAIN out \/ out'[i] = chunk
    BY <1>1, <1>5, <1>10
  <2>4. LifeInv'
    BY <1>8, <2>2, <2>3
  <2>5. LastInv'
    <3>1. ~Tearing' => ~Tearing
      BY <2>2, StillWhole
    <3>2. \A i \in DOMAIN out' : i \in DOMAIN out \/ out'[i].type # "layout"
      BY <1>5, <2>3
    <3> QED
      BY <1>2, <1>6, <2>2, <3>1, <3>2, LastHost DEF PictureInv
  <2>6. Heard(p)
    <3> DEFINE w == written[p]
               live == Listed(p)'
               r == out'
    <3>1. Listed(p)
      BY <1>2, <1>10 DEF Listed
    <3>2. r = Append(out, Msg("pty", [pane |-> p, nth |-> w + 1])) /\ w \in Nat /\ w + 1 <= MaxOutput
      BY <1>2, <1>3, <1>10 DEF chunk
    <3> HIDE DEF w, live, r
    <3>3. \A b : Flow(b, out, w, TRUE, p) => Flow(b, r, w + 1, live, p)
      BY <1>1, <3>2, FlowQueued
    <3>4. (\A b : Flow(b, out, w, Listed(p), p) <=> Flow(b, out, w, TRUE, p)) /\ written'[p] = w + 1
      BY <1>3, <3>1 DEF Flow, w
    <3> QED
      BY <3>3, <3>4, Zenon DEF Heard, w, live, r
  <2>7. \A o \in Panes : Heard(o)
    <3> SUFFICES ASSUME NEW o \in Panes, o # p PROVE Heard(o)
      BY <2>6
    <3>1. \A n : chunk # Msg("pty", [pane |-> o, nth |-> n])
      BY <1>5 DEF Msg
    <3>2. \A i \in DOMAIN out' : i \in DOMAIN out \/ \A n \in 1..MaxOutput : ~Piece(out', i, o, n)
      BY <2>3, <3>1, Zenon DEF Piece
    <3>3. written[o] <= written'[o] /\ (Listed(o)' => written'[o] = written[o] /\ (Listed(o) \/ written[o] = 0))
      BY <1>1, <1>3, <1>6
    <3> QED
      BY <2>2, <3>2, <3>3, Unheard
  <2>8. \A i \in DOMAIN out' : out'[i] \in Message
    BY <1>1, Elements
  <2>9. ScreenInv'
    BY <1>2, <2>1, <2>7, <2>8, ScreenHost DEF PictureInv
  <2> QED
    BY <2>4, <2>5, <2>9 DEF PictureInv
<1>11. CASE CanShow /\ out # <<>> /\ out' = Append(Torn(out), chunk)
  <2> DEFINE r == Torn(out)
  <2>1. /\ r \in Seq(Message) /\ Len(r) = Len(out) /\ r[1].type = "torn" /\ 1 \in DOMAIN out
        /\ DOMAIN r = DOMAIN out /\ \A i \in DOMAIN out : i = 1 \/ r[i] = out[i]
    <3>1. Msg("torn", Head(out).type).type = "torn"
      BY DEF Msg
    <3> QED
      BY <1>1, <1>11, <3>1, TornForm, Zenon
  <2>2. out' = Append(r, chunk)
    BY <1>11
  <2> HIDE DEF r
  <2>3. /\ DOMAIN r = 1..Len(r) /\ DOMAIN out' = 1..Len(r) + 1 /\ Len(r) \in Nat
        /\ \A i \in DOMAIN r : out'[i] = r[i]
        /\ out'[Len(r) + 1] = chunk /\ out' # <<>>
    BY <1>5, <2>1, <2>2, Added
  <2>4. Tearing'
    <3>1. out'[1].type = "torn" /\ Head(out') = out'[1]
      BY <2>1, <2>3
    <3> QED
      BY <2>3, <3>1 DEF Tearing
  <2>5. \A i \in DOMAIN out' : i \in DOMAIN out \/ (out'[i] = chunk /\ \A j \in DOMAIN out : Later(i, j))
    <3>1. \A i \in 1..Len(r) + 1 : i \in 1..Len(r) \/ (i = Len(r) + 1 /\ \A j \in 1..Len(r) : Later(i, j))
      BY <2>3 DEF Later
    <3> QED
      BY <2>1, <2>3, <3>1
  <2>6. Extends(out, out')
    <3>1. \A i \in DOMAIN out : i \in DOMAIN out' /\ (out'[i] = out[i] \/ out'[i].type = "torn")
      BY <2>1, <2>3
    <3> QED
      BY <2>5, <3>1 DEF Extends
  <2>7. LifeInv'
    BY <1>8, <2>5, <2>6
  <2>8. LastInv'
    BY <2>4, Zenon DEF LastInv
  <2>9. ScreenInv'
    <3> HIDE DEF Tearing
    <3> QED
      BY <1>2, <2>4, ScreenHost DEF PictureInv
  <2> QED
    BY <2>7, <2>8, <2>9 DEF PictureInv
<1> QED
  BY <1>4, <1>9, <1>10, <1>11

-----------------------------------------------------------------------------
LEMMA BlankStep ==
  ASSUME IInv', ArrivalInv', PictureInv, ~host'.layout, UNCHANGED paneVars, sent' \in {{}, sent}
  PROVE  PictureInv'
<1>1. (ArrivalInv /\ ~host.layout => Blank)'
  BY BlankStage, PTL
<1>2. NoneOf(out', Bulk) /\ view' = <<>> /\ pending' = NothingKept
  BY <1>1 DEF Blank
<1>3. LifeInv'
  BY <1>2, LifeQuiet DEF PictureInv
<1> QED
  BY <1>3, BlankNext DEF PictureInv

LEMMA FailPicture ==
  ASSUME IInv, IInv', PictureInv, Fail(out), UNCHANGED <<paneVars, sent, view, pending>>
  PROVE  PictureInv'
<1>1. out \in Seq(Message) /\ host \in HostRecord /\ Fin \in Message
  BY MessageTypes DEF IInv, TypeOK, QueueTypes, HostTypes, HostRecord, Fin, Signals
<1>2. out' = Append(out, Fin) /\ host'.layout = host.layout /\ host'.failed
  BY <1>1 DEF Fail, HostRecord
<1>3. Gained(out, out', Drawn)
  BY <1>1, <1>2, UndrawnTypes, AppendGains
<1> QED
  BY <1>2, <1>3, PlainPicture

LEMMA TimersPicture ==
  ASSUME IInv, IInv', PictureInv,
         StatusTimer \/ CapabilityTimeout \/ ExecCmd \/ StatusChanges \/ ConnectFails \/ UNCHANGED vars
  PROVE  PictureInv'
<1>1. out \in Seq(Message) /\ status \in 0..MaxStatus /\ Gained(out, out, Drawn)
  <2>1. out \in Seq(Message) /\ status \in 0..MaxStatus
    BY DEF IInv, TypeOK, QueueTypes, HostTypes
  <2> QED
    BY <2>1, Same
<1>2. UNCHANGED <<paneVars, sent, view, pending>>
  BY DEF StatusTimer, CapabilityTimeout, ExecCmd, StatusChanges, ConnectFails, vars, hostVars, daemonVars
<1>3. CASE CapabilityTimeout
  <2>1. Fail(out)
    BY <1>3 DEF CapabilityTimeout
  <2> QED
    BY <1>2, <2>1, FailPicture
<1>4. CASE StatusTimer
  <2>1. out' = WithStatus(out) /\ UNCHANGED host
    BY <1>4 DEF StatusTimer
  <2>2. Msg("status", status) \in Message /\ Msg("status", status) \notin Drawn
    BY <1>1, MessageTypes, UndrawnTypes
  <2>3. Gained(out, out', Drawn)
    BY <1>1, <2>1, <2>2, AppendGains DEF WithStatus
  <2> QED
    BY <1>2, <2>1, <2>3, PlainPicture
<1>5. CASE ExecCmd
  <2>1. out' = Append(out, Msg("cmd", "opt")) /\ UNCHANGED host /\ "opt" \in CommandNames
    BY <1>5 DEF ExecCmd, CommandNames
  <2>2. Msg("cmd", "opt") \in Message /\ Msg("cmd", "opt") \notin Drawn
    BY <2>1, MessageTypes, UndrawnTypes
  <2>3. Gained(out, out', Drawn)
    BY <1>1, <2>1, <2>2, AppendGains
  <2> QED
    BY <1>2, <2>1, <2>3, PlainPicture
<1>6. CASE StatusChanges \/ ConnectFails \/ UNCHANGED vars
  <2>1. UNCHANGED <<out, host>>
    BY <1>6 DEF StatusChanges, ConnectFails, vars, hostVars
  <2>2. Gained(out, out', Drawn)
    BY <1>1, <2>1
  <2> QED
    BY <1>2, <2>1, <2>2, PlainPicture
<1> QED
  BY <1>3, <1>4, <1>5, <1>6

LEMMA ConnectPicture ==
  ASSUME IInv, IInv', ArrivalInv, ArrivalInv', PictureInv, Connect \/ Disconnected
  PROVE  PictureInv'
<1>1. host \in HostRecord /\ (link = "down" => ~host.layout)
  BY StageParts DEF IInv, TypeOK, HostTypes, HostRecord, ArrivalInv
<1>2. ~host'.layout /\ UNCHANGED paneVars /\ sent' \in {{}, sent}
  BY <1>1 DEF Connect, Disconnected, HostRecord
<1> QED
  BY <1>2, BlankStep

LEMMA NegotiatedPicture ==
  ASSUME OneSession, IInv, IInv', ArrivalInv, ArrivalInv', PictureInv,
         NEW c \in {"layout", "snapshot"}, Negotiated(c), UNCHANGED <<paneVars, view, pending>>
  PROVE  PictureInv'
<1>1. out \in Seq(Message) /\ host \in HostRecord /\ (host.layout => host.snapshot)
  BY StageParts DEF IInv, TypeOK, QueueTypes, HostTypes, HostRecord, ArrivalInv
<1> DEFINE h == [host EXCEPT ![c] = TRUE]
<1>2. h \in HostRecord /\ (c = "snapshot" => h.layout = host.layout)
  BY <1>1 DEF HostRecord
<1>3. \/ UNCHANGED <<host, sent, out>>
      \/ ~host[c] /\ h.layout /\ h.snapshot /\ StartSharing(h)
      \/ ~(h.layout /\ h.snapshot) /\ host' = h /\ UNCHANGED <<sent, out>>
  BY DEF Negotiated
<1> HIDE DEF h
<1>4. CASE UNCHANGED <<host, sent, out>>
  <2>1. Gained(out, out', Drawn)
    BY <1>1, <1>4, Same
  <2> QED
    BY <1>4, <2>1, PlainPicture
<1>5. CASE ~host[c] /\ h.layout /\ h.snapshot /\ StartSharing(h)
  <2>1. ~host.layout
    BY <1>1, <1>2, <1>5
  <2> QED
    BY <1>2, <1>5, <2>1, StartPicture
<1>6. CASE ~(h.layout /\ h.snapshot) /\ host' = h /\ UNCHANGED <<sent, out>>
  <2>1. host'.layout => host'.snapshot
    BY Zenon DEF ArrivalInv, StageInv
  <2>2. ~host'.layout /\ sent' \in {{}, sent}
    BY <1>6, <2>1
  <2> QED
    BY <2>2, BlankStep
<1> QED
  BY <1>3, <1>4, <1>5, <1>6

LEMMA HostReadsPicture ==
  ASSUME OneSession, IInv, IInv', ArrivalInv, ArrivalInv', PictureInv, HostReads
  PROVE  PictureInv'
<1>1. UNCHANGED <<paneVars, view, pending>>
  BY DEF HostReads, HostLayoutCapability, HostSnapshotCapability, HostReconnectCapability,
         HostSessionName, HostUpdateRequired, daemonVars
<1>2. out \in Seq(Message) /\ Gained(out, out, Drawn)
  <2>1. out \in Seq(Message)
    BY DEF IInv, TypeOK, QueueTypes
  <2> QED
    BY <2>1, Same
<1>3. CASE HostLayoutCapability
  <2>1. Negotiated("layout")
    BY <1>3, Zenon DEF HostLayoutCapability
  <2> QED
    BY <1>1, <2>1, NegotiatedPicture
<1>4. CASE HostSnapshotCapability
  <2>1. Negotiated("snapshot")
    BY <1>4, Zenon DEF HostSnapshotCapability
  <2> QED
    BY <1>1, <2>1, NegotiatedPicture
<1>5. CASE HostReconnectCapability
  <2>1. out' = Append(out, Msg("identity", 0)) /\ UNCHANGED <<host, sent>>
    BY <1>5 DEF HostReconnectCapability, hostVars
  <2>2. Msg("identity", 0) \in Message /\ Msg("identity", 0) \notin Drawn
    BY MessageTypes, UndrawnTypes DEF Signals
  <2>3. Gained(out, out', Drawn)
    BY <1>2, <2>1, <2>2, AppendGains
  <2> QED
    BY <1>1, <2>1, <2>3, PlainPicture
<1>6. CASE HostSessionName
  <2>1. UNCHANGED <<host, sent, out>>
    BY <1>6 DEF HostSessionName
  <2> QED
    BY <1>1, <1>2, <2>1, PlainPicture
<1>7. CASE HostUpdateRequired
  <2>1. Fail(out) \/ UNCHANGED <<host, out>>
    BY <1>7, Zenon DEF HostUpdateRequired
  <2>2. UNCHANGED sent
    BY <1>7 DEF HostUpdateRequired
  <2> QED
    BY <1>1, <1>2, <2>1, <2>2, FailPicture, PlainPicture
<1> QED
  BY <1>3, <1>4, <1>5, <1>6, <1>7, Zenon DEF HostReads

LEMMA FirstPictures == Init => PictureInv
<1> SUFFICES ASSUME Init PROVE PictureInv
  OBVIOUS
<1>1. IInv /\ ArrivalInv
  BY Initially, InitArrival
<1>2. ~host.layout /\ view = <<>> /\ pending = NothingKept
  BY DEF Init, NothingKept
<1>3. Blank
  BY <1>1, <1>2, BlankStage
<1>4. LastInv /\ ScreenInv
  BY <1>1, <1>3, BlankPicture
<1>5. LifeInv
  <2>1. \A i \in DOMAIN out : \A p : ~Mentions(out[i], p) /\ out[i].type # "layout"
    BY <1>3 DEF Blank, NoneOf, Bulk, Mentions
  <2>2. DOMAIN view = {} /\ (\A p \in Panes : pending[p] = <<>>) /\ sent = {} /\ closed = {}
        /\ \A p \in Panes : written[p] = 0
    BY <1>2 DEF NothingKept, Init
  <2> QED
    BY <2>1, <2>2 DEF LifeInv
<1> QED
  BY <1>4, <1>5 DEF PictureInv

-----------------------------------------------------------------------------
(* Steps of the daemon, one by one                                           *)

LEMMA Taken ==
  ASSUME IInv, out # <<>>, out' = Tail(out)
  PROVE  RestOf(out, out') /\ Head(out) = out[1] /\ Head(out) \in Message
<1>1. out \in Seq(Message)
  BY DEF IInv, TypeOK, QueueTypes
<1>2. RestOf(out, out')
  BY <1>1, Shifted
<1>3. Head(out) \in Message /\ Head(out) = out[1]
  BY <1>1
<1> QED
  BY <1>2, <1>3

(* A message that is not about panes.                                        *)
LEMMA PlainRead ==
  ASSUME IInv, PictureInv, UNCHANGED <<daemonRest, view, pending>>, out # <<>>, out' = Tail(out),
         Head(out).type \notin Bulk \cup {"torn"}
  PROVE  PictureInv'
<1>1. RestOf(out, out') /\ out[1].type \notin Bulk /\ ~Tearing
  BY Taken, HeadWhole
<1>2. UNCHANGED <<paneVars, host, sent, view, pending>>
  BY DEF daemonRest, hostVars
<1>3. LifeInv'
  BY <1>1, <1>2, LifeDaemon DEF PictureInv
<1>4. LastInv'
  <2>1. DOMAIN view' = IF out[1].type = "layout" THEN out[1].value ELSE DOMAIN view
    BY <1>1, <1>2 DEF Bulk
  <2> QED
    BY <1>1, <1>2, <2>1, LastDaemon DEF PictureInv
<1>5. ScreenInv'
  BY <1>1, <1>2, ScreenRest DEF PictureInv
<1> QED
  BY <1>3, <1>4, <1>5 DEF PictureInv

LEMMA PlainReads ==
  ASSUME IInv, PictureInv,
         DaemonHeader \/ DaemonCommand \/ DaemonIdentity \/ DaemonReady \/ DaemonStatus \/ DaemonFin
  PROVE  PictureInv'
<1> DEFINE Kind == {"header", "cmd", "identity", "ready", "status", "fin"}
<1>1. \E k \in Kind : DaemonGets(k) /\ UNCHANGED <<daemonRest, view, pending>>
  BY DEF DaemonHeader, DaemonCommand, DaemonIdentity, DaemonReady, DaemonStatus, DaemonFin
<1>2. PICK k \in Kind : DaemonGets(k) /\ UNCHANGED <<daemonRest, view, pending>>
  BY <1>1
<1>3. k \notin Bulk \cup {"torn"}
  BY DEF Bulk
<1>4. out # <<>> /\ out' = Tail(out) /\ Head(out).type = k
  BY <1>2, Reading
<1> QED
  BY <1>2, <1>3, <1>4, PlainRead

LEMMA IgnoresPicture ==
  ASSUME IInv, IInv', ArrivalInv, ArrivalInv', PictureInv, DaemonIgnores
  PROVE  PictureInv'
<1>1. gate.refused /\ UNCHANGED <<paneVars, host, sent>>
  BY DEF DaemonIgnores, daemonRest, hostVars
<1>2. ~host'.layout
  BY <1>1, StageParts DEF ArrivalInv
<1> QED
  BY <1>1, <1>2, BlankStep

LEMMA LayoutPicture ==
  ASSUME IInv, ArrivalInv, PictureInv, DaemonLayout
  PROVE  PictureInv'
<1>1. /\ DaemonGets("layout") /\ UNCHANGED daemonRest
      /\ view' = [p \in Head(out).value |-> IF p \in DOMAIN view THEN view[p] ELSE Written(0, pending[p])]
      /\ pending' = NothingKept
  BY DEF DaemonLayout, Value, NothingKept
<1>2. out # <<>> /\ out' = Tail(out) /\ Head(out).type = "layout"
  BY <1>1, Reading
<1>3. RestOf(out, out') /\ Head(out) = out[1] /\ out[1].type = "layout" /\ ~Tearing
  BY <1>2, Taken, HeadWhole
<1>4. out[1].value \in SUBSET Panes
  BY <1>2, <1>3, Taken, Carried
<1>5. UNCHANGED <<paneVars, host, sent>>
  BY <1>1 DEF daemonRest, hostVars
<1>6. view' = [p \in out[1].value |-> IF p \in DOMAIN view THEN view[p] ELSE Written(0, pending[p])]
  BY <1>1, <1>3
<1>7. DOMAIN view' = out[1].value
  BY <1>6
<1>8. SnapshotInv /\ LifeInv /\ LastInv /\ ScreenInv
  BY DEF ArrivalInv, PictureInv
<1>9. LifeInv'
  <2>1. \A p \in Panes : pending'[p] = <<>>
    BY <1>1 DEF NothingKept
  <2>2. \A p \in Panes : ~Mentions(out[1], p) => p \notin DOMAIN view'
    BY <1>3, <1>7 DEF Mentions
  <2> QED
    BY <1>3, <1>5, <1>8, <2>1, <2>2, LifeDaemon
<1>10. LastInv'
  BY <1>3, <1>5, <1>7, <1>8, LastDaemon
<1>11. ScreenInv'
  BY <1>1, <1>3, <1>4, <1>5, <1>6, <1>8, ScreenLayout
<1> QED
  BY <1>9, <1>10, <1>11 DEF PictureInv

LEMMA SnapshotPicture ==
  ASSUME IInv, ArrivalInv, PictureInv, DaemonSnapshot
  PROVE  PictureInv'
<1>1. DaemonGets("snapshot") /\ UNCHANGED <<daemonRest, pending>>
  BY DEF DaemonSnapshot
<1>2. out # <<>> /\ out' = Tail(out) /\ Head(out).type = "snapshot"
  BY <1>1, Reading
<1>3. RestOf(out, out') /\ Head(out) = out[1] /\ out[1].type = "snapshot" /\ ~Tearing
  BY <1>2, Taken, HeadWhole
<1>4. out[1].value \in UNION {[ps -> 0..MaxOutput] : ps \in SUBSET Panes}
  BY <1>2, <1>3, Taken, Carried
<1>5. UNCHANGED <<paneVars, host, sent, pending>>
  BY <1>1 DEF daemonRest, hostVars
<1>6. SnapshotInv /\ LifeInv /\ LastInv /\ ScreenInv
  BY DEF ArrivalInv, PictureInv
<1>7. gate.layout /\ DOMAIN view = DOMAIN out[1].value
  <2>1. 1 \in DOMAIN out
    BY <1>3, Zenon DEF RestOf
  <2> QED
    BY <1>3, <1>6, <2>1, Zenon DEF SnapshotInv
<1>8. view' = out[1].value
  BY <1>3, <1>7 DEF DaemonSnapshot, Value
<1>9. DOMAIN view' = DOMAIN view
  BY <1>7, <1>8
<1>10. LifeInv'
  BY <1>3, <1>5, <1>6, <1>9, LifeDaemon
<1>11. LastInv'
  BY <1>3, <1>5, <1>6, <1>9, LastDaemon
<1>12. ScreenInv'
  BY <1>3, <1>4, <1>5, <1>6, <1>8, ScreenSnapshot
<1> QED
  BY <1>10, <1>11, <1>12 DEF PictureInv

LEMMA DaemonOutputPicture ==
  ASSUME IInv, ArrivalInv, PictureInv, DaemonOutput
  PROVE  PictureInv'
<1>1. DaemonGets("pty") /\ UNCHANGED daemonRest
  BY DEF DaemonOutput
<1>2. out # <<>> /\ out' = Tail(out) /\ Head(out).type = "pty"
  BY <1>1, Reading
<1>3. RestOf(out, out') /\ Head(out) = out[1] /\ out[1].type = "pty" /\ ~Tearing
  BY <1>2, Taken, HeadWhole
<1>4. out[1].value \in [pane : Panes, nth : 1..MaxOutput] /\ out[1] = Msg("pty", out[1].value)
  <2>1. out[1] \in Message
    BY <1>2, <1>3, Taken
  <2> QED
    BY <1>3, <2>1, Carried, MessageForm DEF Msg
<1>5. PICK p0 \in Panes, n \in 1..MaxOutput : out[1].value = [pane |-> p0, nth |-> n]
  BY <1>4
<1>6. out[1] = Msg("pty", [pane |-> p0, nth |-> n])
  BY <1>4, <1>5
<1>7. Value.pane = p0 /\ Value.nth = n
  BY <1>3, <1>5 DEF Value
<1>8. IF p0 \in DOMAIN view
      THEN view' = [view EXCEPT ![p0] = Written(@, <<n>>)] /\ UNCHANGED pending
      ELSE pending' = [pending EXCEPT ![p0] = Append(@, n)] /\ UNCHANGED view
  BY <1>7, Zenon DEF DaemonOutput
<1>9. UNCHANGED <<paneVars, host, sent>>
  BY <1>1 DEF daemonRest, hostVars
<1>10. SnapshotInv /\ LifeInv /\ LastInv /\ ScreenInv
  BY DEF ArrivalInv, PictureInv
<1>11. DOMAIN view' = DOMAIN view
  BY <1>8
<1>12. LifeInv'
  <2>1. Mentions(out[1], p0)
    BY <1>3, <1>5 DEF Mentions
  <2>2. \A p \in Panes : p # p0 => pending'[p] = pending[p]
    BY <1>8 DEF IInv, TypeOK, DaemonTypes
  <2>3. \A p \in Panes : ~Mentions(out[1], p) /\ p \notin DOMAIN view /\ pending[p] = <<>> =>
          p \notin DOMAIN view' /\ pending'[p] = <<>>
    BY <1>11, <2>1, <2>2, Zenon
  <2> QED
    BY <1>3, <1>9, <1>10, <2>3, LifeDaemon
<1>13. LastInv'
  BY <1>3, <1>9, <1>10, <1>11, LastDaemon
<1>14. ScreenInv'
  BY <1>3, <1>6, <1>8, <1>9, <1>10, ScreenOutput
<1> QED
  BY <1>12, <1>13, <1>14 DEF PictureInv

LEMMA DaemonReadsPicture ==
  ASSUME IInv, IInv', ArrivalInv, ArrivalInv', PictureInv, DaemonReads
  PROVE  PictureInv'
<1>1. CASE DaemonTorn
  BY <1>1, ConnectPicture DEF DaemonTorn
<1> QED
  BY <1>1, PlainReads, IgnoresPicture, LayoutPicture, SnapshotPicture, DaemonOutputPicture, Zenon
     DEF DaemonReads

-----------------------------------------------------------------------------
Pictured == Arriving /\ PictureInv

LEMMA StepsPicture == ASSUME OneSession PROVE Pictured /\ [Next]_vars => Pictured'
<1> SUFFICES ASSUME Pictured, [Next]_vars PROVE PictureInv'
  BY StepsArrival DEF Pictured
<1>1. Arriving'
  BY StepsArrival DEF Pictured
<1>2. IInv /\ ArrivalInv /\ PictureInv /\ IInv' /\ ArrivalInv'
  BY <1>1 DEF Pictured, Arriving
<1>3. CASE HostReads    BY <1>2, <1>3, HostReadsPicture
<1>4. CASE DaemonReads  BY <1>2, <1>4, DaemonReadsPicture
<1>5. CASE Lost \/ DaemonEnds \/ Connect
  BY <1>2, <1>5, ConnectPicture DEF Lost, DaemonEnds
<1>6. CASE StatusTimer \/ CapabilityTimeout \/ ExecCmd \/ StatusChanges \/ ConnectFails \/ UNCHANGED vars
  BY <1>2, <1>6, TimersPicture
<1>7. CASE ServerLoop
  <2>1. FirstPane \in Panes /\ TRUE \in BOOLEAN
    BY SharingAssumption
  <2> QED
    BY <1>2, <1>7, <2>1, PanesPicture
<1>8. CASE \E p \in Panes : PaneOutput(p) \/ SelectWindow(p)
  <2>1. TRUE \in BOOLEAN
    OBVIOUS
  <2> QED
    BY <1>2, <1>8, <2>1, OutputPicture, PanesPicture
<1>9. CASE \E p \in Panes, w \in BOOLEAN : OpenPane(p, w) \/ ClosePane(p, w)
  BY <1>2, <1>9, PanesPicture
<1> QED
  BY <1>3, <1>4, <1>5, <1>6, <1>7, <1>8, <1>9, Zenon DEF Next

(* What has arrived is all that was written, once nothing is on its way.      *)
LEMMA NothingLeft ==
  ASSUME NEW b, NEW w \in Nat, w <= MaxOutput, MaxOutput \in Nat, NEW p, Flow(b, <<>>, w, TRUE, p)
  PROVE  b = w
<1>1. b \in 0..w /\ \A n \in (b + 1)..w : \E i \in DOMAIN <<>> : Piece(<<>>, i, p, n)
  BY Zenon DEF Flow
<1>2. \A n \in (b + 1)..w : FALSE
  BY <1>1
<1> QED
  BY <1>1, <1>2

(* If all panes are in the session that is shared, then whatever connections  *)
(* break, windows and panes come and go, and layouts do not fit in the buffer: *)
(* no screen ever gets output twice or lacks some, and when nothing is on its  *)
(* way the daemon has the panes of the last layout with all that was written.  *)
THEOREM Mirroring ==
  ASSUME OneSession
  PROVE  Spec => []Mirror
<1>1. Init => Pictured
  BY FirstArriving, FirstPictures DEF Pictured
<1>2. Pictured /\ [Next]_vars => Pictured'
  BY StepsPicture
<1>3. Pictured => Mirror
  <2> SUFFICES ASSUME Pictured PROVE Mirror
    OBVIOUS
  <2>1. IInv /\ LastInv /\ ScreenInv
    BY DEF Pictured, Arriving, PictureInv
  <2>2. \A p \in DOMAIN view : view[p] # Garbled
    BY <2>1 DEF ScreenInv
  <2>3. ASSUME out = <<>>, CanShow
        PROVE  DOMAIN view = sent /\ \A p \in sent : view[p] = written[p]
    <3>1. ~Tearing /\ DOMAIN out = {}
      BY <2>3 DEF Tearing
    <3>2. DOMAIN view = sent
      BY <2>1, <2>3, <3>1, Zenon DEF LastInv
    <3>3. ASSUME NEW p \in sent PROVE view[p] = written[p]
      <4>1. p \in Panes /\ written[p] \in Nat /\ written[p] <= MaxOutput /\ MaxOutput \in Nat
        BY <2>1, <3>2, ScreenTypes
      <4>2. Flow(Base(view, pending, p), out, written[p], Listed(p), p)
        <5>1. NoneOf(out, {"snapshot"})
          BY <3>1 DEF NoneOf
        <5> QED
          BY <2>1, <3>1, <4>1, <5>1, Zenon DEF ScreenInv, Continues
      <4>3. Base(view, pending, p) = view[p] /\ Listed(p) = TRUE
        BY <2>3, <3>2 DEF Base, Listed
      <4>4. Flow(view[p], <<>>, written[p], TRUE, p)
        <5> HIDE DEF Flow, Base, Listed
        <5> QED
          BY <2>3, <4>2, <4>3
      <4> QED
        BY <4>1, <4>4, NothingLeft
    <3> QED
      BY <3>2, <3>3
  <2> QED
    BY <2>2, <2>3 DEF Mirror
<1> QED
  BY <1>1, <1>2, <1>3, PTL DEF Spec
=============================================================================
