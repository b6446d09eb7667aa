---------------------------- MODULE ControlOutput ----------------------------
(***************************************************************************)
(* Output of a control mode client (control.c): lines - replies to commands*)
(* and notifications - and the output of panes, which share one queue; the *)
(* client's output buffer; and the buffers of the panes, which are drained *)
(* and read no faster than the client takes their contents                 *)
(* (server-client.c, window.c).                                            *)
(*                                                                         *)
(* A step is a callback of the server's event loop, a command, or a turn   *)
(* of server_client_loop; control_write_callback takes several, between    *)
(* which nothing else happens.                                             *)
(*                                                                         *)
(* Abstracted: a line takes as much room as a byte, and a byte is not      *)
(* escaped; the contents of lines; ages, a block is too old or not.        *)
(***************************************************************************)
EXTENDS Naturals, Sequences, FiniteSets, SequencesExt

CONSTANTS
  Panes,        \* panes of one window each
  Low, High,    \* CONTROL_BUFFER_LOW and CONTROL_BUFFER_HIGH
  Minimum,      \* CONTROL_WRITE_MINIMUM
  MaxReplies,   \* CONTROL_MAXIMUM_REPLY_BUFFER
  Others,       \* is another client attached, one with a terminal?
  Suspends,     \* bound: is the client ever suspended?
  MaxBytes,     \* bound: output of each pane between respawns
  Steady,       \* bound: panes that stay, with their processes, in the session
  MaxLines      \* bound: lines for the client

\* What a line says.
Kinds == {"begin", "end", "pause", "continue"}

ControlAssumption ==
  /\ IsFiniteSet(Panes) /\ Panes \cap Kinds = {}
  /\ Low \in Nat /\ High \in Nat /\ Low < High /\ Minimum \in Nat \ {0}
  /\ MaxReplies \in Nat \ {0} /\ MaxBytes \in [Panes -> Nat] /\ MaxLines \in Nat
  /\ Steady \subseteq Panes
  /\ Others \in BOOLEAN /\ Suspends \in BOOLEAN

ASSUME ControlAssumption

VARIABLES
  pane,         \* pane[p]: a pane, how much it wrote and what its buffer lost
  cp,           \* cp[p]: its control_pane; its blocks are those in client.all
  pending,      \* pending_list
  client,       \* the client: its queue, its buffer and what it was sent
  flags,        \* its flags: no-output, suspended, pause-after
  cb            \* where control_write_callback is

vars == <<pane, cp, pending, client, flags, cb>>

\* "skipped" is history: output was passed over while earlier output was queued,
\* and the offset has not been set since.
NoPane == [known |-> FALSE, offset |-> 0, queued |-> 0, off |-> FALSE, paused |-> FALSE,
           skipped |-> FALSE]
NewClient ==
  [all |-> <<>>, told |-> [n |-> 0, open |-> FALSE, ok |-> TRUE], evb |-> 0, lines |-> 0,
   writing |-> FALSE, exit |-> FALSE, discard |-> FALSE, timer |-> FALSE, exited |-> FALSE,
   lost |-> FALSE]
Idle == [on |-> FALSE, todo |-> <<>>, used |-> 0, limit |-> 0, message |-> 0]

-----------------------------------------------------------------------------
(***************************************************************************)
(* The queue of blocks: output of a pane, or a line.  A line has a number, *)
(* output the number of lines before it.                                   *)
(***************************************************************************)
Larger(i, k) == IF i > k THEN i ELSE k
Smaller(i, k) == IF i < k THEN i ELSE k

IsOutput(b) == b.what \in Panes

\* The places of lines, and of the blocks of a pane.
LineBlocks(all) == {i \in DOMAIN all : ~IsOutput(all[i])}
Blocks(all, p) == {i \in DOMAIN all : all[i].what = p}

\* How much the blocks of a pane announce: all their bytes.
Size(all, p) == Cardinality(UNION {{i} \X (1..all[i].size) : i \in Blocks(all, p)})

\* The k-th of some places.
Nth(places, k) == CHOOSE i \in places : Cardinality({j \in places : j <= i}) = k

\* TAILQ_REMOVE of everything else: what is at some places stays, in its order.
Only(s, places) == [k \in 1..Cardinality(places) |-> s[Nth(places, k)]]

\* control_discard_pane
Discard(c, ps) == [c EXCEPT !.all = Only(@, {i \in DOMAIN @ : @[i].what \notin ps})]

\* What the client was told, as it can tell: how many lines, whether a block is
\* open, and whether each line was in its place.
Told(told, lines) ==
  LET open(i) == IF i = 0 THEN told.open ELSE lines[i].what = "begin"
  IN [n |-> told.n + Len(lines), open |-> open(Len(lines)),
      ok |-> /\ told.ok
             /\ \A i \in DOMAIN lines :
                  lines[i].no = told.n + i /\ (open(i - 1) => lines[i].what = "end")]

\* How many lines there are before the first output.
Leading(all) ==
  LET output == DOMAIN all \ LineBlocks(all)
  IN IF output = {} THEN Len(all) ELSE Nth(output, 1) - 1

\* control_flush_all_blocks
Flush(c) ==
  LET n == Leading(c.all)
  IN [c EXCEPT !.all = SubSeq(@, n + 1, Len(@)),
               !.told = Told(@, SubSeq(c.all, 1, n)),
               !.evb = @ + n]

\* control_check_reply_buffer, when there is too much.
TooFarBehind(c) ==
  [(IF c.exit THEN c ELSE Discard(c, Panes)) EXCEPT !.exit = TRUE, !.discard = TRUE]

\* Mutant: what waits in the queue is not counted.
RoomInBuffer(c) == Larger(MaxReplies, c.evb + 1) - c.evb - 1

Room(c) ==
  LET behind == c.evb + Cardinality(LineBlocks(c.all)) + 1 IN Larger(MaxReplies, behind) - behind

\* Lines at the end of the queue, or written at once when there is none.
Put(c, lines) ==
  IF c.all = <<>>
    THEN [c EXCEPT !.told = Told(@, lines), !.evb = @ + Len(lines), !.writing = TRUE]
    ELSE [c EXCEPT !.all = @ \o lines, !.writing = TRUE]

\* control_write_line, for each of some lines
WriteLines(c, kinds) ==
  LET lines == [i \in DOMAIN kinds |-> [what |-> kinds[i], size |-> 0, no |-> c.lines + i]]
      counted == [c EXCEPT !.lines = @ + Len(kinds)]
  IN CASE c.discard -> counted
       [] ~c.discard /\ Len(lines) <= Room(c) -> Put(counted, lines)
       [] ~c.discard /\ Len(lines) > Room(c) ->
            TooFarBehind(IF Room(c) = 0 THEN counted
                         ELSE Put(counted, SubSeq(lines, 1, Room(c))))

\* Mutant: notifications are written where they arise.
ReplyAtOnce(c, ps, notes) ==
  WriteLines(Discard(WriteLines(c, <<"begin">>), ps), notes \o <<"end">>)

\* A command between its guards: it may discard output, and what it has to
\* notify is deferred until the block is closed.
Reply(c, ps, notes) ==
  WriteLines(Discard(WriteLines(c, <<"begin">>), ps), <<"end">> \o notes)

-----------------------------------------------------------------------------
Init ==
  /\ pane = [p \in Panes |-> [made |-> 0, base |-> 0, alive |-> TRUE, linked |-> TRUE,
                              reading |-> TRUE]]
  /\ cp = [p \in Panes |-> NoPane]
  /\ pending = <<>>
  /\ client = NewClient
  /\ flags \in [noOutput : {FALSE}, suspended : {FALSE}, pauseAfter : BOOLEAN]
  /\ cb = Idle

Between == ~cb.on
Ignoring == flags.noOutput \/ flags.suspended \/ client.exit
On(p) == cp[p].known /\ ~cp[p].off /\ ~cp[p].paused
Attached(c) == ~c.lost

\* Offsets at the end of what the pane wrote.
At(n, x) == [x EXCEPT !.offset = n, !.queued = n, !.skipped = FALSE]

-----------------------------------------------------------------------------
(***************************************************************************)
(* Panes.                                                                  *)
(***************************************************************************)

\* control_check_age finds the first block too old: the pane is paused, or the
\* client told to exit.
Aged(p, c, x) ==
  IF flags.pauseAfter
    THEN /\ cp' = [cp EXCEPT ![p] = [x EXCEPT !.paused = TRUE]]
         /\ client' = WriteLines(Discard(c, {p}), <<"pause">>)
    ELSE /\ cp' = [cp EXCEPT ![p] = x]
         /\ client' = [Discard(c, Panes) EXCEPT !.exit = TRUE]

NewBlock(p, n, x) ==
  /\ client' = [client EXCEPT !.writing = TRUE,
                  !.all = Append(@, [what |-> p, size |-> n - x.queued, no |-> client.lines])]
  /\ cp' = [cp EXCEPT ![p] = [x EXCEPT !.queued = n]]
  /\ pending' = IF p \in Range(pending) THEN pending ELSE Append(pending, p)

\* Both offsets pass over the output; blocks that are queued stay.
Ignore(p, n, x) ==
  cp' = [cp EXCEPT ![p] = [At(n, x) EXCEPT !.skipped = Blocks(client.all, p) # {}]]

\* control_write_output
WriteOutput(p, n) ==
  LET x == IF cp[p].known THEN cp[p] ELSE [At(pane[p].made, NoPane) EXCEPT !.known = TRUE]
  IN \/ /\ ~pane[p].linked \/ (Ignoring /\ ~cp[p].known)
        /\ UNCHANGED <<cp, client, pending>>
     \/ /\ pane[p].linked
        /\ (Ignoring /\ cp[p].known) \/ (~Ignoring /\ (x.off \/ x.paused))
        /\ Ignore(p, n, x) /\ UNCHANGED <<client, pending>>
     \/ /\ pane[p].linked /\ ~Ignoring /\ ~x.off /\ ~x.paused
        /\ \/ NewBlock(p, n, x)
           \/ /\ Blocks(client.all, p) # {} /\ client.lines < MaxLines
              /\ Aged(p, client, x) /\ UNCHANGED pending

\* window_pane_read_callback
PaneOutput(p, n) ==
  /\ Between /\ pane[p].alive /\ pane[p].reading /\ Attached(client)
  /\ n > pane[p].made /\ n <= MaxBytes[p]
  /\ WriteOutput(p, n)
  /\ pane' = [pane EXCEPT ![p].made = n, ![p].reading = FALSE]
  /\ UNCHANGED <<flags, cb>>

\* The pane's process ends, and the pane stays (remain-on-exit).
PaneEnds(p) ==
  /\ Between /\ Attached(client) /\ pane[p].alive
  /\ pane' = [pane EXCEPT ![p].alive = FALSE]
  /\ UNCHANGED <<cp, pending, client, flags, cb>>

\* Mutant: blocks into the old buffer stay.
ResetPaneKeepsBlocks(p) ==
  /\ cp' = [cp EXCEPT ![p] = At(0, @)]
  /\ UNCHANGED client

\* control_reset_pane
ResetPane(p) ==
  /\ cp' = [cp EXCEPT ![p] = At(0, @)]
  /\ client' = IF cp[p].known THEN Discard(client, {p}) ELSE client

\* spawn_pane with respawn: an empty buffer.
Respawn(p) ==
  /\ Between /\ Attached(client) /\ pane[p].made > 0
  /\ pane' = [pane EXCEPT ![p] = [@ EXCEPT !.made = 0, !.base = 0, !.alive = TRUE,
                                           !.reading = TRUE]]
  /\ ResetPane(p)
  /\ UNCHANGED <<pending, flags, cb>>

\* The window leaves the client's session, or the client leaves for another one,
\* and back.
Move(p) ==
  /\ Between /\ Attached(client)
  /\ pane' = [pane EXCEPT ![p].linked = ~@]
  /\ UNCHANGED <<cp, pending, client, flags, cb>>

-----------------------------------------------------------------------------
(***************************************************************************)
(* Commands and notifications.                                             *)
(***************************************************************************)
Speaks(lines) ==
  Between /\ Attached(client) /\ ~client.exit /\ client.lines + lines <= MaxLines

\* Any command.
Command ==
  /\ Speaks(2)
  /\ client' = Reply(client, {}, <<>>)
  /\ UNCHANGED <<pane, cp, pending, flags, cb>>

Made(p) == pane[p].made

\* refresh-client -A %p:on, control_set_pane_on
SetPaneOn(p) ==
  /\ Speaks(2)
  /\ client' = Reply(client, {}, <<>>)
  /\ cp' = IF cp[p].off
             THEN [cp EXCEPT ![p] = [At(Made(p), @) EXCEPT !.off = FALSE]] ELSE cp
  /\ UNCHANGED <<pane, pending, flags, cb>>

\* refresh-client -A %p:off, control_set_pane_off
SetPaneOff(p) ==
  /\ Speaks(2)
  /\ client' = Reply(client, {p}, <<>>)
  /\ cp' = [cp EXCEPT ![p] = [At(Made(p), @) EXCEPT !.known = TRUE, !.off = TRUE]]
  /\ UNCHANGED <<pane, pending, flags, cb>>

\* refresh-client -A %p:continue, control_continue_pane
ContinuePane(p) ==
  /\ Speaks(3) /\ cp[p].paused
  /\ client' = Reply(client, {}, <<"continue">>)
  /\ cp' = [cp EXCEPT ![p] = [At(Made(p), @) EXCEPT !.paused = FALSE]]
  /\ UNCHANGED <<pane, pending, flags, cb>>

\* refresh-client -A %p:pause, control_pause_pane
PausePane(p) ==
  /\ Speaks(3) /\ ~cp[p].paused
  /\ client' = Reply(client, {p}, <<"pause">>)
  /\ cp' = [cp EXCEPT ![p] = [(IF @.known THEN @ ELSE At(Made(p), @))
                                EXCEPT !.known = TRUE, !.paused = TRUE]]
  /\ UNCHANGED <<pane, pending, flags, cb>>

\* refresh-client -f no-output or !no-output: control_reset_offsets
SetNoOutput(on) ==
  /\ Speaks(2)
  /\ flags' = [flags EXCEPT !.noOutput = on]
  /\ client' = Reply(client, Panes, <<>>)
  /\ cp' = [p \in Panes |-> NoPane]
  /\ pending' = <<>>
  /\ UNCHANGED <<pane, cb>>

\* suspend-client; the client's return, MSG_WAKEUP
Suspend(on) ==
  /\ Suspends /\ Between /\ Attached(client) /\ flags.suspended # on /\ (on => ~client.exit)
  /\ flags' = [flags EXCEPT !.suspended = on]
  /\ UNCHANGED <<pane, cp, pending, client, cb>>

\* The client detaches, sends an empty line or closes its end.
Exit ==
  /\ Between /\ Attached(client) /\ ~client.exit
  /\ client' = [client EXCEPT !.exit = TRUE]
  /\ UNCHANGED <<pane, cp, pending, flags, cb>>

-----------------------------------------------------------------------------
(***************************************************************************)
(* server_client_loop.                                                     *)
(***************************************************************************)

\* Mutant: a client that does not read is waited for.
CheckExitQuiet(c) ==
  IF ~c.exit \/ c.exited \/ c.lost THEN c
  ELSE LET d == Discard(c, Panes)
       IN IF d.all = <<>> /\ d.evb = 0 THEN [d EXCEPT !.exited = TRUE, !.timer = TRUE] ELSE d

\* server_client_check_exit: a client that exits gets its lines, as long as it
\* takes them before the timer fires.
CheckExit(c) ==
  IF ~c.exit \/ c.exited \/ c.lost THEN c
  ELSE LET d == Discard(c, Panes)
       IN [d EXCEPT !.exited = d.all = <<>> /\ d.evb = 0, !.timer = TRUE]

\* control_pane_offset: what the client still has to be sent counts ...
Holds(p) == Attached(client) /\ ~flags.noOutput /\ On(p)
\* ... and whether it cannot be sent more now.
Refuses(p) ==
  /\ Attached(client) /\ ~flags.noOutput /\ cp[p].known /\ ~cp[p].paused
  /\ cp[p].off \/ client.evb >= Low

\* Mutant: what is queued counts as sent.
NeedlessQueued(p, x) ==
  IF Holds(p) /\ cp[p].queued < x.made THEN cp[p].queued ELSE x.made

\* How far the buffer may be drained.
Needless(p, x) == IF Holds(p) /\ cp[p].offset < x.made THEN cp[p].offset ELSE x.made

\* Mutant: nothing to drain, nothing to do.
CheckPaneBufferEarly(p, x) ==
  IF ~x.alive \/ Needless(p, x) = x.base THEN x
  ELSE [x EXCEPT !.base = Needless(p, x), !.reading = Others \/ ~Refuses(p)]

\* server_client_check_pane_buffer
CheckPaneBuffer(p, x) ==
  IF ~x.alive THEN x
  ELSE [x EXCEPT !.base = Needless(p, x), !.reading = Others \/ ~Refuses(p)]

ServerClientLoop ==
  /\ Between
  /\ client' = CheckExit(client)
  /\ pane' = [p \in Panes |-> CheckPaneBuffer(p, pane[p])]
  /\ UNCHANGED <<cp, pending, flags, cb>>

\* control_stop, and what refers to the client is gone with it.
Stop ==
  /\ client' = [NewClient EXCEPT !.lost = TRUE]
  /\ cp' = [p \in Panes |-> NoPane]
  /\ pending' = <<>>

\* server_client_exit_timer: gives up the rest (control_discard_all), then the
\* client.  A client that is suspended is left alone.
ExitTimer ==
  /\ Between /\ client.timer
  /\ \/ /\ flags.suspended
        /\ client' = [client EXCEPT !.timer = FALSE] /\ UNCHANGED <<cp, pending>>
     \/ /\ ~flags.suspended /\ ~client.exited
        /\ client' = [client EXCEPT !.all = <<>>, !.writing = FALSE, !.exited = TRUE]
        /\ UNCHANGED <<cp, pending>>
     \/ /\ ~flags.suspended /\ client.exited /\ Stop
  /\ UNCHANGED <<pane, flags, cb>>

\* The client closes its socket: server_client_lost.
ClientLost ==
  /\ Between /\ Attached(client) /\ Stop
  /\ UNCHANGED <<pane, flags, cb>>

-----------------------------------------------------------------------------
(***************************************************************************)
(* control_write_callback.                                                 *)
(***************************************************************************)
\* The client takes n bytes; with so few left the callback runs.
Writable(n) ==
  /\ Between /\ client.writing /\ Attached(client)
  /\ n <= client.evb /\ (client.evb > 0 => n > 0)
  /\ LET c == [client EXCEPT !.evb = @ - n]
     IN IF c.evb <= Low
          THEN client' = Flush(c) /\ cb' = [Idle EXCEPT !.on = TRUE]
          ELSE client' = c /\ UNCHANGED cb
  /\ UNCHANGED <<pane, cp, pending, flags>>

\* A pass over the panes that have something to send.
Pass ==
  /\ cb.on /\ cb.todo = <<>> /\ pending # <<>> /\ client.evb < High
  /\ cb' = [cb EXCEPT !.todo = pending, !.used = 0, !.message = 0,
              !.limit = Larger(Minimum, (High - client.evb) \div Len(pending))]
  /\ UNCHANGED <<pane, cp, pending, client, flags>>

\* The buffer is full in the middle of a pass.
Full ==
  /\ cb.on /\ cb.todo # <<>> /\ cb.used = 0 /\ client.evb >= High
  /\ cb' = [cb EXCEPT !.todo = <<>>]
  /\ UNCHANGED <<pane, cp, pending, client, flags>>

\* Mutant: a client whose buffer is empty is not waited for.
CallbackDoneNever ==
  /\ cb.on /\ cb.todo = <<>> /\ (pending = <<>> \/ client.evb >= High)
  /\ client' = [client EXCEPT !.writing = FALSE]
  /\ cb' = Idle
  /\ UNCHANGED <<pane, cp, pending, flags>>

CallbackDone ==
  /\ cb.on /\ cb.todo = <<>> /\ (pending = <<>> \/ client.evb >= High)
  /\ client' = [client EXCEPT !.writing = client.evb > 0]
  /\ cb' = Idle
  /\ UNCHANGED <<pane, cp, pending, flags>>

Turn(p) == cb.on /\ cb.todo # <<>> /\ p = Head(cb.todo) /\ (cb.used > 0 \/ client.evb < High)
Here(p) == pane[p].linked /\ pane[p].alive
NextTurn == [cb EXCEPT !.todo = Tail(@), !.used = 0, !.message = 0]
NoLonger(p) == Only(pending, {i \in DOMAIN pending : pending[i] # p})

\* control_write_pending: the pane has gone.
PaneGone(p) ==
  /\ Turn(p) /\ ~Here(p)
  /\ client' = Flush(Discard(client, {p}))
  /\ pending' = NoLonger(p)
  /\ cb' = NextTurn
  /\ UNCHANGED <<pane, cp, flags>>

HasMore(p) == Turn(p) /\ Here(p) /\ Blocks(client.all, p) # {} /\ cb.used < cb.limit

\* ... its first block is too old; what was made of earlier ones is lost, too.
WriteAged(p) ==
  /\ HasMore(p) /\ client.lines < MaxLines
  /\ Aged(p, client, cp[p])
  /\ pending' = NoLonger(p)
  /\ cb' = NextTurn
  /\ UNCHANGED <<pane, flags>>

\* Mutant: the block may be shorter.
PortionOfLimit(b) == cb.limit - cb.used

Portion(b) == Smaller(b.size, cb.limit - cb.used)

FirstBlock(p) == Nth(Blocks(client.all, p), 1)

\* What the pane's buffer holds is enough for what is to be written.
Enough(p) == cp[p].offset + Portion(client.all[FirstBlock(p)]) <= pane[p].made

\* ... if it is not, control_append_data is fatal: the server ends, its panes and
\* the client's connection with it.
NotEnough(p) ==
  /\ HasMore(p) /\ ~Enough(p)
  /\ pane' = [q \in Panes |-> [pane[q] EXCEPT !.alive = FALSE]]
  /\ Stop
  /\ cb' = Idle
  /\ UNCHANGED flags

\* ... the first block, or as much of it as the limit leaves room for.  Lines
\* that come first now follow the data.
WriteBlock(p) ==
  /\ HasMore(p) /\ Enough(p)
  /\ LET i == FirstBlock(p)
         n == Portion(client.all[i])
         rest == client.all[i].size - n
         c == [client EXCEPT !.all = IF rest = 0 THEN Only(@, DOMAIN @ \ {i})
                                     ELSE [@ EXCEPT ![i].size = rest]]
         lines == rest = 0 /\ c.all # <<>> /\ ~IsOutput(Head(c.all))
     IN /\ cp' = [cp EXCEPT ![p].offset = @ + n]
        /\ client' = IF lines THEN Flush([c EXCEPT !.evb = @ + cb.message + n]) ELSE c
        /\ cb' = [cb EXCEPT !.used = @ + n, !.message = IF lines THEN 0 ELSE @ + n]
  /\ UNCHANGED <<pane, pending, flags>>

\* ... no more of this pane in this pass.
PaneDone(p) ==
  /\ Turn(p) /\ Here(p) /\ ~HasMore(p)
  /\ client' = [client EXCEPT !.evb = @ + cb.message]
  /\ pending' = IF Blocks(client.all, p) = {} THEN NoLonger(p) ELSE pending
  /\ cb' = NextTurn
  /\ UNCHANGED <<pane, cp, flags>>

WriteCallback ==
  \/ Pass \/ Full \/ CallbackDone
  \/ \E p \in Panes :
       PaneGone(p) \/ WriteAged(p) \/ NotEnough(p) \/ WriteBlock(p) \/ PaneDone(p)

ClientReads == \E n \in 0..client.evb : Writable(n)

Requests ==
  \/ Command
  \/ \E p \in Panes : SetPaneOn(p) \/ SetPaneOff(p) \/ ContinuePane(p) \/ PausePane(p)
  \/ \E on \in BOOLEAN : SetNoOutput(on) \/ Suspend(on)
  \/ Exit

PaneSteps ==
  \E p \in Panes :
    \/ \E n \in 1..MaxBytes[p] : PaneOutput(p, n)
    \/ p \notin Steady /\ (PaneEnds(p) \/ Respawn(p) \/ Move(p))

Next ==
  \/ WriteCallback \/ ClientReads \/ Requests \/ PaneSteps
  \/ ServerClientLoop \/ ExitTimer \/ ClientLost

Spec == Init /\ [][Next]_vars

(***************************************************************************)
(* A callback ends, and runs when there is nothing left to write; the      *)
(* server loop turns and timers fire.  That the client reads is not assumed*)
(* here.                                                                   *)
(***************************************************************************)
FairSpec ==
  /\ Spec /\ WF_vars(WriteCallback \/ Writable(0))
  /\ SF_vars(ServerClientLoop) /\ SF_vars(ExitTimer)
=============================================================================
