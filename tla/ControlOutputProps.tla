------------------------- MODULE ControlOutputProps -------------------------
(***************************************************************************)
(* Properties of the output of a control mode client.                      *)
(***************************************************************************)
EXTENDS ControlOutput

Entry == [what : Panes \cup Kinds, size : Nat, no : Nat]

\* Every variable has its type.
TypeOK ==
  /\ pane \in [Panes -> [made : Nat, base : Nat, alive : BOOLEAN, linked : BOOLEAN,
                         reading : BOOLEAN]]
  /\ cp \in [Panes -> [known : BOOLEAN, offset : Nat, queued : Nat, off : BOOLEAN,
                       paused : BOOLEAN, skipped : BOOLEAN]]
  /\ pending \in Seq(Panes)
  /\ client \in [all : Seq(Entry), told : [n : Nat, open : BOOLEAN, ok : BOOLEAN], evb : Nat,
                 lines : Nat, writing : BOOLEAN, exit : BOOLEAN, discard : BOOLEAN, timer : BOOLEAN,
                 exited : BOOLEAN, lost : BOOLEAN]
  /\ flags \in [noOutput : BOOLEAN, suspended : BOOLEAN, pauseAfter : BOOLEAN]
  /\ cb \in [on : BOOLEAN, todo : Seq(Panes), used : Nat, limit : Nat, message : Nat]

\* The blocks of a pane point at data that is still in its buffer: the buffer is
\* not drained past it, and there is never less than the blocks announce.
DataOf(p) ==
  Blocks(client.all, p) # {} =>
    /\ pane[p].base <= cp[p].offset
    /\ cp[p].offset + Size(client.all, p) <= pane[p].made

\* The offset of a pane that the client is sent does not fall behind what was
\* drained from the buffer, so that its next block does not either.
OffsetsOf(p) ==
  On(p) /\ ~flags.noOutput /\ ~client.lost =>
    /\ pane[p].base <= cp[p].offset /\ cp[p].offset <= cp[p].queued
    /\ cp[p].queued <= pane[p].made

\* What the comment on struct control_pane says of the offsets: the data from
\* "offset" on is what the blocks point to.
DataThere == \A p \in Panes : DataOf(p)

\* The buffer of a pane and what is queued of it fit together (control.c,
\* server-client.c), however the pane is switched off and on, paused, continued
\* or respawned, and the client suspended or told to exit, meanwhile.  Only a pane
\* whose output was passed over while earlier output was queued is in disorder,
\* until its offset is set again, and it does not harm another one.
OutputInBuffer ==
  \A p \in Panes : ~cp[p].skipped => DataOf(p) /\ OffsetsOf(p)

\* Lines arrive in order and none is left out; a notification never occurs
\* inside the output block of a command; and no line arrives before output that
\* came before it (control.c, the comment on struct control_block).
LinesInOrder ==
  /\ ~client.discard => client.told.ok /\ ~client.told.open
  /\ \A i \in DOMAIN client.all :
       IsOutput(client.all[i]) => client.all[i].no >= client.told.n

\* What a client does not read is bounded, lines that wait for output included:
\* it is too far behind before (control_check_reply_buffer), and output is added
\* only to a buffer with room.
RepliesBounded ==
  client.evb + Cardinality(LineBlocks(client.all)) < MaxReplies + High + Minimum - 1

\* Output that is queued has its pane in the list of those to be written, once,
\* and the client's descriptor watched.
OutputWatched ==
  /\ \A i, k \in DOMAIN pending : i # k => pending[i] # pending[k]
  /\ \A p \in Panes : Blocks(client.all, p) # {} => p \in Range(pending)
  /\ pending # <<>> /\ Attached(client) /\ ~client.exited => client.writing

\* The client reads: all that was written to it is taken, again and again.
Reads == []<>(client.evb = 0)

\* Output of a pane is sent, or dropped with the pane, as long as the client
\* reads at all.
OutputDelivered ==
  Reads =>
    \A p \in Panes : (Blocks(client.all, p) # {} ~> Blocks(client.all, p) = {})

\* A pane that is not read because of the client is read again, as long as the
\* client reads: nobody but the client itself stops it, with off.
PanesReadAgain ==
  Reads =>
    \A p \in Panes : (~pane[p].reading ~> pane[p].reading \/ ~pane[p].alive \/ cp[p].off)

\* Output flows as long as the client reads: what the client cannot take now
\* stops a pane and a queue, and both start again.
OutputFlows == OutputDelivered /\ PanesReadAgain

\* A client that is to exit is gone in the end, whether it reads and answers or
\* not, unless it is suspended when the server lets it go: the timer that fires
\* then is not started again (server_client_exit_timer).
ExitEnds == client.exit /\ ~client.exited /\ ~flags.suspended ~> client.lost
=============================================================================
