--------------------------- MODULE CommandsProps ---------------------------
(***************************************************************************)
(* Properties of the command queues, of wait-for and of the server loop.   *)
(***************************************************************************)
EXTENDS Commands

ItemSet ==
  [cmd : Commands, group : Nat, line : Nat, nohooks : BOOLEAN,
   state : {"new", "waiting", "woken"}]

\* Every variable has its type.  A client that was told to exit is still
\* connected, and a lost one has left the list (server_client_lost).
TypeOK ==
  /\ clients \in Seq(Clients) /\ exiting \subseteq Live
  /\ dead \subseteq Clients \ Live
  /\ queue \in [Owners -> Seq(ItemSet)]
  /\ channels \in [Channels ->
       [here : BOOLEAN, locked : BOOLEAN, woken : BOOLEAN,
        waiters : SUBSET Owners, lockers : Seq(Owners)]]
  /\ watching \in [Events -> SUBSET Owners]
  /\ jobs \subseteq Owners
  /\ turn \in Seq(Owners) /\ running \in BOOLEAN /\ ran \in BOOLEAN
  /\ inside \in [Channels -> Nat] /\ forced \in [Channels -> BOOLEAN]

Waiting(o) == queue[o] # <<>> /\ First(o).state = "waiting"

\* Every queue that waits is on the one list its first item belongs on, where a
\* signal, an unlock, an event or a job's end finds it, and nothing else is
\* listed: no wait without anybody to end it, and no list that still names an
\* item that was freed (cmd-wait-for.c, cmdq_remove).
WaitersListed ==
  /\ \A ch \in Channels, o \in Owners :
       /\ o \in channels[ch].waiters <=>
            Waiting(o) /\ First(o).cmd = [op |-> "wait", ch |-> ch]
       /\ o \in Range(channels[ch].lockers) <=>
            Waiting(o) /\ First(o).cmd = [op |-> "lock", ch |-> ch]
  /\ \A e \in Events, o \in Owners :
       o \in watching[e] <=>
         Waiting(o) /\ First(o).cmd = [op |-> "event", on |-> e]
  /\ \A o \in Owners :
       o \in jobs <=> Waiting(o) /\ First(o).cmd.op \in {"job", "if"}

\* A channel is freed without a look at its lockers (cmd_wait_for_remove): that
\* is right because nobody is among them unless the channel is locked.
NoLockersLost ==
  \A ch \in Channels :
    /\ channels[ch].lockers # <<>> => channels[ch].locked
    /\ ~channels[ch].here => channels[ch] = NoChannel

\* A lost client is only kept for a shell job it waits for; its waits for a
\* channel or an event are over (server_client_lost, cmd_wait_for_client_lost).
DeadOnlyForJobs ==
  \A c \in dead : queue[c] # <<>> /\ First(c).cmd.op \in {"job", "if"}

\* Nobody waits for ever because of the lists: whoever waits can be found by what
\* it waits for, a channel that is freed has no lockers, and a client that is
\* lost does not wait any more (cmd-wait-for.c, server_client_lost).
NoWaitLost == WaitersListed /\ NoLockersLost /\ DeadOnlyForJobs

\* Every line unlocks only what it locked, and what hooks and if-shell run
\* unlocks nothing.
OwnLocks ==
  /\ \A cmds \in Lines, ch \in Channels : \A i \in 1..Len(cmds) :
       cmds[i] = [op |-> "unlock", ch |-> ch] =>
         \E j \in 1..(i - 1) :
           /\ cmds[j] = [op |-> "lock", ch |-> ch]
           /\ \A k \in (j + 1)..(i - 1) : cmds[k] # cmds[i]
  /\ \A e \in Events : \A i \in 1..Len(Hooks[e]) : Hooks[e][i].op # "unlock"
  /\ \A i \in 1..Len(Then) : Then[i].op # "unlock"

\* At most one line is between wait-for -L and wait-for -U of a channel, as long
\* as the lock is not broken by -w or at exit and each line unlocks only what it
\* locked.
LockExclusive == \A ch \in Channels : inside[ch] <= 1

\* What a command inserts comes before the lines that were asked for after its
\* own, however long it waited (cmdq_insert_after).
InOrder ==
  \A o \in Owners : \A i \in 1..(Len(queue[o]) - 1) :
    queue[o][i].line <= queue[o][i + 1].line

\* A queue has an item that could run when server_loop has ended only if the end
\* of the loop made it so: the queue waited when the passes were over and was let
\* go on, by a window's event or by cmd_wait_for_flush, or it is the global one
\* and held nothing but the hook that the event then put there.  The passes leave
\* nothing, although an item of one queue can let a queue go on that had its turn
\* already, and continued items are not counted (items, cmdq_next).
LoopLeavesNothing ==
  [][running /\ ~running' =>
       \A o \in Live \cup {Global} : Ready(o)' =>
         \/ Waiting(o)
         \/ o = Global /\ queue[o] = <<>> /\ First(o)'.nohooks]_vars

\* server_loop ends: hooks cannot keep a queue from getting empty, because what
\* a hook runs fires no hooks (CMDQ_STATE_NOHOOKS).
LoopEnds == running ~> ~running

=============================================================================
