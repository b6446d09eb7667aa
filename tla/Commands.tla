------------------------------ MODULE Commands ------------------------------
(***************************************************************************)
(* The command queues of the server (cmd-queue.c), the loop that runs them *)
(* (server.c), wait-for (cmd-wait-for.c), shell jobs (cmd-run-shell.c and  *)
(* cmd-if-shell.c), hooks (hooks.c) and the loss of a client               *)
(* (server-client.c).                                                      *)
(*                                                                         *)
(* One process, one thread: an event of libevent (a client connects, sends *)
(* a command or goes away, a shell job ends) is one step, and after the    *)
(* events server_loop runs the queues one item at a time.  Only the first  *)
(* item of a queue can wait, so a list of waiting items is a list of the   *)
(* owners of their queues.                                                 *)
(*                                                                         *)
(* Abstracted: what a command that neither waits nor fails does, where its *)
(* output goes, formats, the name a client is found by; the filter of      *)
(* wait-for -E lets an event through or not.  A session exists throughout, *)
(* so after- hooks have a target.                                          *)
(***************************************************************************)
EXTENDS Naturals, Sequences, FiniteSets, SequencesExt

CONSTANTS
  Clients,      \* connections to the server socket
  Attached,     \* those that are attached to a session; the others ran tmtv
                \* with one command line and exit when it is done
  Global,       \* the owner of the global queue
  Channels,     \* names given to wait-for
  Lines,        \* the command lines a client may send
  Then,         \* what if-shell runs when its shell command succeeds
  Hooks,        \* the hook of each event, a command line
  MaxQueue,     \* bound: items of one queue when a line or a hook is added
  MaxLine       \* bound: lines numbered before a queue is empty again

Owners == Clients \cup {Global}

\* after- hook of a command that has one, command-error, client-detached,
\* window-resized (which stands for all that happens to windows).
Events == {"after", "error", "detached", "resized"}

Commands ==
  [op : {"wait", "signal", "lock", "unlock"}, ch : Channels]
    \cup [op : {"wake"}, ch : Channels, who : Clients]
    \cup [op : {"event"}, on : Events] \cup [op : {"rouse"}, on : Events, who : Clients]
    \cup [op : {"job", "if", "plain", "fail", "done"}]

CommandsAssumption ==
  /\ IsFiniteSet(Clients) /\ Global \notin Clients /\ Attached \subseteq Clients
  /\ Lines \subseteq Seq(Commands)
  /\ Then \in Seq(Commands)
  /\ Hooks \in [Events -> Seq(Commands)]
  /\ MaxQueue \in Nat /\ MaxLine \in Nat

ASSUME CommandsAssumption

VARIABLES
  clients,      \* the list of clients, in the order they connected
  exiting,      \* those told to exit (CLIENT_EXIT)
  dead,         \* lost but not freed: something still refers to them
  queue,        \* the items of each queue
  channels,     \* wait_channels
  watching,     \* wait_event_items: who waits for an event
  jobs,         \* whose first item waits for a shell job that runs
  turn,         \* server_loop: queues left in this pass
  running,      \* server_loop runs
  ran,          \* items, whether this pass of server_loop fired any
  inside,       \* history: lines past wait-for -L and not yet unlocked
  forced        \* history: a locker went on by -w or at exit

vars == <<clients, exiting, dead, queue, channels, watching, jobs, turn,
          running, ran, inside, forced>>
loop == <<turn, running, ran>>
people == <<clients, exiting, dead>>
history == <<inside, forced>>

(***************************************************************************)
(* Items.  State "new" has no flag, "waiting" is FIRED and WAITING, and    *)
(* "woken" is FIRED alone.  "line" tells which request or which firing of  *)
(* a hook an item comes from; the code only knows "group", which every     *)
(* firing of a hook shares because the hook is parsed once.                *)
(***************************************************************************)
NoGroup == 0
HookGroup == [after |-> 1, error |-> 2, detached |-> 3, resized |-> 4]
ThenGroup == 5

Item(cmd, group, line, nohooks) ==
  [cmd |-> cmd, group |-> group, line |-> line, nohooks |-> nohooks,
   state |-> "new"]

Items(cmds, group, line, nohooks) ==
  [i \in DOMAIN cmds |-> Item(cmds[i], group, line, nohooks)]

Done == [op |-> "done"]

\* A line of its own, behind everything in the queue; its group is new too.
NextLine(q) == IF q = <<>> THEN 6 ELSE Last(q).line + 1

First(o) == Head(queue[o])
Ready(o) == queue[o] # <<>> /\ First(o).state # "waiting"
Live == Range(clients)

\* cmdq_continue for the first items of some queues.
Woken(q, who) ==
  [o \in Owners |->
     IF o \in who /\ q[o] # <<>>
       THEN <<[Head(q[o]) EXCEPT !.state = "woken"]>> \o Tail(q[o])
       ELSE q[o]]

\* cmdq_insert_after and cmdq_remove: the items take the place of the first.
Replace(q, o, items) == [q EXCEPT ![o] = items \o Tail(@)]

\* cmdq_remove_group: an error drops what is left of the first item's group.
Others(o) == {i \in 2..Len(queue[o]) : queue[o][i].group # First(o).group}

\* TAILQ_REMOVE
Without(s, e) ==
  IF e \in Range(s) THEN RemoveAt(s, CHOOSE i \in DOMAIN s : s[i] = e) ELSE s

\* Mutant: the hook's commands have no NOHOOKS state.
HookItemsHooked(e, item) ==
  Items(Hooks[e], HookGroup[e], item.line, FALSE)

\* hooks_insert_event with an item: the hook's commands run right behind it.
HookItems(e, item) ==
  Items(Hooks[e], HookGroup[e], item.line, TRUE)

-----------------------------------------------------------------------------
(***************************************************************************)
(* Channels.                                                               *)
(***************************************************************************)
NoChannel == [here |-> FALSE, locked |-> FALSE, woken |-> FALSE,
              waiters |-> {}, lockers |-> <<>>]

\* cmd_wait_for_add, when wait-for does not find the channel.
Added(w) == [w EXCEPT !.here = TRUE]

\* cmd_wait_for_remove
Removed(w) ==
  IF ~w.locked /\ w.waiters = {} /\ w.woken THEN NoChannel ELSE w

\* cmd_wait_for_remove_empty
RemovedEmpty(w) ==
  IF ~w.locked /\ ~w.woken /\ w.waiters = {} /\ w.lockers = <<>>
    THEN NoChannel ELSE w

\* One locker goes through wait-for -L, unless -w or exit broke the lock.
Enter(n, ch) == IF forced[ch] THEN n ELSE [n EXCEPT ![ch] = @ + 1]
Leave(n, ch) == IF forced[ch] \/ n[ch] = 0 THEN n ELSE [n EXCEPT ![ch] = @ - 1]

-----------------------------------------------------------------------------
Init ==
  /\ clients = <<>> /\ exiting = {} /\ dead = {}
  /\ queue = [o \in Owners |-> <<>>]
  /\ channels = [ch \in Channels |-> NoChannel]
  /\ watching = [e \in Events |-> {}]
  /\ jobs = {}
  /\ turn = <<>> /\ running = FALSE /\ ran = FALSE
  /\ inside = [ch \in Channels |-> 0]
  /\ forced = [ch \in Channels |-> FALSE]

(***************************************************************************)
(* Events, between two runs of server_loop.                                *)
(***************************************************************************)

\* server_client_create, and the client's identification.
Connect(c) ==
  /\ ~running /\ c \notin Live \cup dead
  /\ clients' = Append(clients, c)
  /\ UNCHANGED <<exiting, dead, queue, channels, watching, jobs, loop, history>>

\* server_client_dispatch_command, or a key or prompt of an attached client.
Request(c, cmds) ==
  /\ ~running /\ c \in Live \ exiting
  /\ c \in Attached \/ queue[c] = <<>>
  /\ Len(queue[c]) + Len(cmds) < MaxQueue /\ NextLine(queue[c]) <= MaxLine
  /\ LET line == NextLine(queue[c])
         done == IF c \in Attached THEN <<>>
                 ELSE <<Item(Done, NoGroup, line, FALSE)>>
     IN queue' = [queue EXCEPT ![c] =
                    @ \o Items(cmds, line, line, FALSE) \o done]
  /\ UNCHANGED <<people, channels, watching, jobs, loop, history>>

\* Mutant: only waiters are released.
WithoutWaiterOnly(w, c) == RemovedEmpty([w EXCEPT !.waiters = @ \ {c}])

\* cmd_wait_for_client_lost takes the client off every list of waiters ...
WithoutWaiter(w, c) ==
  RemovedEmpty([w EXCEPT !.waiters = @ \ {c},
                         !.lockers = Without(@, c)])

\* ... and cmdq_next runs what its queue holds: a dead client's commands only
\* fail, so nothing stays unless the first item waits for a shell job.
LostQueue(c) == IF c \in jobs THEN queue[c] ELSE <<>>

\* hooks_event_cb without an item: the hook goes behind the global queue, but
\* not when that queue's item (cmdq_running) is itself of a hook; one that was
\* continued and not run again yet counts as running.
HookQueued(q, e) ==
  IF q[Global] # <<>> /\ Head(q[Global]).state = "woken" /\ Head(q[Global]).nohooks
    THEN q
    ELSE [q EXCEPT ![Global] =
            @ \o Items(Hooks[e], HookGroup[e], NextLine(@), TRUE)]

\* The hook fits into the global queue (bound).
HookFits(e) ==
  /\ Len(queue[Global]) + Len(Hooks[e]) <= MaxQueue
  /\ NextLine(queue[Global]) <= MaxLine

\* server_client_lost: leave the list, release waits, run the queue, then fire
\* client-detached: hooks are looked at before those that wait for the event.
\* server_client_free when no reference is left.
Lost(c) ==
  /\ ~running /\ c \in Live
  /\ HookFits("detached")
  /\ clients' = Without(clients, c)
  /\ exiting' = exiting \ {c}
  /\ dead' = IF LostQueue(c) = <<>> THEN dead ELSE dead \cup {c}
  /\ channels' = [ch \in Channels |-> WithoutWaiter(channels[ch], c)]
  /\ LET q == [queue EXCEPT ![c] = LostQueue(c)]
         left == [e \in Events |-> watching[e] \ {c}]
     IN IF c \in Attached
          THEN \E seen \in SUBSET left["detached"] :
                 /\ queue' = Woken(HookQueued(q, "detached"), seen)
                 /\ watching' = [left EXCEPT !["detached"] = @ \ seen]
          ELSE /\ queue' = q
               /\ watching' = left
  /\ UNCHANGED <<jobs, loop, history>>

\* Mutant: what if-shell runs goes to the end of the queue.
JobDoneAppends(o, succeeded) ==
  /\ ~running /\ o \in jobs
  /\ jobs' = jobs \ {o}
  /\ LET then == IF succeeded /\ First(o).cmd.op = "if"
                   THEN Items(Then, ThenGroup, First(o).line, First(o).nohooks)
                   ELSE <<>>
         q == [queue EXCEPT ![o] = @ \o then]
     IN queue' = Woken(q, {o})
  /\ UNCHANGED <<people, channels, watching, loop, history>>

\* cmd_run_shell_callback, cmd_if_shell_callback: the item goes on, and what
\* if-shell runs comes right behind it when the shell command succeeded.
JobDone(o, succeeded) ==
  /\ ~running /\ o \in jobs
  /\ jobs' = jobs \ {o}
  /\ LET then == IF succeeded /\ First(o).cmd.op = "if"
                   THEN Items(Then, ThenGroup, First(o).line, First(o).nohooks)
                   ELSE <<>>
         q == [queue EXCEPT ![o] = <<Head(@)>> \o then \o Tail(@)]
     IN queue' = Woken(q, {o})
  /\ UNCHANGED <<people, channels, watching, loop, history>>

-----------------------------------------------------------------------------
(***************************************************************************)
(* server_loop.                                                            *)
(***************************************************************************)
LoopStart ==
  /\ ~running
  /\ running' = TRUE /\ ran' = FALSE
  /\ turn' = <<Global>> \o clients
  /\ UNCHANGED <<people, queue, channels, watching, jobs, history>>

\* cmdq_next is done with a queue: it is empty or its first item waits.
NextQueue ==
  /\ turn # <<>> /\ ~Ready(Head(turn))
  /\ turn' = Tail(turn)
  /\ UNCHANGED <<people, queue, channels, watching, jobs, running, ran, history>>

\* Items were fired, so another queue may be ready again.
LoopAgain ==
  /\ running /\ turn = <<>> /\ ran
  /\ ran' = FALSE
  /\ turn' = <<Global>> \o clients
  /\ UNCHANGED <<people, queue, channels, watching, jobs, running, history>>

\* server_client_loop, after the last pass: something has happened to a window,
\* which fires its hook and ends waits for it, or nothing has.
CheckWindows ==
  \/ UNCHANGED <<queue, watching>>
  \/ /\ HookFits("resized")
     /\ \E seen \in SUBSET watching["resized"] :
          /\ queue' = Woken(HookQueued(queue, "resized"), seen)
          /\ watching' = [watching EXCEPT !["resized"] = @ \ seen]

\* Mutant: one pass over the queues.
LoopEndOnce ==
  /\ running /\ turn = <<>>
  /\ running' = FALSE
  /\ CheckWindows
  /\ UNCHANGED <<people, channels, jobs, turn, ran, history>>

LoopEnd ==
  /\ running /\ turn = <<>> /\ ~ran
  /\ running' = FALSE
  /\ CheckWindows
  /\ UNCHANGED <<people, channels, jobs, turn, ran, history>>

\* cmd_wait_for_flush of a channel: everyone goes on, the lock is broken.
Flushed(w) ==
  IF w.here
    THEN Removed([w EXCEPT !.waiters = {}, !.woken = TRUE, !.lockers = <<>>,
                           !.locked = FALSE])
    ELSE w

\* No client is attached and the server is to exit: cmd_wait_for_flush, after
\* server_client_loop.
LoopFlush ==
  /\ running /\ turn = <<>> /\ ~ran
  /\ Live \cap Attached = {}
  /\ running' = FALSE
  /\ LET all == UNION ({channels[ch].waiters \cup Range(channels[ch].lockers) :
                          ch \in Channels}
                         \cup {watching[e] : e \in Events})
     IN \/ queue' = Woken(queue, all)
        \/ HookFits("resized") /\ queue' = Woken(HookQueued(queue, "resized"), all)
  /\ channels' = [ch \in Channels |-> Flushed(channels[ch])]
  /\ watching' = [e \in Events |-> {}]
  /\ forced' = [ch \in Channels |-> forced[ch] \/ channels[ch].locked]
  /\ inside' = [ch \in Channels |-> IF forced'[ch] THEN 0 ELSE inside[ch]]
  /\ UNCHANGED <<people, jobs, turn, ran>>

-----------------------------------------------------------------------------
(***************************************************************************)
(* cmdq_next fires the first item of the queue whose turn it is.           *)
(***************************************************************************)
Fires(o, op) ==
  /\ turn # <<>> /\ o = Head(turn)
  /\ queue[o] # <<>> /\ First(o).state = "new" /\ First(o).cmd.op = op

\* CMD_RETURN_NORMAL: the item is removed, and others may go on.
Normal(o, woken) ==
  /\ queue' = Replace(Woken(queue, woken), o, <<>>)
  /\ ran' = TRUE
  /\ UNCHANGED <<turn, running>>

\* CMD_RETURN_WAIT: the queue stops here.
Waits(o) ==
  /\ queue' = [queue EXCEPT ![o][1].state = "waiting"]
  /\ turn' = Tail(turn)
  /\ UNCHANGED <<running, ran>>

\* CMD_RETURN_ERROR: command-error and its hook, unless the item is of a hook,
\* and the rest of the item's group is dropped.
Errors(o) ==
  /\ \E n \in 0..Len(queue[o]) : \E kept \in [1..n -> Others(o)] :
       /\ Range(kept) = Others(o) /\ \A i, k \in 1..n : i < k => kept[i] < kept[k]
       /\ LET hooks == ~First(o).nohooks
              hook == IF hooks THEN HookItems("error", First(o)) ELSE <<>>
              q == [queue EXCEPT ![o] = hook \o [i \in 1..n |-> @[kept[i]]]]
          IN \E seen \in SUBSET (IF hooks THEN watching["error"] ELSE {}) :
               /\ queue' = Woken(q, seen)
               /\ watching' = [watching EXCEPT !["error"] = @ \ seen]
  /\ ran' = TRUE
  /\ UNCHANGED <<turn, running>>

\* cmd_find_client: the global queue borrows an attached client for a command.
HasClient(o) == o # Global \/ Live \cap Attached # {}

\* wait-for -S
Signal(o) ==
  /\ Fires(o, "signal")
  /\ LET ch == First(o).cmd.ch
         w == Added(channels[ch])
     IN IF w.waiters = {} /\ ~w.woken
          THEN /\ channels' = [channels EXCEPT ![ch] = [w EXCEPT !.woken = TRUE]]
               /\ Normal(o, {})
          ELSE /\ channels' =
                    [channels EXCEPT ![ch] = Removed([w EXCEPT !.waiters = {}])]
               /\ Normal(o, w.waiters)
  /\ UNCHANGED <<people, watching, jobs, history>>

\* wait-for without options
Wait(o) ==
  /\ Fires(o, "wait") /\ HasClient(o)
  /\ LET ch == First(o).cmd.ch
         w == Added(channels[ch])
     IN IF w.woken
          THEN /\ channels' = [channels EXCEPT ![ch] = Removed(w)]
               /\ Normal(o, {})
          ELSE /\ channels' =
                    [channels EXCEPT ![ch] = [w EXCEPT !.waiters = @ \cup {o}]]
               /\ Waits(o)
  /\ UNCHANGED <<people, watching, jobs, history>>

\* wait-for -L
Lock(o) ==
  /\ Fires(o, "lock") /\ HasClient(o)
  /\ LET ch == First(o).cmd.ch
         w == Added(channels[ch])
     IN IF w.locked
          THEN /\ channels' = [channels EXCEPT ![ch] =
                                 [w EXCEPT !.lockers = Append(@, o)]]
               /\ Waits(o)
               /\ UNCHANGED inside
          ELSE /\ channels' = [channels EXCEPT ![ch] = [w EXCEPT !.locked = TRUE]]
               /\ Normal(o, {})
               /\ inside' = Enter(inside, ch)
  /\ UNCHANGED <<people, watching, jobs, forced>>

\* Mutant: the channel is open although the lock passed to a locker.
UnlockOpens(o) ==
  /\ Fires(o, "unlock") /\ channels[First(o).cmd.ch].locked
  /\ LET ch == First(o).cmd.ch
         w == channels[ch]
     IN /\ IF w.lockers # <<>>
             THEN /\ channels' = [channels EXCEPT ![ch].lockers = Tail(@),
                                                  ![ch].locked = FALSE]
                  /\ Normal(o, {Head(w.lockers)})
             ELSE /\ channels' = [channels EXCEPT ![ch] =
                                    Removed([w EXCEPT !.locked = FALSE])]
                  /\ Normal(o, {})
        /\ inside' = Leave(inside, ch)
  /\ UNCHANGED <<people, watching, jobs, forced>>

\* wait-for -U: the lock passes to the first locker, or is open.
Unlock(o) ==
  /\ Fires(o, "unlock") /\ channels[First(o).cmd.ch].locked
  /\ LET ch == First(o).cmd.ch
         w == channels[ch]
     IN /\ IF w.lockers # <<>>
             THEN /\ channels' = [channels EXCEPT ![ch].lockers = Tail(@)]
                  /\ Normal(o, {Head(w.lockers)})
             ELSE /\ channels' = [channels EXCEPT ![ch] =
                                    Removed([w EXCEPT !.locked = FALSE])]
                  /\ Normal(o, {})
        /\ inside' = Leave(inside, ch)
  /\ UNCHANGED <<people, watching, jobs, forced>>

\* wait-for -w: one waiter of that name goes on, else one locker.
Wake(o) ==
  /\ Fires(o, "wake")
  /\ LET ch == First(o).cmd.ch
         who == First(o).cmd.who
         w == channels[ch]
     IN CASE who \in w.waiters ->
               /\ channels' = [channels EXCEPT ![ch] =
                                 RemovedEmpty([w EXCEPT !.waiters = @ \ {who}])]
               /\ Normal(o, {who})
               /\ UNCHANGED history
          [] who \notin w.waiters /\ who \in Range(w.lockers) ->
               /\ channels' = [channels EXCEPT ![ch] = RemovedEmpty(
                     [w EXCEPT !.lockers = Without(@, who)])]
               /\ Normal(o, {who})
               /\ forced' = [forced EXCEPT ![ch] = TRUE]
               /\ inside' = [inside EXCEPT ![ch] = 0]
          [] OTHER -> Normal(o, {}) /\ UNCHANGED <<channels, history>>
  /\ UNCHANGED <<people, watching, jobs>>

\* wait-for -E
WaitEvent(o) ==
  /\ Fires(o, "event") /\ HasClient(o)
  /\ watching' = [watching EXCEPT ![First(o).cmd.on] = @ \cup {o}]
  /\ Waits(o)
  /\ UNCHANGED <<people, channels, jobs, history>>

\* wait-for -E -w: the wait of that name is over.
Rouse(o) ==
  /\ Fires(o, "rouse") /\ First(o).cmd.who \in watching[First(o).cmd.on]
  /\ watching' = [watching EXCEPT ![First(o).cmd.on] = @ \ {First(o).cmd.who}]
  /\ Normal(o, {First(o).cmd.who})
  /\ UNCHANGED <<people, channels, jobs, history>>

\* run-shell and if-shell start a shell command and wait for it.
Shell(o) ==
  /\ Fires(o, "job") \/ Fires(o, "if")
  /\ jobs' = jobs \cup {o}
  /\ Waits(o)
  /\ UNCHANGED <<people, channels, watching, history>>

\* A command that does its work; its after- hook comes right behind it.
Plain(o) ==
  /\ Fires(o, "plain")
  /\ IF First(o).nohooks
       THEN Normal(o, {}) /\ UNCHANGED watching
       ELSE /\ \E seen \in SUBSET watching["after"] :
                 /\ queue' = Replace(Woken(queue, seen), o, HookItems("after", First(o)))
                 /\ watching' = [watching EXCEPT !["after"] = @ \ seen]
            /\ ran' = TRUE
            /\ UNCHANGED <<turn, running>>
  /\ UNCHANGED <<people, channels, jobs, history>>

\* A command that fails, waits that have no client, an unlock of an open lock, a
\* wait that is not there.
Fail(o) ==
  /\ \/ Fires(o, "fail")
     \/ \E op \in {"wait", "lock", "event"} : Fires(o, op) /\ ~HasClient(o)
     \/ Fires(o, "unlock") /\ ~channels[First(o).cmd.ch].locked
     \/ Fires(o, "rouse") /\ First(o).cmd.who \notin watching[First(o).cmd.on]
  /\ Errors(o)
  /\ UNCHANGED <<people, channels, jobs, history>>

\* server_client_command_done: nothing left to do for this client.
CommandDone(o) ==
  /\ Fires(o, "done")
  /\ exiting' = exiting \cup (({o} \cap Clients) \ Attached)
  /\ Normal(o, {})
  /\ UNCHANGED <<clients, dead, channels, watching, jobs, history>>

\* An item that was fired and continued is only removed.
Continued(o) ==
  /\ turn # <<>> /\ o = Head(turn)
  /\ queue[o] # <<>> /\ First(o).state = "woken"
  /\ queue' = Replace(queue, o, <<>>)
  /\ inside' = IF First(o).cmd.op = "lock" THEN Enter(inside, First(o).cmd.ch)
               ELSE inside
  /\ UNCHANGED <<people, channels, watching, jobs, loop, forced>>

RunItem(o) ==
  \/ Signal(o) \/ Wait(o) \/ Lock(o) \/ Unlock(o) \/ Wake(o) \/ WaitEvent(o) \/ Rouse(o)
  \/ Shell(o) \/ Plain(o) \/ Fail(o) \/ CommandDone(o) \/ Continued(o)

ServerLoop ==
  LoopStart \/ NextQueue \/ LoopAgain \/ LoopEnd \/ LoopFlush
    \/ \E o \in Owners : RunItem(o)

Next ==
  \/ ServerLoop
  \/ \E c \in Clients : Connect(c) \/ Lost(c) \/ \E cmds \in Lines : Request(c, cmds)
  \/ \E o \in Owners : \E succeeded \in BOOLEAN : JobDone(o, succeeded)

Spec == Init /\ [][Next]_vars

(***************************************************************************)
(* The event loop always turns (timers alone see to that), a shell job     *)
(* ends, and a client that was told to exit closes its connection.  Nobody *)
(* has to connect, to ask for anything or to go away otherwise.            *)
(***************************************************************************)
Fairness ==
  /\ WF_vars(ServerLoop)
  /\ \A o \in Owners : WF_vars(\E succeeded \in BOOLEAN : JobDone(o, succeeded))
  /\ \A c \in Clients : WF_vars(c \in exiting /\ Lost(c))

FairSpec == Spec /\ Fairness
=============================================================================
