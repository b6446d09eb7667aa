----------------------------- MODULE AcceptLoop -----------------------------
(***************************************************************************)
(* The relay's main process: it accepts SSH connections and forks a child  *)
(* for each, reaps children in a SIGCHLD handler that may run between any  *)
(* two steps of its loop, and routes web viewers to the children that      *)
(* registered their tokens, by passing descriptors over a channel (a       *)
(* socket pair) to each child.                                             *)
(*                                                                         *)
(* Abstractions.  A registry is a function from tokens to entries: its     *)
(* array order shows nowhere, tokens being unique.  The REG messages in a  *)
(* channel are the set of their tokens: one channel always writes the same *)
(* entry.  A child is anything from the fork to the exit: SSH handshake,   *)
(* daemon or SSH viewer.  Process ids are not reused.  SIGPIPE is ignored, *)
(* as under systemd and for the first process of a container.  Whether an  *)
(* SSH connection is waiting, whether the rate limit or fork() turns it    *)
(* away and whether accept() fails is left open.  A child whose main       *)
(* process has ended is out of sight: it is an orphan.  Loop indices and   *)
(* poll results are reset once the loop has no more use for them.          *)
(***************************************************************************)
EXTENDS Naturals, Sequences, FiniteSets

CONSTANTS
  Pids,           \* the children that will be forked
  Fds,            \* descriptors the main process has for channels
  Tokens,         \* tokens and names of sessions
  Conns,          \* connections of web viewers
  None,
  MaxChildren,    \* tmate_settings->max_sessions
  MaxPending,     \* MAX_PENDING_SSE
  RegistryMax,    \* entries of struct sse_registry
  PendingTimeout, \* SSE_PENDING_TIMEOUT_SEC
  QueueMax        \* passed descriptors a channel holds before sendmsg() blocks

ASSUME LimitsAssumption ==
  /\ MaxChildren \in Nat \ {0}
  /\ MaxPending \in Nat /\ RegistryMax \in Nat
  /\ PendingTimeout \in Nat \ {0} /\ QueueMax \in Nat \ {0}
  /\ IsFiniteSet(Pids)
  /\ None \notin Pids \cup Fds \cup Tokens

VARIABLES
  \* the children
  kid,        \* kid[p]: "unborn", "run", "zombie", "reaped" or "orphan"
  claimed,    \* claimed[p]: tokens whose links p has made its own
  owner,      \* owner[t]: the last to do so, or None
  unsent,     \* unsent[p]: those it has not yet registered
  outbox,     \* outbox[p]: tokens of the REG messages in its channel
  inbox,      \* inbox[p]: viewers' connections passed to p, not yet received
  \* the viewers
  conn,       \* conn[c]: "away", "backlog", "parked", "passed" or "closed"
  sent,       \* sent[c]: "silent", "eof" or the token in its request line
  age,        \* age[c]: seconds since c was parked
  \* shared by the main loop and the signal handler
  active,     \* active_children
  deadPids, deadCount,   \* dead_pids, dead_pid_count
  pendingGc,  \* pending_gc
  \* the main loop
  chan,       \* chan[f]: the child at the other end of descriptor f, or None
  ipc,        \* ipc_children
  reg,        \* reg[t]: the registry's entry for token t, or None
  parked,     \* pending_sse
  pc, at,     \* where the loop is, and the index of the inner loop
  ndead,      \* ndead
  ipcReady, parkedPoll, sseReady, sshReady,   \* the last poll(): revents, and
              \* for parked connections the descriptor they belong to
  new         \* the child just forked, its descriptor, active_children as loaded

kidVars   == <<kid, claimed, owner, unsent, outbox, inbox>>
connVars  == <<conn, sent, age>>
sigVars   == <<active, deadPids, deadCount, pendingGc>>
tables    == <<chan, ipc, reg, parked>>
pollVars  == <<ipcReady, parkedPoll, sseReady, sshReady>>
loopVars  == <<pc, at, ndead, pollVars, new>>
vars == <<kidVars, connVars, sigVars, tables, loopVars>>

Channel == [fd: Fds, pid: Pids]

Unreaped == {p \in Pids : kid[p] \in {"run", "zombie"}}
Zombies  == {p \in Pids : kid[p] = "zombie"}
Registered == {t \in Tokens : reg[t] # None}
Connected(p) == \E f \in Fds : chan[f] = p

NoChild == [pid |-> None, fd |-> None, loaded |-> 0]

Init ==
  /\ kid = [p \in Pids |-> "unborn"]
  /\ owner = [t \in Tokens |-> None]
  /\ claimed = [p \in Pids |-> {}] /\ unsent = [p \in Pids |-> {}]
  /\ outbox = [p \in Pids |-> {}] /\ inbox = [p \in Pids |-> <<>>]
  /\ conn = [c \in Conns |-> "away"]
  /\ sent = [c \in Conns |-> "silent"] /\ age = [c \in Conns |-> 0]
  /\ active = 0 /\ pendingGc = FALSE
  /\ deadPids = [k \in 0..MaxChildren-1 |-> None] /\ deadCount = 0
  /\ chan = [f \in Fds |-> None] /\ ipc = <<>> /\ parked = <<>>
  /\ reg = [t \in Tokens |-> None]
  /\ pc = "top" /\ at = 0 /\ ndead = 0
  /\ ipcReady = <<>> /\ parkedPoll = <<>>
  /\ sseReady = FALSE /\ sshReady = FALSE
  /\ new = NoChild

-----------------------------------------------------------------------------
(* Children and viewers. *)

(* The links of token t now lead to p: see SessionDir. *)
Claim(p, t) ==
  /\ kid[p] = "run" /\ t \notin claimed[p]
  /\ claimed' = [claimed EXCEPT ![p] = @ \cup {t}]
  /\ owner' = [owner EXCEPT ![t] = p]
  /\ unsent' = [unsent EXCEPT ![p] = @ \cup {t}]
  /\ UNCHANGED <<kid, outbox, inbox, connVars, sigVars, tables, loopVars>>

(* sse_ipc_send_msg; without a reader at the other end the message is lost. *)
SendReg(p) ==
  /\ kid[p] = "run" /\ unsent[p] # {}
  /\ unsent' = [unsent EXCEPT ![p] = {}]
  /\ outbox' = [outbox EXCEPT ![p] = IF Connected(p) THEN @ \cup unsent[p] ELSE @]
  /\ UNCHANGED <<kid, claimed, owner, inbox, connVars, sigVars, tables, loopVars>>

(* on_ipc_read: the daemon takes over a viewer's connection. *)
Receive(p) ==
  /\ kid[p] = "run" /\ inbox[p] # <<>>
  /\ inbox' = [inbox EXCEPT ![p] = Tail(@)]
  /\ UNCHANGED <<kid, claimed, owner, unsent, outbox, connVars, sigVars, tables, loopVars>>

(* A child ends.  What it sent stays readable; what it was sent is closed. *)
Exit(p) ==
  /\ kid[p] = "run"
  /\ kid' = [kid EXCEPT ![p] = "zombie"]
  /\ unsent' = [unsent EXCEPT ![p] = {}]
  /\ inbox' = [inbox EXCEPT ![p] = <<>>]
  /\ conn' = [c \in Conns |-> IF \E i \in DOMAIN inbox[p] : inbox[p][i] = c
                                THEN "closed" ELSE conn[c]]
  /\ UNCHANGED <<claimed, owner, outbox, sent, age, sigVars, tables, loopVars>>

Connect(c) ==
  /\ conn[c] = "away"
  /\ conn' = [conn EXCEPT ![c] = "backlog"]
  /\ UNCHANGED <<kidVars, sent, age, sigVars, tables, loopVars>>

(* The request line is complete, or the viewer hangs up without one. *)
Request(c) ==
  /\ conn[c] \in {"backlog", "parked"} /\ sent[c] = "silent"
  /\ \E s \in Tokens \cup {"eof"} : sent' = [sent EXCEPT ![c] = s]
  /\ UNCHANGED <<kidVars, conn, age, sigVars, tables, loopVars>>

(* A second passes. *)
Tick ==
  /\ \E c \in Conns : conn[c] = "parked" /\ age[c] < PendingTimeout
  /\ age' = [c \in Conns |-> IF conn[c] = "parked" /\ age[c] < PendingTimeout
                               THEN age[c] + 1 ELSE age[c]]
  /\ UNCHANGED <<kidVars, conn, sent, sigVars, tables, loopVars>>

-----------------------------------------------------------------------------
(* handle_sigchld: reaps all zombies, in any order, and records as many of  *)
(* them as fit.  It may run between any two steps of the main loop; poll()  *)
(* is interrupted if it has been entered.                                   *)

(* The n elements of S, in any order. *)
Orders(S, n) == {s \in [1..n -> S] : \A p \in S : \E k \in 1..n : s[k] = p}

Record(n) ==
  /\ \E order \in Orders(Zombies, n) :
       deadPids' = [k \in 0..MaxChildren-1 |->
                      IF k >= deadCount /\ k < deadCount + n
                        THEN order[k - deadCount + 1] ELSE deadPids[k]]
  /\ deadCount' = IF deadCount + n <= MaxChildren THEN deadCount + n ELSE MaxChildren

SigChld ==
  /\ Zombies # {}
  /\ kid' = [p \in Pids |-> IF p \in Zombies THEN "reaped" ELSE kid[p]]
  /\ LET n == Cardinality(Zombies)
     IN  /\ active' = IF active >= n THEN active - n ELSE 0
         /\ Record(n)
  /\ pendingGc' = TRUE
  /\ pc' \in IF pc = "poll" THEN {"poll", "top"} ELSE {pc}
  /\ UNCHANGED <<claimed, owner, unsent, outbox, inbox, connVars, tables,
                 at, ndead, pollVars, new>>

-----------------------------------------------------------------------------
(* Dead children: the registry and the channels. *)

(* a[i] = a[--n], as the loops here remove array elements. *)
SwapRemove(s, i) == [k \in 1..Len(s) - 1 |-> IF k = i THEN s[Len(s)] ELSE s[k]]

RemoveByPidNothing(p) == reg
RemoveByPid(p) ==
  [t \in Tokens |-> IF reg[t] # None /\ reg[t].pid = p THEN None ELSE reg[t]]
RemoveByFd(f) ==
  [t \in Tokens |-> IF reg[t] # None /\ reg[t].fd = f THEN None ELSE reg[t]]

(* Close the channel at index i and forget it. *)
Drop(i) ==
  /\ chan' = [chan EXCEPT ![ipc[i].fd] = None]
  /\ ipc' = SwapRemove(ipc, i)

Top ==
  /\ pc = "top"
  /\ pendingGc' = FALSE
  /\ pc' = IF pendingGc THEN "take" ELSE "poll"
  /\ UNCHANGED <<kidVars, connVars, active, deadPids, deadCount, tables,
                 at, ndead, pollVars, new>>

(* With SIGCHLD blocked: take the count.  The entries are read afterwards. *)
TakeDead ==
  /\ pc = "take"
  /\ ndead' = deadCount /\ deadCount' = 0
  /\ at' = 0 /\ pc' = "drain"
  /\ UNCHANGED <<kidVars, connVars, active, deadPids, pendingGc, tables, pollVars, new>>

DrainDead ==
  /\ pc = "drain" /\ at < ndead
  /\ reg' = RemoveByPid(deadPids[at])
  /\ \/ \E i \in DOMAIN ipc : ipc[i].pid = deadPids[at] /\ Drop(i)
     \/ /\ \A i \in DOMAIN ipc : ipc[i].pid # deadPids[at]
        /\ UNCHANGED <<chan, ipc>>
  /\ at' = at + 1
  /\ UNCHANGED <<kidVars, connVars, sigVars, parked, pc, ndead, pollVars, new>>

Drained ==
  /\ pc = "drain" /\ at = ndead
  /\ pc' = "poll"
  /\ at' = 0 /\ ndead' = 0
  /\ UNCHANGED <<kidVars, connVars, sigVars, tables, pollVars, new>>

-----------------------------------------------------------------------------
(* sse_process_fd has to wait for the rest of the request line. *)
Again(c) == sent[c] = "silent"

(* poll() returns: something is ready, or the timeout has passed. *)

PollOnlyHangUps ==
  /\ pc = "poll"
  /\ ipcReady' = [i \in DOMAIN ipc |-> kid[chan[ipc[i].fd]] # "run"]
  /\ parkedPoll' = [i \in DOMAIN parked |->
                      [conn |-> parked[i], ready |-> ~Again(parked[i])]]
  /\ sseReady' = \E c \in Conns : conn[c] = "backlog"
  /\ sshReady' \in BOOLEAN
  /\ at' = 1 /\ pc' = "parked"
  /\ UNCHANGED <<kidVars, connVars, sigVars, tables, ndead, new>>

Poll ==
  /\ pc = "poll"
  /\ ipcReady' = [i \in DOMAIN ipc |-> LET p == chan[ipc[i].fd]
                                       IN  outbox[p] # {} \/ kid[p] # "run"]
  /\ parkedPoll' = [i \in DOMAIN parked |->
                      [conn |-> parked[i], ready |-> ~Again(parked[i])]]
  /\ sseReady' = \E c \in Conns : conn[c] = "backlog"
  /\ sshReady' \in BOOLEAN
  /\ at' = 1 /\ pc' = "parked"
  /\ UNCHANGED <<kidVars, connVars, sigVars, tables, ndead, new>>

TimedOut ==
  /\ \A i \in DOMAIN ipcReady : ~ipcReady[i]
  /\ \A i \in DOMAIN parkedPoll : ~parkedPoll[i].ready
  /\ ~sseReady /\ ~sshReady

(* sse_process_fd: the registry's descriptor for c's token, and who is at its other end. *)
Target(c) == chan[reg[sent[c]].fd]
Known(c)  == sent[c] \in Registered
Reached(c) == Known(c) /\ Target(c) # None /\ kid[Target(c)] = "run"

(* sendmsg() succeeds; it waits while the channel is full. *)
Pass(c) ==
  /\ Reached(c) /\ Len(inbox[Target(c)]) < QueueMax
  /\ inbox' = [inbox EXCEPT ![Target(c)] = Append(@, c)]
  /\ conn' = [conn EXCEPT ![c] = "passed"]

(* Hang-up, 404, or 502 when the child is gone or sendmsg() interrupted. *)
Close(c) ==
  /\ Reached(c) => Len(inbox[Target(c)]) = QueueMax /\ Zombies # {}
  /\ conn' = [conn EXCEPT ![c] = "closed"]
  /\ UNCHANGED inbox

Process(c) == ~Again(c) /\ (Pass(c) \/ Close(c))

ExpiredIfHeard(c) == ~Again(c) /\ age[c] >= PendingTimeout
Expired(c) == age[c] >= PendingTimeout

(* One parked connection: processed if the slot it is in was ready, expired *)
(* if it has waited too long.  The last one moves into the free slot, whose *)
(* revents then speak for it.                                               *)
ServeParked ==
  /\ pc = "parked" /\ at <= Len(parked)
  /\ LET c == parked[at]
         ready == parkedPoll[at].ready /\ ~Again(c)
     IN  \/ ready /\ Process(c)
         \/ ~ready /\ Expired(c) /\ conn' = [conn EXCEPT ![c] = "closed"] /\ UNCHANGED inbox
         \/ ~ready /\ ~Expired(c) /\ UNCHANGED <<conn, inbox>>
  /\ IF conn' = conn
       THEN at' = at + 1 /\ UNCHANGED parked
       ELSE parked' = SwapRemove(parked, at) /\ UNCHANGED at
  /\ UNCHANGED <<kid, claimed, owner, unsent, outbox, sent, age, sigVars,
                 chan, ipc, reg, pc, ndead, pollVars, new>>

ParkedDone ==
  /\ pc = "parked" /\ at > Len(parked)
  /\ parkedPoll' = <<>>
  /\ IF TimedOut
       THEN pc' = "top" /\ at' = 0 /\ ipcReady' = <<>>
       ELSE pc' = "ipc" /\ at' = 1 /\ UNCHANGED ipcReady
  /\ UNCHANGED <<kidVars, connVars, sigVars, tables, ndead, sseReady, sshReady, new>>

-----------------------------------------------------------------------------
(* Registrations. *)

(* sse_registry_add for the tokens ts: known tokens change hands, new ones  *)
(* are added as long as there is room.                                      *)
Registries(ts, e) ==
  LET fresh == ts \ Registered
      room == RegistryMax - Cardinality(Registered)
      fits == {x \in SUBSET fresh :
                 \/ x = fresh /\ Cardinality(fresh) <= room
                 \/ Cardinality(fresh) > room /\ Cardinality(x) = room}
  IN  {[t \in Tokens |-> IF t \in (ts \ fresh) \cup x THEN e ELSE reg[t]] : x \in fits}

(* The slot is ready: read what is there, or find the channel closed, or    *)
(* nothing at all when the slot's revents are another channel's.            *)
ReadRegs(i) ==
  LET p == chan[ipc[i].fd]
  IN  /\ outbox[p] # {}
      /\ reg' \in Registries(outbox[p], ipc[i])
      /\ outbox' = [outbox EXCEPT ![p] = {}]
      /\ at' = at + 1
      /\ UNCHANGED <<chan, ipc>>

HangUpKeepsEntries(i) ==
  LET p == chan[ipc[i].fd]
  IN  /\ outbox[p] = {} /\ kid[p] # "run"
      /\ Drop(i)
      /\ UNCHANGED <<reg, outbox, at>>

HangUpIgnored(i) ==
  LET p == chan[ipc[i].fd]
  IN  /\ outbox[p] = {} /\ kid[p] # "run"
      /\ at' = at + 1
      /\ UNCHANGED <<reg, chan, ipc, outbox>>

HangUp(i) ==
  LET p == chan[ipc[i].fd]
  IN  /\ outbox[p] = {} /\ kid[p] # "run"
      /\ reg' = RemoveByFd(ipc[i].fd)
      /\ Drop(i)
      /\ UNCHANGED <<outbox, at>>

NothingThere(i) ==
  LET p == chan[ipc[i].fd]
  IN  /\ ~ipcReady[i] \/ (outbox[p] = {} /\ kid[p] = "run")
      /\ at' = at + 1
      /\ UNCHANGED <<reg, chan, ipc, outbox>>

ServeChannel ==
  /\ pc = "ipc" /\ at <= Len(ipc)
  /\ \/ ipcReady[at] /\ (ReadRegs(at) \/ HangUp(at))
     \/ NothingThere(at)
  /\ UNCHANGED <<kid, claimed, owner, unsent, inbox, connVars, sigVars, parked,
                 pc, ndead, pollVars, new>>

ChannelsDone ==
  /\ pc = "ipc" /\ at > Len(ipc)
  /\ pc' = "sse"
  /\ at' = 0 /\ ipcReady' = <<>>
  /\ UNCHANGED <<kidVars, connVars, sigVars, tables, ndead,
                 parkedPoll, sseReady, sshReady, new>>

-----------------------------------------------------------------------------
(* New viewers and new SSH connections. *)

AfterSse ==
  /\ pc' = IF sshReady THEN "ssh" ELSE "top"
  /\ sseReady' = FALSE /\ sshReady' = FALSE
  /\ UNCHANGED <<at, ndead, ipcReady, parkedPoll, new>>

(* accept(), then route, park or (when too many are parked) drop. *)
AcceptViewer(c) ==
  /\ pc = "sse" /\ sseReady /\ conn[c] = "backlog"
  /\ \/ Process(c) /\ UNCHANGED <<parked, age>>
     \/ /\ Again(c) /\ Len(parked) < MaxPending
        /\ parked' = Append(parked, c)
        /\ conn' = [conn EXCEPT ![c] = "parked"]
        /\ age' = [age EXCEPT ![c] = 0]
        /\ UNCHANGED inbox
     \/ /\ Again(c) /\ Len(parked) >= MaxPending
        /\ conn' = [conn EXCEPT ![c] = "closed"]
        /\ UNCHANGED <<inbox, parked, age>>
  /\ AfterSse
  /\ UNCHANGED <<kid, claimed, owner, unsent, outbox, sent, sigVars, chan, ipc, reg>>

NoViewer ==
  /\ pc = "sse" /\ ~sseReady
  /\ AfterSse
  /\ UNCHANGED <<kidVars, connVars, sigVars, tables>>

(* At the limit, or turned away by the rate limit, a failing fork() or a signal. *)
TurnAway ==
  /\ pc = "ssh"
  /\ pc' = "top"
  /\ UNCHANGED <<kidVars, connVars, sigVars, tables, at, ndead, pollVars, new>>

(* accept() fails for another reason: tmate_fatal.  What the main process   *)
(* held is closed, its children go on without it, and it is started again.  *)
AcceptFails ==
  /\ pc = "ssh"
  /\ pc' = "top"
  /\ kid' = [p \in Pids |-> IF kid[p] \in {"run", "zombie"} THEN "orphan" ELSE kid[p]]
  /\ outbox' = [p \in Pids |-> {}]
  /\ conn' = [c \in Conns |-> IF conn[c] \in {"backlog", "parked"} THEN "closed" ELSE conn[c]]
  /\ active' = 0 /\ pendingGc' = FALSE
  /\ deadPids' = [k \in 0..MaxChildren-1 |-> None] /\ deadCount' = 0
  /\ chan' = [f \in Fds |-> None] /\ ipc' = <<>> /\ parked' = <<>>
  /\ reg' = [t \in Tokens |-> None]
  /\ UNCHANGED <<claimed, owner, unsent, inbox, sent, age, at, ndead, pollVars, new>>

ForkOneMore(p) ==
  /\ pc = "ssh" /\ active <= MaxChildren
  /\ kid[p] = "unborn"
  /\ kid' = [kid EXCEPT ![p] = "run"]
  /\ \E f \in {g \in Fds : chan[g] = None} \cup {None} :
       /\ chan' = IF f = None THEN chan ELSE [chan EXCEPT ![f] = p]
       /\ new' = [pid |-> p, fd |-> f, loaded |-> 0]
  /\ pc' = "forked"
  /\ UNCHANGED <<claimed, owner, unsent, outbox, inbox, connVars, sigVars, ipc, reg, parked,
                 at, ndead, pollVars>>

(* socketpair() and fork().  When socketpair() fails there is no channel. *)
Fork(p) ==
  /\ pc = "ssh" /\ active < MaxChildren
  /\ kid[p] = "unborn"
  /\ kid' = [kid EXCEPT ![p] = "run"]
  /\ \E f \in {g \in Fds : chan[g] = None} \cup {None} :
       /\ chan' = IF f = None THEN chan ELSE [chan EXCEPT ![f] = p]
       /\ new' = [pid |-> p, fd |-> f, loaded |-> 0]
  /\ pc' = "forked"
  /\ UNCHANGED <<claimed, owner, unsent, outbox, inbox, connVars, sigVars, ipc, reg, parked,
                 at, ndead, pollVars>>

(* active_children++ is a load and a store: the handler may run in between. *)
LoadActive ==
  /\ pc = "forked"
  /\ new' = [new EXCEPT !.loaded = active]
  /\ pc' = "count"
  /\ UNCHANGED <<kidVars, connVars, sigVars, tables, at, ndead, pollVars>>

(* The store; then the channel is tracked, or closed when there are too many. *)
StoreActive ==
  /\ pc = "count"
  /\ active' = new.loaded + 1
  /\ \/ new.fd = None /\ UNCHANGED <<ipc, chan>>
     \/ /\ new.fd # None /\ Len(ipc) < MaxChildren
        /\ ipc' = Append(ipc, [fd |-> new.fd, pid |-> new.pid])
        /\ UNCHANGED chan
     \/ /\ new.fd # None /\ Len(ipc) >= MaxChildren
        /\ chan' = [chan EXCEPT ![new.fd] = None]
        /\ UNCHANGED ipc
  /\ new' = NoChild
  /\ pc' = "top"
  /\ UNCHANGED <<kidVars, connVars, deadPids, deadCount, pendingGc, reg, parked,
                 at, ndead, pollVars>>

-----------------------------------------------------------------------------
Main ==
  \/ Top \/ TakeDead \/ DrainDead \/ Drained \/ Poll
  \/ ServeParked \/ ParkedDone \/ ServeChannel \/ ChannelsDone
  \/ (\E c \in Conns : AcceptViewer(c)) \/ NoViewer
  \/ TurnAway \/ AcceptFails \/ (\E p \in Pids : Fork(p)) \/ LoadActive \/ StoreActive

Child(p) == (\E t \in Tokens : Claim(p, t)) \/ SendReg(p) \/ Receive(p) \/ Exit(p)

Viewer(c) == Connect(c) \/ Request(c)

Next ==
  \/ Main \/ SigChld \/ Tick
  \/ \E p \in Pids : Child(p)
  \/ \E c \in Conns : Viewer(c)

Spec == Init /\ [][Next]_vars

(* The main process and the clock go on, signals are delivered, a child that *)
(* is not stopped sends what it has to send and reads its channel.           *)
Fairness ==
  /\ WF_vars(Main) /\ WF_vars(SigChld) /\ WF_vars(Tick)
  /\ \A p \in Pids : WF_vars(SendReg(p)) /\ WF_vars(Receive(p))

FairSpec == Spec /\ Fairness
=============================================================================
