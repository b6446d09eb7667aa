--------------------------- MODULE AcceptLoopProps ---------------------------
(***************************************************************************)
(* What the main process of the relay promises.                            *)
(***************************************************************************)
EXTENDS AcceptLoop

(* Every variable has its type; the arrays stay within their bounds. *)
KidTypes ==
  /\ kid \in [Pids -> {"unborn", "run", "zombie", "reaped", "orphan"}]
  /\ owner \in [Tokens -> Pids \cup {None}]
  /\ claimed \in [Pids -> SUBSET Tokens] /\ unsent \in [Pids -> SUBSET Tokens]
  /\ outbox \in [Pids -> SUBSET Tokens] /\ inbox \in [Pids -> Seq(Conns)]
ConnTypes ==
  /\ conn \in [Conns -> {"away", "backlog", "parked", "passed", "closed"}]
  /\ sent \in [Conns -> Tokens \cup {"silent", "eof"}]
  /\ age \in [Conns -> 0..PendingTimeout]
SignalTypes ==
  /\ active \in Nat /\ pendingGc \in BOOLEAN
  /\ deadPids \in [0..MaxChildren-1 -> Pids \cup {None}]
  /\ deadCount \in 0..MaxChildren
TableTypes ==
  /\ chan \in [Fds -> Pids \cup {None}]
  /\ ipc \in Seq(Channel) /\ Len(ipc) <= MaxChildren
  /\ reg \in [Tokens -> Channel \cup {None}]
  /\ parked \in Seq(Conns) /\ Len(parked) <= MaxPending
PollTypes ==
  /\ ipcReady \in Seq(BOOLEAN)
  /\ parkedPoll \in Seq([conn: Conns, ready: BOOLEAN])
  /\ sseReady \in BOOLEAN /\ sshReady \in BOOLEAN
LoopTypes ==
  /\ pc \in {"top", "take", "drain", "poll", "parked", "ipc", "sse", "ssh", "forked", "count"}
  /\ at \in Nat /\ ndead \in 0..MaxChildren
  /\ new \in [pid: Pids \cup {None}, fd: Fds \cup {None}, loaded: Nat]
TypeOK == KidTypes /\ ConnTypes /\ SignalTypes /\ TableTypes /\ PollTypes /\ LoopTypes

(* max_sessions is never exceeded, although the signal handler changes       *)
(* active_children between its check and its increment, which is a load and  *)
(* a store.  Those of an earlier main process do not count.                  *)
Admission == Cardinality(Unreaped) <= MaxChildren

(* What the counter is worth: it may be too high, never too low, but for the *)
(* child just forked.                                                        *)
Counted ==
  Cardinality(Unreaped) <=
    CASE pc = "forked" -> active + 1 [] pc = "count" -> new.loaded + 1 [] OTHER -> active

(* Every entry of the registry names a channel that is open, tracked, and    *)
(* the channel of the child it names: a descriptor that was closed and used  *)
(* again never routes a viewer to another session.                           *)
RegistrySound ==
  \A t \in Registered :
    /\ chan[reg[t].fd] = reg[t].pid
    /\ \E i \in DOMAIN ipc : ipc[i] = reg[t]
    /\ t \in claimed[reg[t].pid]

(* A viewer is only passed to a child that owns the token it asked for, or   *)
(* did so.                                                                   *)
NoStrangers ==
  \A p \in Pids : \A i \in DOMAIN inbox[p] : sent[inbox[p][i]] \in claimed[p]

(* Descriptors: each open channel is tracked exactly once, the one of the    *)
(* fork in progress excepted.  None leaks, none is used for two children.    *)
ChannelsTracked ==
  /\ \A i, j \in DOMAIN ipc : ipc[i].fd = ipc[j].fd \/ ipc[i].pid = ipc[j].pid => i = j
  /\ \A i \in DOMAIN ipc : chan[ipc[i].fd] = ipc[i].pid
  /\ \A f \in Fds : chan[f] # None =>
       \/ \E i \in DOMAIN ipc : ipc[i] = [fd |-> f, pid |-> chan[f]]
       \/ pc \in {"forked", "count"} /\ new.fd = f /\ new.pid = chan[f]

(* The registry and the channels go together: a token that is registered     *)
(* leads to the open channel of its child, and the channels to each other's  *)
(* children never mix, wherever the signal handler interrupts the loop.      *)
TablesSound == RegistrySound /\ ChannelsTracked

(* What a child that has not been forked yet can have: nothing.  A child     *)
(* registers what it has claimed.                                            *)
ChildInv ==
  /\ \A p \in Pids : outbox[p] \subseteq claimed[p] /\ unsent[p] \subseteq claimed[p]
  /\ \A f \in Fds : chan[f] # None => kid[chan[f]] # "unborn"

(* The child just forked and its channel, which is not tracked yet. *)
ForkInv ==
  pc \in {"forked", "count"} =>
    /\ new.pid \in Pids /\ kid[new.pid] # "unborn"
    /\ new.fd # None => chan[new.fd] = new.pid
    /\ \A i \in DOMAIN ipc : ipc[i].pid # new.pid

(* The inner loops count from one. *)
IndexInv == pc \in {"parked", "ipc"} => at >= 1

(* A connection that was passed on is not read from again. *)
PassedInv ==
  \A p \in Pids : \A i \in DOMAIN inbox[p] : conn[inbox[p][i]] \in {"passed", "closed"}

(* The inductive invariant. *)
IInv ==
  /\ TypeOK /\ IndexInv /\ Admission /\ Counted /\ ChildInv /\ ForkInv /\ PassedInv
  /\ ChannelsTracked /\ RegistrySound /\ NoStrangers

(* Although dead_pids may be overwritten while it is read, and children that *)
(* do not fit are not recorded: what a dead child had is dropped in the end, *)
(* its channel and its entries in the registry.                              *)
Forgotten(p) ==
  /\ \A t \in Registered : reg[t].pid # p
  /\ ~Connected(p)
GoneForgotten == \A p \in Pids : kid[p] = "zombie" ~> Forgotten(p)

(* A parked viewer is routed, answered or closed in the end. *)
ParkedResolved == \A c \in Conns : conn[c] = "parked" ~> conn[c] # "parked"

(* A child that goes on and keeps its channel gets the tokens nobody else    *)
(* claims into the registry, unless that is full.                            *)
SoleOwner(p, t) == \A q \in Pids : t \in claimed[q] <=> q = p
TokensServed ==
  \A p \in Pids, t \in Tokens :
    kid[p] = "run" /\ t \in claimed[p]
      ~> \/ reg[t] # None /\ reg[t].pid = p
         \/ Cardinality(Registered) = RegistryMax
         \/ kid[p] # "run" \/ ~Connected(p) \/ ~SoleOwner(p, t)
=============================================================================
