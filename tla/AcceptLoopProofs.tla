-------------------------- MODULE AcceptLoopProofs --------------------------
(***************************************************************************)
(* Proofs about AcceptLoop, for any limits and any finite set of children. *)
(***************************************************************************)
EXTENDS AcceptLoopProps, FiniteSetTheorems, SequenceTheorems, TLAPS

LEMMA Limits ==
  /\ MaxChildren \in Nat \ {0} /\ MaxPending \in Nat /\ RegistryMax \in Nat
  /\ PendingTimeout \in Nat \ {0} /\ QueueMax \in Nat \ {0}
  BY LimitsAssumption

-----------------------------------------------------------------------------
(* Arrays: what a[i] = a[--n] leaves, and what appending leaves. *)

LEMMA SwapRemoveSeq ==
  ASSUME NEW S, NEW s \in Seq(S), NEW i, Len(s) >= 1
  PROVE  /\ SwapRemove(s, i) \in Seq(S)
         /\ Len(SwapRemove(s, i)) = Len(s) - 1
         /\ DOMAIN SwapRemove(s, i) = 1..Len(s) - 1
         /\ \A k \in 1..Len(s) - 1 :
              SwapRemove(s, i)[k] = IF k = i THEN s[Len(s)] ELSE s[k]
<1>1. Len(s) \in Nat /\ Len(s) - 1 \in Nat /\ \A k \in 1..Len(s) : s[k] \in S
  BY ElementOfSeq
<1>2. SwapRemove(s, i) \in [1..Len(s) - 1 -> S]
  BY <1>1 DEF SwapRemove
<1>3. SwapRemove(s, i) \in Seq(S)
  BY <1>1, <1>2, SeqDef
<1> QED
  BY <1>1, <1>2, <1>3, LenProperties DEF SwapRemove

LEMMA FunctionIsSeq ==
  ASSUME NEW S, NEW n \in Nat, NEW s \in [1..n -> S]
  PROVE  s \in Seq(S)
  BY SeqDef

LEMMA AppendSeq ==
  ASSUME NEW S, NEW s \in Seq(S), NEW x \in S
  PROVE  /\ Append(s, x) \in Seq(S)
         /\ Len(Append(s, x)) = Len(s) + 1
         /\ DOMAIN Append(s, x) = 1..Len(s) + 1
         /\ \A k \in 1..Len(s) : Append(s, x)[k] = s[k]
         /\ Append(s, x)[Len(s) + 1] = x
<1>1. Append(s, x) \in Seq(S)
  OBVIOUS
<1>2. Len(Append(s, x)) = Len(s) + 1
  OBVIOUS
<1>3. DOMAIN Append(s, x) = 1..Len(s) + 1
  BY <1>1, <1>2, LenProperties
<1>4. \A k \in 1..Len(s) : Append(s, x)[k] = s[k]
  OBVIOUS
<1>5. Append(s, x)[Len(s) + 1] = x
  OBVIOUS
<1> QED
  BY <1>1, <1>2, <1>3, <1>4, <1>5

-----------------------------------------------------------------------------
(* Type correctness, one group of variables at a time. *)

LEMMA TypeInit == Init => TypeOK
<1> SUFFICES ASSUME Init PROVE TypeOK
  OBVIOUS
<1>1. KidTypes /\ ConnTypes
  <2>1. \A p \in Pids : inbox[p] = <<>> /\ <<>> \in Seq(Conns)
    BY EmptySeq DEF Init
  <2>2. inbox \in [Pids -> Seq(Conns)]
    BY <2>1 DEF Init
  <2>3. ConnTypes
    BY Limits DEF Init, ConnTypes
  <2> QED
    BY <2>2, <2>3 DEF Init, KidTypes
<1>2. SignalTypes
  <2>1. deadPids \in [0..MaxChildren-1 -> Pids \cup {None}]
    BY DEF Init
  <2>2. 0 \in 0..MaxChildren
    BY Limits
  <2> QED
    BY <2>1, <2>2 DEF Init, SignalTypes
<1>3. TableTypes /\ PollTypes
  <2>1. TableTypes
    BY Limits, EmptySeq DEF Init, TableTypes
  <2>2. PollTypes
    BY EmptySeq DEF Init, PollTypes
  <2> QED
    BY <2>1, <2>2
<1>4. LoopTypes
  BY Limits DEF Init, LoopTypes, NoChild
<1> QED
  BY <1>1, <1>2, <1>3, <1>4 DEF TypeOK

LEMMA Unchanged ==
  /\ KidTypes /\ UNCHANGED kidVars => KidTypes'
  /\ ConnTypes /\ UNCHANGED connVars => ConnTypes'
  /\ SignalTypes /\ UNCHANGED sigVars => SignalTypes'
  /\ TableTypes /\ UNCHANGED tables => TableTypes'
  /\ PollTypes /\ UNCHANGED pollVars => PollTypes'
  /\ LoopTypes /\ UNCHANGED <<pc, at, ndead, new>> => LoopTypes'
<1>1. KidTypes /\ UNCHANGED kidVars => KidTypes'
  BY DEF KidTypes, kidVars
<1>2. ConnTypes /\ UNCHANGED connVars => ConnTypes'
  BY DEF ConnTypes, connVars
<1>3. SignalTypes /\ UNCHANGED sigVars => SignalTypes'
  BY DEF SignalTypes, sigVars
<1>4. TableTypes /\ UNCHANGED tables => TableTypes'
  BY DEF TableTypes, tables
<1>5. PollTypes /\ UNCHANGED pollVars => PollTypes'
  BY DEF PollTypes, pollVars
<1>6. LoopTypes /\ UNCHANGED <<pc, at, ndead, new>> => LoopTypes'
  BY DEF LoopTypes
<1> QED
  BY <1>1, <1>2, <1>3, <1>4, <1>5, <1>6

(* The descriptors a child receives, and the states of the viewers. *)
LEMMA KidStep == TypeOK /\ IndexInv /\ [Next]_vars => KidTypes'
<1> SUFFICES ASSUME TypeOK, IndexInv, [Next]_vars PROVE KidTypes'
  OBVIOUS
<1>1. KidTypes /\ TableTypes /\ ConnTypes
  BY DEF TypeOK
<1>2. ASSUME NEW p \in Pids, Child(p) PROVE KidTypes'
  <2>1. ASSUME NEW t \in Tokens, Claim(p, t) PROVE KidTypes'
    BY <1>1, <2>1 DEF Claim, KidTypes
  <2>2. ASSUME SendReg(p) PROVE KidTypes'
    <3>1. outbox' \in [Pids -> SUBSET Tokens]
      BY <1>1, <2>2 DEF SendReg, KidTypes
    <3>2. unsent' \in [Pids -> SUBSET Tokens]
      BY <1>1, <2>2 DEF SendReg, KidTypes
    <3> QED
      BY <1>1, <2>2, <3>1, <3>2 DEF SendReg, KidTypes
  <2>3. ASSUME Receive(p) PROVE KidTypes'
    <3>1. Tail(inbox[p]) \in Seq(Conns)
      BY <1>1, <2>3, HeadTailProperties DEF Receive, KidTypes
    <3>2. inbox' \in [Pids -> Seq(Conns)]
      BY <1>1, <2>3, <3>1 DEF Receive, KidTypes
    <3> QED
      BY <1>1, <2>3, <3>2 DEF Receive, KidTypes
  <2>4. ASSUME Exit(p) PROVE KidTypes'
    <3>1. inbox' \in [Pids -> Seq(Conns)]
      BY <1>1, <2>4, EmptySeq DEF Exit, KidTypes
    <3>2. kid' \in [Pids -> {"unborn", "run", "zombie", "reaped", "orphan"}]
      BY <1>1, <2>4 DEF Exit, KidTypes
    <3>3. unsent' \in [Pids -> SUBSET Tokens]
      BY <1>1, <2>4 DEF Exit, KidTypes
    <3> QED
      BY <1>1, <2>4, <3>1, <3>2, <3>3 DEF Exit, KidTypes
  <2> QED
    BY <1>2, <2>1, <2>2, <2>3, <2>4 DEF Child
<1>3. ASSUME SigChld PROVE KidTypes'
  BY <1>1, <1>3 DEF SigChld, KidTypes
<1>4. ASSUME NEW c \in Conns, Process(c) PROVE inbox' \in [Pids -> Seq(Conns)]
  <2>1. CASE Pass(c)
    <3>1. \A p \in Pids : Append(inbox[p], c) \in Seq(Conns)
      BY <1>1, AppendSeq DEF KidTypes
    <3> QED
      BY <1>1, <2>1, <3>1 DEF Pass, KidTypes
  <2>2. CASE Close(c)
    BY <1>1, <2>2 DEF Close, KidTypes
  <2> QED
    BY <1>4, <2>1, <2>2 DEF Process
<1>5. ASSUME ServeParked PROVE KidTypes'
  <2>1. at \in 1..Len(parked)
    BY <1>5 DEF ServeParked, IndexInv, TypeOK, TableTypes, LoopTypes
  <2>2. parked[at] \in Conns
    BY <1>1, <2>1, ElementOfSeq DEF TableTypes
  <2>3. inbox' \in [Pids -> Seq(Conns)]
    BY <1>1, <1>4, <1>5, <2>2 DEF ServeParked, KidTypes
  <2> QED
    BY <1>1, <1>5, <2>3 DEF ServeParked, KidTypes
<1>6. ASSUME NEW c \in Conns, AcceptViewer(c) PROVE KidTypes'
  <2>1. inbox' \in [Pids -> Seq(Conns)]
    BY <1>1, <1>4, <1>6 DEF AcceptViewer, KidTypes
  <2> QED
    BY <1>1, <1>6, <2>1 DEF AcceptViewer, KidTypes
<1>7. ASSUME ServeChannel PROVE KidTypes'
  <2>1. outbox' \in [Pids -> SUBSET Tokens]
    BY <1>1, <1>7 DEF ServeChannel, ReadRegs, HangUp, NothingThere, KidTypes
  <2> QED
    BY <1>1, <1>7, <2>1 DEF ServeChannel, KidTypes
<1>8. ASSUME NEW p \in Pids, Fork(p) PROVE KidTypes'
  BY <1>1, <1>8 DEF Fork, KidTypes
<1>9. ASSUME NEW c \in Conns, Viewer(c) PROVE KidTypes'
  BY <1>1, <1>9, Unchanged DEF Viewer, Connect, Request
<1>10. ASSUME Tick \/ Top \/ TakeDead \/ DrainDead \/ Drained \/ Poll \/ ParkedDone PROVE KidTypes'
  BY <1>1, <1>10, Unchanged DEF Tick, Top, TakeDead, DrainDead, Drained, Poll, ParkedDone
<1>11. ASSUME ChannelsDone \/ NoViewer \/ TurnAway \/ LoadActive \/ StoreActive PROVE KidTypes'
  BY <1>1, <1>11, Unchanged DEF ChannelsDone, NoViewer, TurnAway, LoadActive, StoreActive
<1>12. ASSUME AcceptFails PROVE KidTypes'
  BY <1>1, <1>12 DEF AcceptFails, KidTypes
<1>13. ASSUME UNCHANGED vars PROVE KidTypes'
  BY <1>1, <1>13, Unchanged DEF vars
<1> QED
  BY <1>2, <1>3, <1>5, <1>6, <1>7, <1>8, <1>9, <1>10, <1>11, <1>12, <1>13 DEF Next, Main

LEMMA ConnStep == TypeOK /\ IndexInv /\ [Next]_vars => ConnTypes'
<1> SUFFICES ASSUME TypeOK, IndexInv, [Next]_vars PROVE ConnTypes'
  OBVIOUS
<1>1. ConnTypes /\ TableTypes
  BY DEF TypeOK
<1>2. ASSUME NEW p \in Pids, Child(p) PROVE ConnTypes'
  <2>1. CASE Exit(p)
    BY <1>1, <2>1 DEF Exit, ConnTypes
  <2>2. CASE (\E t \in Tokens : Claim(p, t)) \/ SendReg(p) \/ Receive(p)
    BY <1>1, <2>2, Unchanged DEF Claim, SendReg, Receive
  <2> QED
    BY <1>2, <2>1, <2>2 DEF Child
<1>3. ASSUME NEW c \in Conns, Viewer(c) PROVE ConnTypes'
  <2>1. CASE Connect(c)
    BY <1>1, <2>1 DEF Connect, ConnTypes
  <2>2. CASE Request(c)
    BY <1>1, <2>2 DEF Request, ConnTypes
  <2> QED
    BY <1>3, <2>1, <2>2 DEF Viewer
<1>4. ASSUME Tick PROVE ConnTypes'
  <2>1. age' \in [Conns -> 0..PendingTimeout]
    BY <1>1, <1>4, Limits DEF Tick, ConnTypes
  <2> QED
    BY <1>1, <1>4, <2>1 DEF Tick, ConnTypes
<1>5. ASSUME ServeParked PROVE ConnTypes'
  <2>1. conn' \in [Conns -> {"away", "backlog", "parked", "passed", "closed"}]
    BY <1>1, <1>5 DEF ServeParked, Process, Pass, Close, ConnTypes
  <2> QED
    BY <1>1, <1>5, <2>1 DEF ServeParked, ConnTypes
<1>6. ASSUME NEW c \in Conns, AcceptViewer(c) PROVE ConnTypes'
  <2>1. conn' \in [Conns -> {"away", "backlog", "parked", "passed", "closed"}]
    BY <1>1, <1>6 DEF AcceptViewer, Process, Pass, Close, ConnTypes
  <2>2. age' \in [Conns -> 0..PendingTimeout]
    BY <1>1, <1>6, Limits DEF AcceptViewer, ConnTypes
  <2> QED
    BY <1>1, <1>6, <2>1, <2>2 DEF AcceptViewer, ConnTypes
<1>7. ASSUME SigChld \/ Top \/ TakeDead \/ DrainDead \/ Drained \/ Poll PROVE ConnTypes'
  BY <1>1, <1>7, Unchanged DEF SigChld, Top, TakeDead, DrainDead, Drained, Poll
<1>8. ASSUME ParkedDone \/ ServeChannel \/ ChannelsDone \/ NoViewer PROVE ConnTypes'
  BY <1>1, <1>8, Unchanged DEF ParkedDone, ServeChannel, ChannelsDone, NoViewer
<1>9. ASSUME TurnAway \/ (\E p \in Pids : Fork(p)) \/ LoadActive \/ StoreActive PROVE ConnTypes'
  BY <1>1, <1>9, Unchanged DEF TurnAway, Fork, LoadActive, StoreActive
<1>10. ASSUME AcceptFails PROVE ConnTypes'
  BY <1>1, <1>10 DEF AcceptFails, ConnTypes
<1>11. ASSUME UNCHANGED vars PROVE ConnTypes'
  BY <1>1, <1>11, Unchanged DEF vars
<1> QED
  BY <1>2, <1>3, <1>4, <1>5, <1>6, <1>7, <1>8, <1>9, <1>10, <1>11 DEF Next, Main

(* What the signal handler and the loop share. *)
LEMMA SignalStep == TypeOK /\ [Next]_vars => SignalTypes'
<1> SUFFICES ASSUME TypeOK, [Next]_vars PROVE SignalTypes'
  OBVIOUS
<1>1. SignalTypes /\ LoopTypes
  BY DEF TypeOK
<1>2. ASSUME SigChld PROVE SignalTypes'
  <2> DEFINE n == Cardinality(Zombies)
  <2>1. n \in Nat
    BY LimitsAssumption, FS_Subset, FS_CardinalityType DEF Zombies
  <2>2. active' \in Nat
    BY <1>1, <1>2, <2>1 DEF SigChld, SignalTypes
  <2>3. Record(n)
    BY <1>2 DEF SigChld
  <2>4. deadCount' \in 0..MaxChildren
    BY <1>1, <2>1, <2>3, Limits DEF Record, SignalTypes
  <2>5. deadPids' \in [0..MaxChildren-1 -> Pids \cup {None}]
    <3> HIDE DEF n
    <3>1. PICK order \in [1..n -> Zombies] :
            deadPids' = [k \in 0..MaxChildren-1 |->
                           IF k >= deadCount /\ k < deadCount + n
                             THEN order[k - deadCount + 1] ELSE deadPids[k]]
      BY <2>3 DEF Record, Orders
    <3>2. ASSUME NEW k \in 0..MaxChildren-1, k >= deadCount, k < deadCount + n
          PROVE  order[k - deadCount + 1] \in Pids
      <4>1. k - deadCount + 1 \in 1..n
        BY <1>1, <2>1, <3>2, Limits DEF SignalTypes
      <4> QED
        BY <3>1, <4>1 DEF Zombies
    <3> QED
      BY <1>1, <3>1, <3>2 DEF SignalTypes
  <2> QED
    BY <1>2, <2>2, <2>4, <2>5 DEF SigChld, SignalTypes
<1>3. ASSUME Top PROVE SignalTypes'
  BY <1>1, <1>3 DEF Top, SignalTypes
<1>4. ASSUME TakeDead PROVE SignalTypes'
  BY <1>1, <1>4, Limits DEF TakeDead, SignalTypes
<1>5. ASSUME StoreActive PROVE SignalTypes'
  BY <1>1, <1>5 DEF StoreActive, SignalTypes, LoopTypes
<1>6. ASSUME NEW p \in Pids, Child(p) PROVE SignalTypes'
  BY <1>1, <1>6, Unchanged DEF Child, Claim, SendReg, Receive, Exit
<1>7. ASSUME Tick \/ \E c \in Conns : Viewer(c) PROVE SignalTypes'
  BY <1>1, <1>7, Unchanged DEF Tick, Viewer, Connect, Request
<1>8. ASSUME DrainDead \/ Drained \/ Poll \/ ServeParked \/ ParkedDone PROVE SignalTypes'
  BY <1>1, <1>8, Unchanged DEF DrainDead, Drained, Poll, ServeParked, ParkedDone
<1>9. ASSUME ServeChannel \/ ChannelsDone \/ NoViewer \/ \E c \in Conns : AcceptViewer(c)
      PROVE SignalTypes'
  BY <1>1, <1>9, Unchanged DEF ServeChannel, ChannelsDone, NoViewer, AcceptViewer
<1>10. ASSUME TurnAway \/ (\E p \in Pids : Fork(p)) \/ LoadActive PROVE SignalTypes'
  BY <1>1, <1>10, Unchanged DEF TurnAway, Fork, LoadActive
<1>11. ASSUME AcceptFails PROVE SignalTypes'
  <2>1. deadPids' \in [0..MaxChildren-1 -> Pids \cup {None}]
    BY <1>11 DEF AcceptFails
  <2>2. 0 \in 0..MaxChildren
    BY Limits
  <2>3. active' = 0 /\ pendingGc' = FALSE /\ deadCount' = 0
    BY <1>11 DEF AcceptFails
  <2> QED
    BY <2>1, <2>2, <2>3 DEF SignalTypes
<1>12. ASSUME UNCHANGED vars PROVE SignalTypes'
  BY <1>1, <1>12, Unchanged DEF vars
<1> QED
  BY <1>2, <1>3, <1>4, <1>5, <1>6, <1>7, <1>8, <1>9, <1>10, <1>11, <1>12 DEF Next, Main

(* The channels, the registry and the parked connections. *)
LEMMA DropTypes ==
  ASSUME TableTypes, NEW i \in DOMAIN ipc, Drop(i)
  PROVE  /\ ipc[i] \in Channel /\ Len(ipc) >= 1
         /\ chan' \in [Fds -> Pids \cup {None}]
         /\ ipc' \in Seq(Channel) /\ Len(ipc') <= MaxChildren
<1>1. ipc \in Seq(Channel) /\ Len(ipc) \in Nat /\ i \in 1..Len(ipc)
  BY DEF TableTypes
<1>2. ipc[i] \in Channel /\ Len(ipc) >= 1
  BY <1>1, ElementOfSeq
<1>3. ipc' \in Seq(Channel) /\ Len(ipc') = Len(ipc) - 1
  BY <1>1, <1>2, SwapRemoveSeq DEF Drop
<1>4. Len(ipc') <= MaxChildren
  BY <1>1, <1>3, Limits DEF TableTypes
<1>5. chan' \in [Fds -> Pids \cup {None}]
  BY DEF Drop, TableTypes
<1> QED
  BY <1>2, <1>3, <1>4, <1>5

LEMMA TableStep == TypeOK /\ IndexInv /\ ForkInv /\ [Next]_vars => TableTypes'
<1> SUFFICES ASSUME TypeOK, IndexInv, ForkInv, [Next]_vars PROVE TableTypes'
  OBVIOUS
<1>1. TableTypes /\ LoopTypes /\ KidTypes
  BY DEF TypeOK
<1>2. ASSUME DrainDead PROVE TableTypes'
  <2>1. reg' \in [Tokens -> Channel \cup {None}]
    BY <1>1, <1>2 DEF DrainDead, RemoveByPid, TableTypes
  <2>2. /\ chan' \in [Fds -> Pids \cup {None}]
        /\ ipc' \in Seq(Channel) /\ Len(ipc') <= MaxChildren
    <3>1. CASE \E i \in DOMAIN ipc : Drop(i)
      BY <1>1, <3>1, DropTypes
    <3>2. CASE UNCHANGED <<chan, ipc>>
      BY <1>1, <3>2 DEF TableTypes
    <3> QED
      BY <1>2, <3>1, <3>2 DEF DrainDead
  <2> QED
    BY <1>1, <1>2, <2>1, <2>2 DEF DrainDead, TableTypes
<1>3. ASSUME ServeParked PROVE TableTypes'
  <2>1. parked \in Seq(Conns) /\ Len(parked) \in Nat /\ Len(parked) >= 1
    BY <1>1, <1>3 DEF ServeParked, IndexInv, TableTypes, LoopTypes
  <2>2. SwapRemove(parked, at) \in Seq(Conns) /\ Len(SwapRemove(parked, at)) = Len(parked) - 1
    BY <2>1, SwapRemoveSeq
  <2>3. parked' \in {parked, SwapRemove(parked, at)}
    BY <1>3 DEF ServeParked
  <2> QED
    BY <1>1, <1>3, <2>1, <2>2, <2>3, Limits DEF ServeParked, TableTypes
<1>4. ASSUME ServeChannel PROVE TableTypes'
  <2>1. at \in DOMAIN ipc
    BY <1>1, <1>4 DEF ServeChannel, IndexInv, TableTypes, LoopTypes
  <2>2. ipc[at] \in Channel
    BY <1>1, <2>1, ElementOfSeq DEF TableTypes
  <2>3. CASE ReadRegs(at)
    <3>1. reg' \in [Tokens -> Channel \cup {None}]
      BY <1>1, <2>2, <2>3 DEF ReadRegs, Registries, TableTypes
    <3> QED
      BY <1>1, <1>4, <2>3, <3>1 DEF ServeChannel, ReadRegs, TableTypes
  <2>4. CASE HangUp(at)
    <3>1. Drop(at)
      BY <2>4 DEF HangUp
    <3>2. reg' \in [Tokens -> Channel \cup {None}]
      BY <1>1, <2>4 DEF HangUp, RemoveByFd, TableTypes
    <3> QED
      BY <1>1, <1>4, <2>1, <3>1, <3>2, DropTypes DEF ServeChannel, TableTypes
  <2>5. CASE NothingThere(at)
    BY <1>1, <1>4, <2>5 DEF ServeChannel, NothingThere, TableTypes
  <2> QED
    BY <1>4, <2>3, <2>4, <2>5 DEF ServeChannel
<1>5. ASSUME NEW c \in Conns, AcceptViewer(c) PROVE TableTypes'
  <2>1. Append(parked, c) \in Seq(Conns) /\ Len(Append(parked, c)) = Len(parked) + 1
        /\ Len(parked) \in Nat
    BY <1>1, AppendSeq DEF TableTypes
  <2>2. parked' \in Seq(Conns) /\ Len(parked') <= MaxPending
    <3>1. \/ parked' = parked
          \/ parked' = Append(parked, c) /\ Len(parked) < MaxPending
      BY <1>5 DEF AcceptViewer
    <3>2. CASE parked' = parked
      BY <1>1, <3>2 DEF TableTypes
    <3>3. CASE parked' = Append(parked, c) /\ Len(parked) < MaxPending
      BY <2>1, <3>3, Limits
    <3> QED
      BY <3>1, <3>2, <3>3
  <2> QED
    BY <1>1, <1>5, <2>2 DEF AcceptViewer, TableTypes
<1>6. ASSUME NEW p \in Pids, Fork(p) PROVE TableTypes'
  BY <1>1, <1>6 DEF Fork, TableTypes
<1>7. ASSUME StoreActive PROVE TableTypes'
  <2>1. CASE UNCHANGED <<ipc, chan>>
    BY <1>1, <1>7, <2>1 DEF StoreActive, TableTypes
  <2>2. CASE UNCHANGED ipc /\ chan' = [chan EXCEPT ![new.fd] = None]
    BY <1>1, <1>7, <2>2 DEF StoreActive, TableTypes
  <2>3. CASE /\ new.fd # None /\ Len(ipc) < MaxChildren /\ UNCHANGED chan
             /\ ipc' = Append(ipc, [fd |-> new.fd, pid |-> new.pid])
    <3>1. [fd |-> new.fd, pid |-> new.pid] \in Channel
      BY <1>1, <1>7, <2>3 DEF StoreActive, ForkInv, LoopTypes, Channel
    <3>2. ipc' \in Seq(Channel) /\ Len(ipc') = Len(ipc) + 1 /\ Len(ipc) \in Nat
      BY <1>1, <2>3, <3>1, AppendSeq DEF TableTypes
    <3>3. Len(ipc') <= MaxChildren
      BY <2>3, <3>2, Limits
    <3> QED
      BY <1>1, <1>7, <2>3, <3>2, <3>3 DEF StoreActive, TableTypes
  <2> QED
    BY <1>7, <2>1, <2>2, <2>3 DEF StoreActive
<1>8. ASSUME NEW p \in Pids, Child(p) PROVE TableTypes'
  BY <1>1, <1>8, Unchanged DEF Child, Claim, SendReg, Receive, Exit
<1>9. ASSUME Tick \/ \E c \in Conns : Viewer(c) PROVE TableTypes'
  BY <1>1, <1>9, Unchanged DEF Tick, Viewer, Connect, Request
<1>10. ASSUME SigChld \/ Top \/ TakeDead \/ Drained \/ Poll \/ ParkedDone PROVE TableTypes'
  BY <1>1, <1>10, Unchanged DEF SigChld, Top, TakeDead, Drained, Poll, ParkedDone
<1>11. ASSUME ChannelsDone \/ NoViewer \/ TurnAway \/ LoadActive PROVE TableTypes'
  BY <1>1, <1>11, Unchanged DEF ChannelsDone, NoViewer, TurnAway, LoadActive
<1>12. ASSUME AcceptFails PROVE TableTypes'
  BY <1>1, <1>12, EmptySeq, Limits DEF AcceptFails, TableTypes
<1>13. ASSUME UNCHANGED vars PROVE TableTypes'
  BY <1>1, <1>13, Unchanged DEF vars
<1> QED
  BY <1>2, <1>3, <1>4, <1>5, <1>6, <1>7, <1>8, <1>9, <1>10, <1>11, <1>12, <1>13 DEF Next, Main

LEMMA PollStep == TypeOK /\ [Next]_vars => PollTypes'
<1> SUFFICES ASSUME TypeOK, [Next]_vars PROVE PollTypes'
  OBVIOUS
<1>1. PollTypes /\ TableTypes
  BY DEF TypeOK
<1>2. ASSUME Poll PROVE PollTypes'
  <2>1. ipcReady' \in [1..Len(ipc) -> BOOLEAN] /\ Len(ipc) \in Nat
    BY <1>1, <1>2 DEF Poll, TableTypes
  <2>2. parkedPoll' \in [1..Len(parked) -> [conn: Conns, ready: BOOLEAN]] /\ Len(parked) \in Nat
    BY <1>1, <1>2 DEF Poll, Again, TableTypes
  <2>3. ipcReady' \in Seq(BOOLEAN) /\ parkedPoll' \in Seq([conn: Conns, ready: BOOLEAN])
    BY <2>1, <2>2, FunctionIsSeq
  <2>4. sseReady' \in BOOLEAN /\ sshReady' \in BOOLEAN
    BY <1>2, Zenon DEF Poll
  <2> QED
    BY <2>3, <2>4 DEF PollTypes
<1>3. ASSUME ParkedDone PROVE PollTypes'
  BY <1>1, <1>3, EmptySeq DEF ParkedDone, PollTypes
<1>4. ASSUME ChannelsDone PROVE PollTypes'
  BY <1>1, <1>4, EmptySeq DEF ChannelsDone, PollTypes
<1>5. ASSUME NoViewer \/ \E c \in Conns : AcceptViewer(c) PROVE PollTypes'
  BY <1>1, <1>5 DEF NoViewer, AcceptViewer, AfterSse, PollTypes
<1>6. ASSUME NEW p \in Pids, Child(p) PROVE PollTypes'
  BY <1>1, <1>6, Unchanged DEF Child, Claim, SendReg, Receive, Exit, loopVars
<1>7. ASSUME Tick \/ \E c \in Conns : Viewer(c) PROVE PollTypes'
  BY <1>1, <1>7, Unchanged DEF Tick, Viewer, Connect, Request, loopVars
<1>8. ASSUME SigChld \/ Top \/ TakeDead \/ DrainDead \/ Drained PROVE PollTypes'
  BY <1>1, <1>8, Unchanged DEF SigChld, Top, TakeDead, DrainDead, Drained
<1>9. ASSUME ServeParked \/ ServeChannel \/ TurnAway PROVE PollTypes'
  BY <1>1, <1>9, Unchanged DEF ServeParked, ServeChannel, TurnAway
<1>10. ASSUME (\E p \in Pids : Fork(p)) \/ LoadActive \/ StoreActive PROVE PollTypes'
  BY <1>1, <1>10, Unchanged DEF Fork, LoadActive, StoreActive
<1>11. ASSUME AcceptFails PROVE PollTypes'
  BY <1>1, <1>11, Unchanged DEF AcceptFails
<1>12. ASSUME UNCHANGED vars PROVE PollTypes'
  BY <1>1, <1>12, Unchanged DEF vars, loopVars
<1> QED
  BY <1>2, <1>3, <1>4, <1>5, <1>6, <1>7, <1>8, <1>9, <1>10, <1>11, <1>12 DEF Next, Main

LEMMA LoopStep == TypeOK /\ [Next]_vars => LoopTypes'
<1> SUFFICES ASSUME TypeOK, [Next]_vars PROVE LoopTypes'
  OBVIOUS
<1>1. LoopTypes /\ SignalTypes
  BY DEF TypeOK
<1>2. ASSUME SigChld \/ Top \/ TakeDead PROVE LoopTypes'
  BY <1>1, <1>2 DEF SigChld, Top, TakeDead, LoopTypes, SignalTypes
<1>3. ASSUME DrainDead \/ Drained \/ Poll PROVE LoopTypes'
  <2>1. 0 \in 0..MaxChildren
    BY Limits
  <2>2. CASE DrainDead
    BY <1>1, <2>2 DEF DrainDead, LoopTypes
  <2>3. CASE Drained
    BY <1>1, <2>1, <2>3 DEF Drained, LoopTypes
  <2>4. CASE Poll
    BY <1>1, <2>4 DEF Poll, LoopTypes
  <2> QED
    BY <1>3, <2>2, <2>3, <2>4
<1>4. ASSUME ServeParked PROVE LoopTypes'
  BY <1>1, <1>4 DEF ServeParked, LoopTypes
<1>5. ASSUME ParkedDone \/ ChannelsDone PROVE LoopTypes'
  BY <1>1, <1>5 DEF ParkedDone, ChannelsDone, LoopTypes
<1>6. ASSUME ServeChannel PROVE LoopTypes'
  BY <1>1, <1>6 DEF ServeChannel, ReadRegs, HangUp, NothingThere, LoopTypes
<1>7. ASSUME NoViewer \/ TurnAway \/ \E c \in Conns : AcceptViewer(c) PROVE LoopTypes'
  BY <1>1, <1>7 DEF NoViewer, TurnAway, AcceptViewer, AfterSse, LoopTypes
<1>8. ASSUME NEW p \in Pids, Fork(p) PROVE LoopTypes'
  BY <1>1, <1>8 DEF Fork, LoopTypes
<1>9. ASSUME LoadActive PROVE LoopTypes'
  BY <1>1, <1>9 DEF LoadActive, LoopTypes, SignalTypes
<1>10. ASSUME StoreActive PROVE LoopTypes'
  BY <1>1, <1>10 DEF StoreActive, NoChild, LoopTypes
<1>11. ASSUME NEW p \in Pids, Child(p) PROVE LoopTypes'
  BY <1>1, <1>11, Unchanged DEF Child, Claim, SendReg, Receive, Exit, loopVars
<1>12. ASSUME Tick \/ \E c \in Conns : Viewer(c) PROVE LoopTypes'
  BY <1>1, <1>12, Unchanged DEF Tick, Viewer, Connect, Request, loopVars
<1>13. ASSUME AcceptFails PROVE LoopTypes'
  BY <1>1, <1>13 DEF AcceptFails, LoopTypes
<1>14. ASSUME UNCHANGED vars PROVE LoopTypes'
  BY <1>1, <1>14, Unchanged DEF vars, loopVars
<1> QED
  BY <1>2, <1>3, <1>4, <1>5, <1>6, <1>7, <1>8, <1>9, <1>10, <1>11, <1>12, <1>13, <1>14 DEF Next, Main

LEMMA TypeStep == TypeOK /\ IndexInv /\ ForkInv /\ [Next]_vars => TypeOK'
  BY KidStep, ConnStep, SignalStep, TableStep, PollStep, LoopStep DEF TypeOK

-----------------------------------------------------------------------------
(* The children, the channels and the fork in progress: the steps that      *)
(* matter to them.                                                          *)

Forking == pc \in {"forked", "count"}

LEMMA Frames ==
  ASSUME TypeOK, IndexInv, [Next]_vars
  PROVE  \/ \E p \in Pids : Exit(p)
         \/ SigChld
         \/ /\ ~Forking /\ UNCHANGED <<kid, active, new, pc>>
            /\ \E i \in DOMAIN ipc : Drop(i)
         \/ (\E p \in Pids : Fork(p)) \/ LoadActive \/ StoreActive \/ AcceptFails
         \/ /\ UNCHANGED <<kid, active, chan, ipc, new>>
            /\ pc' = pc \/ (~Forking /\ ~Forking')
<1> DEFINE Quiet == /\ UNCHANGED <<kid, active, chan, ipc, new>>
                    /\ pc' = pc \/ (~Forking /\ ~Forking')
           Dropped == /\ ~Forking /\ UNCHANGED <<kid, active, new, pc>>
                      /\ \E i \in DOMAIN ipc : Drop(i)
<1>1. ASSUME NEW p \in Pids, Child(p) PROVE Exit(p) \/ Quiet
  BY <1>1 DEF Child, Claim, SendReg, Receive, tables, sigVars, loopVars
<1>2. ASSUME Tick \/ \E c \in Conns : Viewer(c) PROVE Quiet
  BY <1>2 DEF Tick, Viewer, Connect, Request, kidVars, tables, sigVars, loopVars
<1>3. ASSUME Top \/ TakeDead \/ Drained \/ Poll PROVE Quiet
  BY <1>3 DEF Top, TakeDead, Drained, Poll, kidVars, tables, sigVars, Forking
<1>4. ASSUME ServeParked \/ ParkedDone PROVE Quiet
  BY <1>4 DEF ServeParked, ParkedDone, kidVars, tables, sigVars, Forking
<1>5. ASSUME ChannelsDone \/ NoViewer \/ TurnAway \/ \E c \in Conns : AcceptViewer(c) PROVE Quiet
  BY <1>5 DEF ChannelsDone, NoViewer, AcceptViewer, TurnAway, AfterSse, kidVars, tables, sigVars, Forking
<1>6. ASSUME DrainDead PROVE Quiet \/ Dropped
  BY <1>6 DEF DrainDead, kidVars, sigVars, Forking
<1>7. ASSUME ServeChannel PROVE Quiet \/ Dropped
  <2>1. at \in DOMAIN ipc
    BY <1>7 DEF ServeChannel, IndexInv, TypeOK, TableTypes, LoopTypes
  <2> QED
    BY <1>7, <2>1 DEF ServeChannel, ReadRegs, HangUp, NothingThere, sigVars, Forking
<1>8. ASSUME UNCHANGED vars PROVE Quiet
  BY <1>8 DEF vars, kidVars, tables, sigVars, loopVars
<1> QED
  BY <1>1, <1>2, <1>3, <1>4, <1>5, <1>6, <1>7, <1>8 DEF Next, Main

LEMMA IndexStep == TypeOK /\ IndexInv /\ [Next]_vars => IndexInv'
<1> SUFFICES ASSUME TypeOK, IndexInv, [Next]_vars PROVE IndexInv'
  OBVIOUS
<1>1. at \in Nat
  BY DEF TypeOK, LoopTypes
<1>2. ASSUME NEW p \in Pids, Child(p) PROVE IndexInv'
  BY <1>2 DEF Child, Claim, SendReg, Receive, Exit, loopVars, IndexInv
<1>3. ASSUME Tick \/ \E c \in Conns : Viewer(c) PROVE IndexInv'
  BY <1>3 DEF Tick, Viewer, Connect, Request, loopVars, IndexInv
<1>4. ASSUME SigChld \/ Top \/ TakeDead \/ DrainDead \/ Drained \/ Poll PROVE IndexInv'
  <2>1. CASE SigChld
    BY <2>1 DEF SigChld, IndexInv
  <2>2. CASE Top \/ TakeDead \/ DrainDead \/ Drained
    BY <2>2 DEF Top, TakeDead, DrainDead, Drained, IndexInv
  <2>3. CASE Poll
    BY <2>3 DEF Poll, IndexInv
  <2> QED
    BY <1>4, <2>1, <2>2, <2>3
<1>5. ASSUME ServeParked \/ ParkedDone \/ ServeChannel \/ ChannelsDone PROVE IndexInv'
  BY <1>1, <1>5 DEF ServeParked, ParkedDone, ServeChannel, ReadRegs, HangUp, NothingThere,
     ChannelsDone, IndexInv
<1>6. ASSUME NoViewer \/ TurnAway \/ \E c \in Conns : AcceptViewer(c) PROVE IndexInv'
  BY <1>6 DEF NoViewer, TurnAway, AcceptViewer, AfterSse, IndexInv
<1>7. ASSUME (\E p \in Pids : Fork(p)) \/ LoadActive \/ StoreActive PROVE IndexInv'
  BY <1>7 DEF Fork, LoadActive, StoreActive, IndexInv
<1>8. ASSUME AcceptFails PROVE IndexInv'
  BY <1>8 DEF AcceptFails, IndexInv
<1>9. ASSUME UNCHANGED vars PROVE IndexInv'
  BY <1>9 DEF vars, loopVars, IndexInv
<1> QED
  BY <1>2, <1>3, <1>4, <1>5, <1>6, <1>7, <1>8, <1>9 DEF Next, Main

-----------------------------------------------------------------------------
(* The limit on children. *)

LEMMA UnreapedFinite ==
  /\ IsFiniteSet(Unreaped) /\ Cardinality(Unreaped) \in Nat
  /\ IsFiniteSet(Zombies) /\ Cardinality(Zombies) \in Nat
  /\ Zombies \subseteq Unreaped
  BY LimitsAssumption, FS_Subset, FS_CardinalityType DEF Unreaped, Zombies

LEMMA Reaping ==
  SigChld => Cardinality(Unreaped)' = Cardinality(Unreaped) - Cardinality(Zombies)
<1> SUFFICES ASSUME SigChld PROVE Cardinality(Unreaped') = Cardinality(Unreaped) - Cardinality(Zombies)
  OBVIOUS
<1>1. Unreaped' = Unreaped \ Zombies
  BY DEF SigChld, Unreaped, Zombies
<1>2. (Unreaped \cap Zombies) = Zombies
  BY DEF Unreaped, Zombies
<1>3. Cardinality(Unreaped \ Zombies) = Cardinality(Unreaped) - Cardinality(Unreaped \cap Zombies)
  BY UnreapedFinite, FS_Difference
<1> QED
  BY <1>1, <1>2, <1>3

LEMMA AdmissionStep ==
  TypeOK /\ IndexInv /\ Admission /\ Counted /\ [Next]_vars => Admission' /\ Counted'
<1> SUFFICES ASSUME TypeOK, IndexInv, Admission, Counted, [Next]_vars
             PROVE  Admission' /\ Counted'
  OBVIOUS
<1> DEFINE card == Cardinality(Unreaped)
           n == Cardinality(Zombies)
<1>1. card \in Nat /\ n \in Nat /\ n <= card /\ active \in Nat /\ new.loaded \in Nat
  BY UnreapedFinite, FS_Subset DEF TypeOK, SignalTypes, LoopTypes
<1>2. ASSUME UNCHANGED Unreaped, UNCHANGED <<active, new>>, pc' = pc \/ (~Forking /\ ~Forking')
      PROVE  Admission' /\ Counted'
  BY <1>2 DEF Admission, Counted, Forking
<1>3. ASSUME NEW p \in Pids, Exit(p) PROVE Admission' /\ Counted'
  <2>1. UNCHANGED Unreaped
    BY <1>3 DEF Exit, Unreaped, TypeOK, KidTypes
  <2> QED
    BY <1>2, <1>3, <2>1 DEF Exit, sigVars, loopVars
<1>4. ASSUME SigChld PROVE Admission' /\ Counted'
  <2>1. Cardinality(Unreaped)' = card - n
    BY <1>4, Reaping
  <2>2. active' = IF active >= n THEN active - n ELSE 0
    BY <1>4 DEF SigChld
  <2>3. new' = new /\ (pc' = pc \/ (~Forking /\ ~Forking'))
    BY <1>4 DEF SigChld, Forking
  <2>4. Admission'
    BY <1>1, <2>1, Limits DEF Admission
  <2>5. Counted'
    <3> HIDE DEF card, n
    <3>1. card = Cardinality(Unreaped)
      BY DEF card
    <3>2. CASE pc = "forked"
      BY <1>1, <2>1, <2>2, <2>3, <3>1, <3>2 DEF Counted, Forking
    <3>3. CASE pc = "count"
      BY <1>1, <2>1, <2>2, <2>3, <3>1, <3>3 DEF Counted, Forking
    <3>4. CASE ~Forking
      BY <1>1, <2>1, <2>2, <2>3, <3>1, <3>4 DEF Counted, Forking
    <3> QED
      BY <3>2, <3>3, <3>4 DEF Forking
  <2> QED
    BY <2>4, <2>5
<1>5. ASSUME NEW p \in Pids, Fork(p) PROVE Admission' /\ Counted'
  <2>1. Unreaped' = Unreaped \cup {p} /\ p \notin Unreaped
    BY <1>5 DEF Fork, Unreaped, TypeOK, KidTypes
  <2>2. Cardinality(Unreaped)' = card + 1
    BY <2>1, UnreapedFinite, FS_AddElement
  <2>3. card <= active /\ active < MaxChildren /\ active' = active /\ pc' = "forked"
    BY <1>5 DEF Fork, Counted, sigVars
  <2> QED
    BY <1>1, <2>2, <2>3, Limits DEF Admission, Counted
<1>6. ASSUME LoadActive PROVE Admission' /\ Counted'
  <2>1. new'.loaded = active /\ pc = "forked" /\ pc' = "count" /\ UNCHANGED Unreaped
    BY <1>6 DEF LoadActive, kidVars, Unreaped, TypeOK, LoopTypes
  <2> QED
    BY <2>1 DEF Admission, Counted
<1>7. ASSUME StoreActive PROVE Admission' /\ Counted'
  <2>1. active' = new.loaded + 1 /\ pc = "count" /\ pc' = "top" /\ UNCHANGED Unreaped
    BY <1>7 DEF StoreActive, kidVars, Unreaped
  <2> QED
    BY <2>1 DEF Admission, Counted
<1>8. ASSUME AcceptFails PROVE Admission' /\ Counted'
  <2>1. Unreaped' = {} /\ active' = 0 /\ pc' = "top"
    BY <1>8 DEF AcceptFails, Unreaped, TypeOK, KidTypes
  <2>2. Cardinality(Unreaped)' = 0
    BY <2>1, FS_EmptySet
  <2> QED
    BY <2>1, <2>2, Limits DEF Admission, Counted
<1> QED
  BY <1>2, <1>3, <1>4, <1>5, <1>6, <1>7, <1>8, Frames DEF Unreaped

-----------------------------------------------------------------------------
(* Children and their channels. *)

LEMMA ChildStep == TypeOK /\ IndexInv /\ ChildInv /\ [Next]_vars => ChildInv'
<1> SUFFICES ASSUME TypeOK, IndexInv, ChildInv, [Next]_vars PROVE ChildInv'
  OBVIOUS
<1> DEFINE Claims == \A p \in Pids : outbox[p] \subseteq claimed[p] /\ unsent[p] \subseteq claimed[p]
           Born == \A f \in Fds : chan[f] # None => kid[chan[f]] # "unborn"
<1>1. KidTypes /\ TableTypes /\ Claims /\ Born
  BY DEF ChildInv, TypeOK
<1>2. Claims'
  <2>1. ASSUME NEW p \in Pids, Child(p) PROVE Claims'
    <3>1. ASSUME NEW t \in Tokens, Claim(p, t) PROVE Claims'
      BY <1>1, <3>1 DEF Claim, KidTypes
    <3>2. CASE SendReg(p)
      BY <1>1, <3>2 DEF SendReg, KidTypes
    <3>3. CASE Receive(p)
      BY <1>1, <3>3 DEF Receive
    <3>4. CASE Exit(p)
      BY <1>1, <3>4 DEF Exit, KidTypes
    <3> QED
      BY <2>1, <3>1, <3>2, <3>3, <3>4 DEF Child
  <2>2. ASSUME ServeChannel PROVE Claims'
    BY <1>1, <2>2 DEF ServeChannel, ReadRegs, HangUp, NothingThere, KidTypes
  <2>3. ASSUME UNCHANGED <<claimed, unsent, outbox>> PROVE Claims'
    BY <1>1, <2>3
  <2>4. ASSUME Tick \/ \E c \in Conns : Viewer(c) PROVE Claims'
    BY <2>3, <2>4 DEF Tick, Viewer, Connect, Request, kidVars
  <2>5. ASSUME SigChld \/ Top \/ TakeDead \/ DrainDead \/ Drained \/ Poll PROVE Claims'
    BY <2>3, <2>5 DEF SigChld, Top, TakeDead, DrainDead, Drained, Poll, kidVars
  <2>6. ASSUME ServeParked \/ ParkedDone \/ ChannelsDone \/ NoViewer PROVE Claims'
    BY <2>3, <2>6 DEF ServeParked, ParkedDone, ChannelsDone, NoViewer, kidVars
  <2>7. ASSUME TurnAway \/ \E c \in Conns : AcceptViewer(c) PROVE Claims'
    BY <2>3, <2>7 DEF TurnAway, AcceptViewer, kidVars
  <2>8. ASSUME (\E p \in Pids : Fork(p)) \/ LoadActive \/ StoreActive PROVE Claims'
    BY <2>3, <2>8 DEF Fork, LoadActive, StoreActive, kidVars
  <2>9. ASSUME AcceptFails PROVE Claims'
    BY <1>1, <2>9 DEF AcceptFails
  <2>10. ASSUME UNCHANGED vars PROVE Claims'
    BY <2>3, <2>10 DEF vars, kidVars
  <2> QED
    BY <2>1, <2>2, <2>4, <2>5, <2>6, <2>7, <2>8, <2>9, <2>10 DEF Next, Main
<1>3. Born'
  <2>1. ASSUME NEW p \in Pids, Exit(p) PROVE Born'
    BY <1>1, <2>1 DEF Exit, tables, KidTypes, TableTypes
  <2>2. ASSUME SigChld PROVE Born'
    BY <1>1, <2>2 DEF SigChld, tables, Zombies, KidTypes, TableTypes
  <2>3. ASSUME UNCHANGED kid, NEW i \in DOMAIN ipc, Drop(i) PROVE Born'
    BY <1>1, <2>3 DEF Drop, TableTypes
  <2>4. ASSUME NEW p \in Pids, Fork(p) PROVE Born'
    <3>1. kid' = [kid EXCEPT ![p] = "run"]
      BY <2>4 DEF Fork
    <3>2. \A f \in Fds : chan'[f] # None => chan'[f] = p \/ chan'[f] = chan[f]
      BY <1>1, <2>4 DEF Fork, TableTypes
    <3> QED
      BY <1>1, <3>1, <3>2 DEF KidTypes, TableTypes
  <2>5. ASSUME LoadActive PROVE Born'
    BY <1>1, <2>5 DEF LoadActive, kidVars, tables
  <2>6. ASSUME StoreActive PROVE Born'
    <3>1. kid' = kid /\ \A f \in Fds : chan'[f] # None => chan'[f] = chan[f]
      BY <1>1, <2>6 DEF StoreActive, kidVars, TableTypes
    <3> QED
      BY <1>1, <3>1
  <2>7. ASSUME UNCHANGED <<kid, chan>> PROVE Born'
    BY <1>1, <2>7
  <2>8. ASSUME AcceptFails PROVE Born'
    BY <2>8 DEF AcceptFails
  <2> QED
    BY <2>1, <2>2, <2>3, <2>4, <2>5, <2>6, <2>7, <2>8, Frames
<1> QED
  BY <1>2, <1>3 DEF ChildInv

(* What remains when the channel at index i is dropped: the others, untouched. *)
LEMMA DropOthers ==
  ASSUME TableTypes, ChannelsTracked, NEW i \in DOMAIN ipc, Drop(i)
  PROVE  /\ \A j \in DOMAIN ipc : j # i =>
              /\ chan'[ipc[j].fd] = ipc[j].pid
              /\ \E k \in DOMAIN ipc' : ipc'[k] = ipc[j]
         /\ \A k \in DOMAIN ipc' : \E j \in DOMAIN ipc : j # i /\ ipc'[k] = ipc[j]
         /\ \A k, l \in DOMAIN ipc' :
              ipc'[k].fd = ipc'[l].fd \/ ipc'[k].pid = ipc'[l].pid => k = l
         /\ \A f \in Fds : chan'[f] # None => f # ipc[i].fd /\ chan'[f] = chan[f]
<1> DEFINE n == Len(ipc)
<1>1. ipc \in Seq(Channel) /\ n \in Nat /\ i \in 1..n /\ n >= 1 /\ DOMAIN ipc = 1..n
  BY DEF TableTypes
<1>2. /\ DOMAIN ipc' = 1..n - 1
      /\ \A k \in 1..n - 1 : ipc'[k] = IF k = i THEN ipc[n] ELSE ipc[k]
  BY <1>1, SwapRemoveSeq DEF Drop
<1>3. \A j \in 1..n : ipc[j] \in Channel
  BY <1>1, ElementOfSeq
<1>4. \A f \in Fds : chan'[f] = IF f = ipc[i].fd THEN None ELSE chan[f]
  BY DEF Drop, TableTypes
<1>5. \A j \in 1..n : j # i => ipc[j].fd # ipc[i].fd
  BY <1>1 DEF ChannelsTracked
<1> HIDE DEF n
<1>6. ASSUME NEW j \in 1..n, j # i
      PROVE  chan'[ipc[j].fd] = ipc[j].pid /\ \E k \in 1..n - 1 : ipc'[k] = ipc[j]
  <2>1. chan'[ipc[j].fd] = ipc[j].pid
    BY <1>1, <1>3, <1>4, <1>5, <1>6 DEF Channel, ChannelsTracked
  <2>2. CASE j = n
    <3>1. i \in 1..n - 1 /\ ipc'[i] = ipc[j]
      BY <1>1, <1>2, <1>6, <2>2
    <3> QED
      BY <2>1, <3>1
  <2>3. CASE j # n
    <3>1. j \in 1..n - 1 /\ ipc'[j] = ipc[j]
      BY <1>1, <1>2, <1>6, <2>3
    <3> QED
      BY <2>1, <3>1
  <2> QED
    BY <2>1, <2>2, <2>3
<1>7. ASSUME NEW k \in 1..n - 1 PROVE \E j \in 1..n : j # i /\ ipc'[k] = ipc[j]
  BY <1>1, <1>2
<1>8. ASSUME NEW k \in 1..n - 1, NEW l \in 1..n - 1,
             ipc'[k].fd = ipc'[l].fd \/ ipc'[k].pid = ipc'[l].pid
      PROVE  k = l
  <2> DEFINE from(m) == IF m = i THEN n ELSE m
  <2>1. from(k) \in 1..n /\ from(l) \in 1..n
    BY <1>1
  <2>2. ipc'[k] = ipc[from(k)] /\ ipc'[l] = ipc[from(l)]
    BY <1>2
  <2>3. from(k) = from(l)
    BY <1>1, <1>8, <2>1, <2>2 DEF ChannelsTracked
  <2> QED
    BY <1>1, <2>3
<1> QED
  BY <1>1, <1>2, <1>4, <1>6, <1>7, <1>8

LEMMA NotNone == None \notin Pids /\ None \notin Fds /\ None \notin Tokens
  BY LimitsAssumption

(* A tracked channel leads to a child that has been forked. *)
LEMMA TrackedBorn ==
  ASSUME TypeOK, ChildInv, ChannelsTracked, NEW i \in DOMAIN ipc
  PROVE  /\ ipc[i] \in Channel /\ ipc[i].fd \in Fds /\ ipc[i].pid \in Pids
         /\ chan[ipc[i].fd] = ipc[i].pid /\ kid[ipc[i].pid] # "unborn"
<1>1. ipc[i] \in Channel
  BY ElementOfSeq DEF TypeOK, TableTypes
<1>2. ipc[i].fd \in Fds /\ ipc[i].pid \in Pids
  BY <1>1 DEF Channel
<1> QED
  BY <1>1, <1>2, NotNone DEF ChannelsTracked, ChildInv

LEMMA ForkStep ==
  TypeOK /\ IndexInv /\ ChildInv /\ ForkInv /\ ChannelsTracked /\ [Next]_vars => ForkInv'
<1> SUFFICES ASSUME TypeOK, IndexInv, ChildInv, ForkInv, ChannelsTracked, [Next]_vars
             PROVE  ForkInv'
  OBVIOUS
<1>1. KidTypes /\ TableTypes /\ LoopTypes
  BY DEF TypeOK
<1>2. ASSUME NEW p \in Pids, Exit(p) PROVE ForkInv'
  BY <1>1, <1>2 DEF Exit, tables, loopVars, ForkInv, KidTypes
<1>3. ASSUME SigChld PROVE ForkInv'
  BY <1>1, <1>3 DEF SigChld, tables, ForkInv, KidTypes, Zombies
<1>4. ASSUME ~Forking' PROVE ForkInv'
  BY <1>4 DEF ForkInv, Forking
<1>5. ASSUME NEW p \in Pids, Fork(p) PROVE ForkInv'
  <2>1. /\ kid[p] = "unborn" /\ kid'[p] = "run" /\ ipc' = ipc
        /\ new'.pid = p
        /\ new'.fd # None => chan'[new'.fd] = p
    BY <1>1, <1>5 DEF Fork, KidTypes, TableTypes
  <2>2. \A i \in DOMAIN ipc : ipc[i].pid # p
    BY <2>1, TrackedBorn
  <2> QED
    BY <2>1, <2>2 DEF ForkInv
<1>6. ASSUME LoadActive PROVE ForkInv'
  BY <1>1, <1>6 DEF LoadActive, kidVars, tables, ForkInv, LoopTypes
<1>7. ASSUME StoreActive PROVE ForkInv'
  BY <1>4, <1>7 DEF StoreActive, Forking
<1>8. ASSUME UNCHANGED <<kid, chan, ipc, new, pc>> PROVE ForkInv'
  BY <1>8 DEF ForkInv
<1>9. ASSUME ~Forking, UNCHANGED pc PROVE ForkInv'
  BY <1>4, <1>9 DEF Forking
<1>10. ASSUME AcceptFails PROVE ForkInv'
  BY <1>4, <1>10 DEF AcceptFails, Forking
<1> QED
  BY <1>2, <1>3, <1>4, <1>5, <1>6, <1>7, <1>8, <1>9, <1>10, Frames

LEMMA ChannelsStep ==
  TypeOK /\ IndexInv /\ ChildInv /\ ForkInv /\ ChannelsTracked /\ [Next]_vars => ChannelsTracked'
<1> SUFFICES ASSUME TypeOK, IndexInv, ChildInv, ForkInv, ChannelsTracked, [Next]_vars
             PROVE  ChannelsTracked'
  OBVIOUS
<1>1. TableTypes /\ LoopTypes
  BY DEF TypeOK
<1>2. ASSUME UNCHANGED <<chan, ipc, new>>, Forking' = Forking PROVE ChannelsTracked'
  BY <1>2 DEF ChannelsTracked, Forking
<1>3. ASSUME NEW p \in Pids, Exit(p) PROVE ChannelsTracked'
  BY <1>2, <1>3 DEF Exit, tables, loopVars, Forking
<1>4. ASSUME SigChld PROVE ChannelsTracked'
  BY <1>2, <1>4 DEF SigChld, tables, Forking
<1>5. ASSUME ~Forking, NEW i \in DOMAIN ipc, Drop(i) PROVE ChannelsTracked'
  <2>1. ASSUME NEW k \in DOMAIN ipc' PROVE chan'[ipc'[k].fd] = ipc'[k].pid
    BY <1>1, <1>5, DropOthers
  <2>2. ASSUME NEW f \in Fds, chan'[f] # None
        PROVE  \E k \in DOMAIN ipc' : ipc'[k] = [fd |-> f, pid |-> chan'[f]]
    <3>1. f # ipc[i].fd /\ chan'[f] = chan[f]
      BY <1>1, <1>5, <2>2, DropOthers
    <3>2. PICK j \in DOMAIN ipc : ipc[j] = [fd |-> f, pid |-> chan[f]]
      BY <1>5, <2>2, <3>1 DEF ChannelsTracked, Forking
    <3>3. j # i
      BY <3>1, <3>2
    <3> QED
      BY <1>1, <1>5, <3>1, <3>2, <3>3, DropOthers
  <2>3. \A k, l \in DOMAIN ipc' :
          ipc'[k].fd = ipc'[l].fd \/ ipc'[k].pid = ipc'[l].pid => k = l
    BY <1>1, <1>5, DropOthers
  <2> QED
    BY <2>1, <2>2, <2>3 DEF ChannelsTracked
<1>6. ASSUME NEW p \in Pids, Fork(p) PROVE ChannelsTracked'
  <2>1. /\ ipc' = ipc /\ pc = "ssh" /\ pc' = "forked" /\ new'.pid = p
        /\ \A f \in Fds : chan'[f] # chan[f] => chan[f] = None /\ chan'[f] = p /\ new'.fd = f
    BY <1>1, <1>6 DEF Fork, TableTypes
  <2>2. \A i \in DOMAIN ipc : chan'[ipc[i].fd] = ipc[i].pid
    BY <2>1, TrackedBorn, NotNone
  <2>3. ASSUME NEW f \in Fds, chan'[f] # None
        PROVE  \/ \E i \in DOMAIN ipc : ipc[i] = [fd |-> f, pid |-> chan'[f]]
               \/ new'.fd = f /\ new'.pid = chan'[f]
    BY <2>1, <2>3 DEF ChannelsTracked
  <2> QED
    BY <2>1, <2>2, <2>3 DEF ChannelsTracked
<1>7. ASSUME LoadActive PROVE ChannelsTracked'
  <2>1. /\ UNCHANGED <<chan, ipc>> /\ pc = "forked" /\ pc' = "count"
        /\ new'.fd = new.fd /\ new'.pid = new.pid
    BY <1>1, <1>7 DEF LoadActive, tables, LoopTypes
  <2> QED
    BY <2>1 DEF ChannelsTracked
<1>8. ASSUME StoreActive PROVE ChannelsTracked'
  <2>1. /\ pc = "count" /\ new.pid \in Pids /\ new.fd \in Fds \cup {None}
        /\ new.fd # None => chan[new.fd] = new.pid
        /\ \A i \in DOMAIN ipc : ipc[i].pid # new.pid /\ ipc[i].fd # new.fd
    <3>1. /\ pc = "count" /\ new.pid \in Pids /\ new.fd \in Fds \cup {None}
          /\ new.fd # None => chan[new.fd] = new.pid
          /\ \A i \in DOMAIN ipc : ipc[i].pid # new.pid
      BY <1>1, <1>8 DEF StoreActive, ForkInv, LoopTypes
    <3>2. ASSUME NEW i \in DOMAIN ipc PROVE ipc[i].fd # new.fd
      BY <3>1, TrackedBorn, NotNone
    <3> QED
      BY <3>1, <3>2
  <2>2. CASE new.fd = None
    <3>1. UNCHANGED <<chan, ipc>>
      BY <1>8, <2>2 DEF StoreActive
    <3> QED
      BY <2>2, <3>1, NotNone DEF ChannelsTracked
  <2>3. CASE /\ new.fd # None /\ UNCHANGED chan
             /\ ipc' = Append(ipc, [fd |-> new.fd, pid |-> new.pid])
    <3> DEFINE n == Len(ipc)
               e == [fd |-> new.fd, pid |-> new.pid]
    <3>1. n \in Nat /\ DOMAIN ipc = 1..n /\ e \in Channel
      BY <1>1, <2>1, <2>3 DEF TableTypes, Channel
    <3>2. /\ DOMAIN ipc' = 1..n + 1 /\ ipc'[n + 1] = e
          /\ \A k \in 1..n : ipc'[k] = ipc[k]
      BY <1>1, <2>3, <3>1, AppendSeq DEF TableTypes
    <3> HIDE DEF n
    <3>3. \A k \in 1..n + 1 : k # n + 1 => k \in 1..n
      BY <3>1
    <3>4. ASSUME NEW k \in 1..n + 1, NEW l \in 1..n + 1,
                 ipc'[k].fd = ipc'[l].fd \/ ipc'[k].pid = ipc'[l].pid
          PROVE  k = l
      <4>1. CASE k = n + 1 \/ l = n + 1
        BY <2>1, <3>1, <3>2, <3>3, <3>4, <4>1
      <4>2. CASE k # n + 1 /\ l # n + 1
        BY <3>1, <3>2, <3>3, <3>4, <4>2 DEF ChannelsTracked
      <4> QED
        BY <4>1, <4>2
    <3>5. \A k \in 1..n + 1 : chan'[ipc'[k].fd] = ipc'[k].pid
      BY <2>1, <2>3, <3>1, <3>2, <3>3 DEF ChannelsTracked
    <3>6. ASSUME NEW f \in Fds, chan'[f] # None
          PROVE  \E k \in 1..n + 1 : ipc'[k] = [fd |-> f, pid |-> chan'[f]]
      <4>1. CASE new.fd = f
        BY <2>1, <2>3, <3>1, <3>2, <4>1
      <4>2. CASE new.fd # f
        <5>1. PICK k \in 1..n : ipc[k] = [fd |-> f, pid |-> chan[f]]
          BY <2>3, <3>1, <3>6, <4>2 DEF ChannelsTracked
        <5>2. k \in 1..n + 1
          BY <3>1
        <5> QED
          BY <2>3, <3>2, <5>1, <5>2
      <4> QED
        BY <4>1, <4>2
    <3> QED
      BY <3>2, <3>4, <3>5, <3>6 DEF ChannelsTracked
  <2>4. CASE /\ new.fd # None /\ chan' = [chan EXCEPT ![new.fd] = None]
             /\ UNCHANGED ipc
    <3>1. \A f \in Fds : chan'[f] = IF f = new.fd THEN None ELSE chan[f]
      BY <1>1, <2>4 DEF TableTypes
    <3>2. \A i \in DOMAIN ipc : chan'[ipc[i].fd] = ipc[i].pid
      BY <2>1, <3>1, TrackedBorn
    <3>3. \A f \in Fds : chan'[f] # None =>
            \E i \in DOMAIN ipc : ipc[i] = [fd |-> f, pid |-> chan'[f]]
      BY <3>1 DEF ChannelsTracked
    <3> QED
      BY <2>4, <3>2, <3>3 DEF ChannelsTracked
  <2> QED
    BY <1>8, <2>2, <2>3, <2>4 DEF StoreActive
<1>9. ASSUME AcceptFails PROVE ChannelsTracked'
  BY <1>9 DEF AcceptFails, ChannelsTracked
<1> QED
  BY <1>2, <1>3, <1>4, <1>5, <1>6, <1>7, <1>8, <1>9, Frames DEF Forking

-----------------------------------------------------------------------------
(* The registry and the viewers' connections. *)

(* Dropping a channel with its entries leaves the other entries sound. *)
LEMMA DropEntries ==
  ASSUME TableTypes, ChannelsTracked, RegistrySound, NEW i \in DOMAIN ipc, Drop(i),
         UNCHANGED claimed,
         \A t \in Tokens : reg'[t] # None => reg'[t] = reg[t] /\ reg[t] # ipc[i]
  PROVE  RegistrySound'
<1> SUFFICES ASSUME NEW t \in Tokens, reg'[t] # None
             PROVE  /\ chan'[reg'[t].fd] = reg'[t].pid
                    /\ \E k \in DOMAIN ipc' : ipc'[k] = reg'[t]
                    /\ t \in claimed[reg'[t].pid]
  BY DEF RegistrySound, Registered
<1>1. reg'[t] = reg[t] /\ t \in Registered
  BY DEF Registered
<1>2. t \in claimed[reg[t].pid]
  BY <1>1 DEF RegistrySound
<1>3. PICK j \in DOMAIN ipc : ipc[j] = reg[t]
  BY <1>1 DEF RegistrySound
<1>4. j # i
  BY <1>1, <1>3
<1> QED
  BY <1>1, <1>2, <1>3, <1>4, DropOthers

LEMMA RegistryStep ==
  TypeOK /\ IndexInv /\ ChildInv /\ ForkInv /\ ChannelsTracked /\ RegistrySound /\ [Next]_vars
    => RegistrySound'
<1> SUFFICES ASSUME TypeOK, IndexInv, ChildInv, ForkInv, ChannelsTracked, RegistrySound,
                    [Next]_vars
             PROVE  RegistrySound'
  OBVIOUS
<1>1. KidTypes /\ TableTypes /\ LoopTypes
  BY DEF TypeOK
<1>2. ASSUME UNCHANGED <<reg, chan, ipc, claimed>> PROVE RegistrySound'
  BY <1>2 DEF RegistrySound, Registered
<1>3. ASSUME NEW p \in Pids, Child(p) PROVE RegistrySound'
  <2>1. ASSUME NEW t \in Tokens, Claim(p, t) PROVE RegistrySound'
    <3>1. UNCHANGED <<reg, chan, ipc>> /\ \A q \in Pids : claimed[q] \subseteq claimed'[q]
      BY <1>1, <2>1 DEF Claim, tables, KidTypes
    <3>2. \A u \in Registered : reg[u].pid \in Pids
      BY <1>1 DEF TableTypes, Channel, Registered
    <3> QED
      BY <3>1, <3>2 DEF RegistrySound, Registered
  <2>2. ASSUME SendReg(p) \/ Receive(p) \/ Exit(p) PROVE RegistrySound'
    BY <1>2, <2>2 DEF SendReg, Receive, Exit, tables
  <2> QED
    BY <1>3, <2>1, <2>2 DEF Child
<1>4. ASSUME DrainDead PROVE RegistrySound'
  <2>1. claimed' = claimed /\ reg' = RemoveByPid(deadPids[at])
    BY <1>4 DEF DrainDead, kidVars
  <2>2. \A t \in Tokens : reg'[t] # None => reg'[t] = reg[t] /\ reg[t].pid # deadPids[at]
    BY <1>1, <2>1 DEF RemoveByPid, TableTypes
  <2>3. ASSUME NEW i \in DOMAIN ipc, ipc[i].pid = deadPids[at], Drop(i) PROVE RegistrySound'
    <3>1. \A t \in Tokens : reg'[t] # None => reg'[t] = reg[t] /\ reg[t] # ipc[i]
      BY <2>2, <2>3
    <3> QED
      BY <1>1, <2>1, <2>3, <3>1, DropEntries
  <2>4. ASSUME UNCHANGED <<chan, ipc>> PROVE RegistrySound'
    BY <2>1, <2>2, <2>4 DEF RegistrySound, Registered
  <2> QED
    BY <1>4, <2>3, <2>4 DEF DrainDead
<1>5. ASSUME ServeChannel PROVE RegistrySound'
  <2>1. at \in DOMAIN ipc /\ claimed' = claimed
    BY <1>1, <1>5 DEF ServeChannel, IndexInv, TableTypes, LoopTypes
  <2>2. /\ ipc[at].pid \in Pids /\ chan[ipc[at].fd] = ipc[at].pid
    BY <2>1, TrackedBorn
  <2>3. ASSUME ReadRegs(at) PROVE RegistrySound'
    <3>1. UNCHANGED <<chan, ipc>> /\ reg' \in Registries(outbox[ipc[at].pid], ipc[at])
      BY <2>2, <2>3 DEF ReadRegs
    <3>2. \A t \in Tokens : \/ reg'[t] = reg[t]
                            \/ reg'[t] = ipc[at] /\ t \in outbox[ipc[at].pid]
      BY <3>1 DEF Registries
    <3>3. outbox[ipc[at].pid] \subseteq claimed[ipc[at].pid]
      BY <2>2 DEF ChildInv
    <3> QED
      BY <2>1, <2>2, <3>1, <3>2, <3>3 DEF RegistrySound, Registered
  <2>4. ASSUME HangUp(at) PROVE RegistrySound'
    <3>1. \A t \in Tokens : reg'[t] # None => reg'[t] = reg[t] /\ reg[t] # ipc[at]
      BY <2>4 DEF HangUp, RemoveByFd
    <3>2. Drop(at)
      BY <2>4 DEF HangUp
    <3> QED
      BY <1>1, <2>1, <3>1, <3>2, DropEntries
  <2>5. ASSUME NothingThere(at) PROVE RegistrySound'
    BY <1>2, <2>1, <2>5 DEF NothingThere
  <2> QED
    BY <1>5, <2>3, <2>4, <2>5 DEF ServeChannel
<1>6. ASSUME NEW p \in Pids, Fork(p) PROVE RegistrySound'
  <2>1. /\ UNCHANGED <<reg, ipc, claimed>>
        /\ \A f \in Fds : chan[f] # None => chan'[f] = chan[f]
    BY <1>1, <1>6 DEF Fork, TableTypes
  <2>2. \A t \in Registered : chan[reg[t].fd] # None /\ reg[t].fd \in Fds
    BY <1>1, NotNone DEF RegistrySound, TableTypes, Channel, Registered
  <2> QED
    BY <2>1, <2>2 DEF RegistrySound, Registered
<1>7. ASSUME StoreActive PROVE RegistrySound'
  <2>1. UNCHANGED <<reg, claimed>> /\ new.pid \in Pids /\ new.fd \in Fds \cup {None}
    BY <1>1, <1>7 DEF StoreActive, kidVars, ForkInv, LoopTypes
  <2>2. \A i \in DOMAIN ipc : ipc[i].fd # new.fd
    <3>1. ASSUME NEW i \in DOMAIN ipc, ipc[i].fd = new.fd PROVE FALSE
      <4>1. chan[new.fd] = ipc[i].pid /\ new.fd # None
        BY <3>1, TrackedBorn, NotNone
      <4> QED
        BY <1>7, <3>1, <4>1 DEF StoreActive, ForkInv
    <3> QED
      BY <3>1
  <2>3. CASE UNCHANGED <<chan, ipc>>
    BY <1>2, <2>1, <2>3
  <2>4. CASE UNCHANGED chan /\ ipc' = Append(ipc, [fd |-> new.fd, pid |-> new.pid])
             /\ new.fd # None
    <3>1. \A i \in DOMAIN ipc : i \in DOMAIN ipc' /\ ipc'[i] = ipc[i]
      <4>1. [fd |-> new.fd, pid |-> new.pid] \in Channel
        BY <2>1, <2>4 DEF Channel
      <4>2. Len(ipc) \in Nat /\ DOMAIN ipc = 1..Len(ipc)
        BY <1>1 DEF TableTypes
      <4>3. /\ DOMAIN ipc' = 1..Len(ipc) + 1
            /\ \A i \in 1..Len(ipc) : ipc'[i] = ipc[i]
        BY <1>1, <2>4, <4>1, AppendSeq DEF TableTypes
      <4> QED
        BY <4>2, <4>3
    <3> QED
      BY <2>1, <2>4, <3>1 DEF RegistrySound, Registered
  <2>5. CASE UNCHANGED ipc /\ chan' = [chan EXCEPT ![new.fd] = None]
    <3>1. \A i \in DOMAIN ipc : chan'[ipc[i].fd] = chan[ipc[i].fd]
      BY <1>1, <2>2, <2>5, TrackedBorn DEF TableTypes
    <3> QED
      BY <2>1, <2>5, <3>1 DEF RegistrySound, Registered
  <2> QED
    BY <1>7, <2>3, <2>4, <2>5 DEF StoreActive
<1>8. ASSUME Tick \/ \E c \in Conns : Viewer(c) PROVE RegistrySound'
  BY <1>2, <1>8 DEF Tick, Viewer, Connect, Request, kidVars, tables
<1>9. ASSUME SigChld \/ Top \/ TakeDead \/ Drained \/ Poll PROVE RegistrySound'
  BY <1>2, <1>9 DEF SigChld, Top, TakeDead, Drained, Poll, kidVars, tables
<1>10. ASSUME ServeParked \/ ParkedDone \/ ChannelsDone \/ NoViewer PROVE RegistrySound'
  BY <1>2, <1>10 DEF ServeParked, ParkedDone, ChannelsDone, NoViewer, kidVars, tables
<1>11. ASSUME TurnAway \/ LoadActive \/ \E c \in Conns : AcceptViewer(c) PROVE RegistrySound'
  BY <1>2, <1>11 DEF TurnAway, LoadActive, AcceptViewer, kidVars, tables
<1>12. ASSUME AcceptFails PROVE RegistrySound'
  BY <1>12 DEF AcceptFails, RegistrySound, Registered
<1>13. ASSUME UNCHANGED vars PROVE RegistrySound'
  BY <1>2, <1>13 DEF vars, kidVars, tables
<1> QED
  BY <1>3, <1>4, <1>5, <1>6, <1>7, <1>8, <1>9, <1>10, <1>11, <1>12, <1>13 DEF Next, Main

(* Where a viewer that is not at its end is passed to. *)
LEMMA Processing ==
  ASSUME TypeOK, RegistrySound, NEW c \in Conns, Process(c)
  PROVE  /\ conn' \in {[conn EXCEPT ![c] = s] : s \in {"passed", "closed"}}
         /\ \/ inbox' = inbox
            \/ \E p \in Pids : /\ inbox' = [inbox EXCEPT ![p] = Append(@, c)]
                               /\ sent[c] \in claimed[p]
                               /\ conn' = [conn EXCEPT ![c] = "passed"]
<1>1. CASE Close(c)
  BY <1>1 DEF Close
<1>2. CASE Pass(c)
  <2>1. sent[c] \in Registered /\ reg[sent[c]] \in Channel /\ Target(c) = reg[sent[c]].pid
    BY <1>2 DEF Pass, Reached, Known, Target, RegistrySound, Registered, TypeOK, TableTypes
  <2>2. Target(c) \in Pids /\ sent[c] \in claimed[Target(c)]
    BY <2>1 DEF RegistrySound, Channel
  <2> QED
    BY <1>2, <2>2 DEF Pass
<1> QED
  BY <1>1, <1>2 DEF Process

LEMMA PassStep ==
  TypeOK /\ IndexInv /\ RegistrySound /\ PassedInv /\ NoStrangers /\ [Next]_vars
    => PassedInv' /\ NoStrangers'
<1> DEFINE Inv == PassedInv /\ NoStrangers
<1> SUFFICES ASSUME TypeOK, IndexInv, RegistrySound, PassedInv, NoStrangers, [Next]_vars
             PROVE  Inv'
  OBVIOUS
<1>1. KidTypes /\ ConnTypes /\ TableTypes /\ LoopTypes
  BY DEF TypeOK
<1>2. ASSUME UNCHANGED <<inbox, sent, claimed>>,
             \A c \in Conns : conn[c] \in {"passed", "closed"} => conn'[c] \in {"passed", "closed"}
      PROVE  Inv'
  <2>1. \A p \in Pids : \A i \in DOMAIN inbox[p] : inbox[p][i] \in Conns
    BY <1>1, ElementOfSeq DEF KidTypes
  <2>2. PassedInv'
    BY <1>2, <2>1 DEF PassedInv
  <2>3. NoStrangers'
    BY <1>2 DEF NoStrangers
  <2> QED
    BY <2>2, <2>3
<1>3. ASSUME NEW c \in Conns, Process(c), UNCHANGED <<sent, claimed>> PROVE Inv'
  <2>1. conn' \in {[conn EXCEPT ![c] = s] : s \in {"passed", "closed"}}
    BY <1>3, Processing
  <2>2. \A d \in Conns : conn[d] \in {"passed", "closed"} => conn'[d] \in {"passed", "closed"}
    BY <1>1, <2>1 DEF ConnTypes
  <2>3. CASE inbox' = inbox
    BY <1>2, <1>3, <2>2, <2>3
  <2>4. ASSUME NEW p \in Pids, inbox' = [inbox EXCEPT ![p] = Append(@, c)],
               sent[c] \in claimed[p], conn' = [conn EXCEPT ![c] = "passed"]
        PROVE  Inv'
    <3>1. ASSUME NEW q \in Pids, NEW i \in DOMAIN inbox'[q]
          PROVE  \/ i \in DOMAIN inbox[q] /\ inbox'[q][i] = inbox[q][i] /\ inbox[q][i] \in Conns
                 \/ q = p /\ inbox'[q][i] = c
      <4>1. CASE q # p
        <5>1. inbox'[q] = inbox[q] /\ i \in DOMAIN inbox[q]
          BY <1>1, <2>4, <3>1, <4>1 DEF KidTypes
        <5> QED
          BY <1>1, <5>1, ElementOfSeq DEF KidTypes
      <4>2. CASE q = p
        <5>1. inbox[p] \in Seq(Conns) /\ inbox'[p] = Append(inbox[p], c)
          BY <1>1, <2>4 DEF KidTypes
        <5>2. /\ Len(inbox[p]) \in Nat /\ DOMAIN inbox[p] = 1..Len(inbox[p])
              /\ DOMAIN inbox'[p] = 1..Len(inbox[p]) + 1
              /\ \A k \in 1..Len(inbox[p]) : inbox'[p][k] = inbox[p][k]
              /\ inbox'[p][Len(inbox[p]) + 1] = c
          BY <5>1, AppendSeq, LenProperties
        <5>3. i = Len(inbox[p]) + 1 \/ i \in 1..Len(inbox[p])
          BY <3>1, <4>2, <5>2
        <5> QED
          BY <4>2, <5>1, <5>2, <5>3, ElementOfSeq
      <4> QED
        BY <4>1, <4>2
    <3>2. PassedInv'
      BY <1>1, <2>2, <2>4, <3>1 DEF PassedInv, ConnTypes
    <3>3. NoStrangers'
      BY <1>3, <2>4, <3>1 DEF NoStrangers
    <3> QED
      BY <3>2, <3>3
  <2> QED
    BY <1>3, <2>3, <2>4, Processing
<1>4. ASSUME NEW p \in Pids, Child(p) PROVE Inv'
  <2>1. ASSUME NEW t \in Tokens, Claim(p, t) PROVE Inv'
    <3>1. UNCHANGED <<inbox, conn, sent>> /\ \A q \in Pids : claimed[q] \subseteq claimed'[q]
      BY <1>1, <2>1 DEF Claim, connVars, KidTypes
    <3> QED
      BY <3>1 DEF PassedInv, NoStrangers
  <2>2. CASE SendReg(p)
    BY <1>2, <2>2 DEF SendReg, connVars
  <2>3. CASE Receive(p)
    <3>1. UNCHANGED <<conn, sent, claimed>>
      BY <2>3 DEF Receive, connVars
    <3>2. inbox[p] \in Seq(Conns) /\ inbox[p] # <<>>
      BY <1>1, <2>3 DEF Receive, KidTypes
    <3>3. /\ Len(inbox[p]) \in Nat /\ DOMAIN Tail(inbox[p]) = 1..Len(inbox[p]) - 1
          /\ \A i \in 1..Len(inbox[p]) - 1 : Tail(inbox[p])[i] = inbox[p][i + 1]
      BY <3>2, HeadTailProperties
    <3>4. ASSUME NEW q \in Pids, NEW i \in DOMAIN inbox'[q]
          PROVE  \E j \in DOMAIN inbox[q] : inbox'[q][i] = inbox[q][j]
      <4>1. CASE q # p
        BY <1>1, <2>3, <3>4, <4>1 DEF Receive, KidTypes
      <4>2. CASE q = p
        <5>1. inbox'[p] = Tail(inbox[p])
          BY <1>1, <2>3 DEF Receive, KidTypes
        <5>2. i + 1 \in DOMAIN inbox[p] /\ inbox'[p][i] = inbox[p][i + 1]
          BY <3>2, <3>3, <3>4, <4>2, <5>1
        <5> QED
          BY <4>2, <5>2
      <4> QED
        BY <4>1, <4>2
    <3> QED
      BY <3>1, <3>4 DEF PassedInv, NoStrangers
  <2>4. CASE Exit(p)
    <3>1. UNCHANGED <<sent, claimed>>
      BY <2>4 DEF Exit
    <3>2. \A q \in Pids : inbox'[q] = IF q = p THEN <<>> ELSE inbox[q]
      BY <1>1, <2>4 DEF Exit, KidTypes
    <3>3. \A c \in Conns : conn[c] \in {"passed", "closed"} => conn'[c] \in {"passed", "closed"}
      BY <1>1, <2>4 DEF Exit, ConnTypes
    <3>4. \A q \in Pids : \A i \in DOMAIN inbox'[q] :
            i \in DOMAIN inbox[q] /\ inbox'[q][i] = inbox[q][i] /\ inbox[q][i] \in Conns
      <4> SUFFICES ASSUME NEW q \in Pids, NEW i \in DOMAIN inbox'[q]
                   PROVE  i \in DOMAIN inbox[q] /\ inbox'[q][i] = inbox[q][i]
                          /\ inbox[q][i] \in Conns
        OBVIOUS
      <4>1. inbox'[q] = inbox[q]
        BY <3>2
      <4>2. inbox[q] \in Seq(Conns)
        BY <1>1 DEF KidTypes
      <4>3. inbox[q][i] \in Conns
        BY <4>1, <4>2, ElementOfSeq
      <4> QED
        BY <4>1, <4>3
    <3>5. PassedInv'
      BY <3>3, <3>4 DEF PassedInv
    <3>6. NoStrangers'
      BY <3>1, <3>4 DEF NoStrangers
    <3> QED
      BY <3>5, <3>6
  <2> QED
    BY <1>4, <2>1, <2>2, <2>3, <2>4 DEF Child
<1>5. ASSUME NEW c \in Conns, Connect(c) PROVE Inv'
  <2>1. \A d \in Conns : conn[d] \in {"passed", "closed"} => conn'[d] = conn[d]
    BY <1>1, <1>5 DEF Connect, ConnTypes
  <2> QED
    BY <1>2, <1>5, <2>1 DEF Connect, kidVars
<1>6. ASSUME NEW c \in Conns, Request(c) PROVE Inv'
  <2>1. \A d \in Conns : conn[d] \in {"passed", "closed"} => sent'[d] = sent[d]
    BY <1>1, <1>6 DEF Request, ConnTypes
  <2>2. \A p \in Pids : \A i \in DOMAIN inbox[p] : inbox[p][i] \in Conns
    BY <1>1, ElementOfSeq DEF KidTypes
  <2>3. UNCHANGED <<inbox, claimed, conn>>
    BY <1>6 DEF Request, kidVars
  <2> QED
    BY <2>1, <2>2, <2>3 DEF PassedInv, NoStrangers
<1>7. ASSUME ServeParked PROVE Inv'
  <2>1. at \in 1..Len(parked) /\ UNCHANGED <<sent, claimed>>
    BY <1>1, <1>7 DEF ServeParked, IndexInv, TableTypes, LoopTypes
  <2>2. parked[at] \in Conns
    BY <1>1, <2>1, ElementOfSeq DEF TableTypes
  <2>3. CASE Process(parked[at])
    BY <1>3, <2>1, <2>2, <2>3
  <2>4. CASE conn' = [conn EXCEPT ![parked[at]] = "closed"] /\ UNCHANGED inbox
    BY <1>1, <1>2, <2>1, <2>4 DEF ConnTypes
  <2>5. CASE UNCHANGED <<conn, inbox>>
    BY <1>2, <2>1, <2>5
  <2> QED
    BY <1>7, <2>3, <2>4, <2>5 DEF ServeParked
<1>8. ASSUME NEW c \in Conns, AcceptViewer(c) PROVE Inv'
  <2>1. UNCHANGED <<sent, claimed>> /\ conn[c] = "backlog"
    BY <1>8 DEF AcceptViewer
  <2>2. CASE Process(c)
    BY <1>3, <2>1, <2>2
  <2>3. ASSUME NEW s \in {"parked", "closed"}, conn' = [conn EXCEPT ![c] = s], UNCHANGED inbox
        PROVE  Inv'
    BY <1>1, <1>2, <2>1, <2>3 DEF ConnTypes
  <2> QED
    BY <1>8, <2>2, <2>3 DEF AcceptViewer
<1>9. ASSUME Tick \/ SigChld \/ Top \/ TakeDead \/ DrainDead \/ Drained \/ Poll PROVE Inv'
  BY <1>2, <1>9 DEF Tick, SigChld, Top, TakeDead, DrainDead, Drained, Poll, kidVars, connVars
<1>10. ASSUME ParkedDone \/ ServeChannel \/ ChannelsDone \/ NoViewer \/ TurnAway PROVE Inv'
  BY <1>2, <1>10 DEF ParkedDone, ServeChannel, ChannelsDone, NoViewer, TurnAway, kidVars, connVars
<1>11. ASSUME (\E p \in Pids : Fork(p)) \/ LoadActive \/ StoreActive PROVE Inv'
  BY <1>2, <1>11 DEF Fork, LoadActive, StoreActive, kidVars, connVars
<1>12. ASSUME AcceptFails PROVE Inv'
  <2>1. \A c \in Conns : conn[c] \in {"passed", "closed"} => conn'[c] \in {"passed", "closed"}
    BY <1>1, <1>12 DEF AcceptFails, ConnTypes
  <2> QED
    BY <1>2, <1>12, <2>1 DEF AcceptFails
<1>13. ASSUME UNCHANGED vars PROVE Inv'
  BY <1>2, <1>13 DEF vars, kidVars, connVars
<1> QED
  BY <1>4, <1>5, <1>6, <1>7, <1>8, <1>9, <1>10, <1>11, <1>12, <1>13 DEF Next, Main, Viewer

-----------------------------------------------------------------------------
(* The invariant. *)

LEMMA InitInvariant == Init => IInv
<1> SUFFICES ASSUME Init PROVE IInv
  OBVIOUS
<1>1. Cardinality(Unreaped) = 0
  <2>1. Unreaped = {}
    BY DEF Init, Unreaped
  <2> QED
    BY <2>1, FS_EmptySet
<1>2. Admission /\ Counted /\ IndexInv /\ ForkInv
  BY <1>1, Limits DEF Init, Admission, Counted, IndexInv, ForkInv
<1>3. ChildInv /\ PassedInv /\ NoStrangers
  BY DEF Init, ChildInv, PassedInv, NoStrangers
<1>4. ChannelsTracked /\ RegistrySound
  BY DEF Init, ChannelsTracked, RegistrySound, Registered
<1> QED
  BY <1>2, <1>3, <1>4, TypeInit DEF IInv

(* Whatever the limits, the children, the viewers and the signals do, the    *)
(* invariant of the main process holds in every state.                       *)
THEOREM Invariance == Spec => []IInv
<1>1. IInv /\ [Next]_vars => IInv'
  BY TypeStep, IndexStep, AdmissionStep, ChildStep, ForkStep, ChannelsStep, RegistryStep, PassStep
     DEF IInv
<1> QED
  BY InitInvariant, <1>1, PTL DEF Spec

(* The arrays of the main process stay within their bounds. *)
THEOREM TypeCorrect == Spec => []TypeOK
<1>1. IInv => TypeOK
  BY DEF IInv
<1> QED
  BY <1>1, Invariance, PTL

(* The server never runs more than max_sessions children, wherever the      *)
(* signal handler interrupts the counting of one.                           *)
THEOREM Admitted == Spec => []Admission
<1>1. IInv => Admission
  BY DEF IInv
<1> QED
  BY <1>1, Invariance, PTL

(* The registry leads to open channels of the children it names, and every   *)
(* channel is tracked once, however often descriptors are closed and used    *)
(* again.                                                                    *)
THEOREM TablesAreSound == Spec => []TablesSound
<1>1. IInv => TablesSound
  BY DEF IInv, TablesSound
<1> QED
  BY <1>1, Invariance, PTL

(* No viewer is passed to a child that never owned the token it asked for. *)
THEOREM NoStrangersPassed == Spec => []NoStrangers
<1>1. IInv => NoStrangers
  BY DEF IInv
<1> QED
  BY <1>1, Invariance, PTL
=============================================================================
