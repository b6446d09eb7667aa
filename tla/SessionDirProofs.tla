-------------------------- MODULE SessionDirProofs --------------------------
(***************************************************************************)
(* Proofs about SessionDir, for any sets of daemons, hosts and names.      *)
(***************************************************************************)
EXTENDS SessionDirProps, TLAPS

-----------------------------------------------------------------------------
(* The directory's entries, used below without expanding them. *)

LEMMA AliasTypes ==
  /\ \A d \in Daemons : RandomRo(d) \in Alias /\ Sock(d) \in Entry /\ Jail(d) \in Entry
  /\ \A h \in Hosts : StableRw(h) \in Alias /\ StableRo(h) \in Alias
  /\ \A n \in Names : Named(n) \in Alias /\ NamedRo(n) \in Alias
  /\ \A p \in Hosts \cup Pins, n \in Names : NamedRw(p, n) \in Alias
  /\ Alias \subseteq Entry
  /\ \A d : Sock(d) \notin Alias /\ Jail(d) \notin Alias
  BY DEF Alias, Entry, RandomRo, StableRw, StableRo, Named, NamedRo, NamedRw, Sock, Jail

LEMMA AliasDistinct ==
  /\ \A m, n : Named(m) = Named(n) => m = n
  /\ \A g, h : StableRw(g) = StableRw(h) => g = h
  /\ \A n, x : /\ Named(n) # RandomRo(x) /\ Named(n) # StableRw(x)
               /\ Named(n) # StableRo(x) /\ Named(n) # NamedRo(x)
  /\ \A n, p, m : Named(n) # NamedRw(p, m)
  /\ \A h, x : /\ StableRw(h) # RandomRo(x) /\ StableRw(h) # StableRo(x)
               /\ StableRw(h) # NamedRo(x)
  /\ \A h, p, m : StableRw(h) # NamedRw(p, m)
  /\ \A d, e : RandomRo(d) = RandomRo(e) => d = e
  /\ \A d, x : RandomRo(d) # StableRo(x) /\ RandomRo(d) # NamedRo(x)
  /\ \A d, p, m : RandomRo(d) # NamedRw(p, m)
  BY DEF RandomRo, StableRw, StableRo, Named, NamedRo, NamedRw

-----------------------------------------------------------------------------
(* Type correctness. *)

LEMMA SessionField ==
  ASSUME NEW s \in Session
  PROVE  /\ s.ident \in Hosts \cup {None} /\ s.awaiting \in BOOLEAN
         /\ s.ready \in BOOLEAN /\ s.asked \in 0..MaxNames
         /\ s.pending \in Names \cup {None} /\ s.prev \in Daemons \cup {None}
         /\ s.ro \in Alias \cup {None} /\ s.named \in Names \cup {None}
         /\ s.rw \in Alias \cup {None} /\ s.base \in Names \cup {None}
         /\ s.at \in Nat
  BY DEF Session

LEMMA Bounds == MaxNames \in Nat /\ MaxRestarts \in Nat
  BY ConstantsAssumption

LEMMA FreshTyped == FreshSession \in Session
  BY Bounds DEF FreshSession, Session

LEMMA FlagTyped ==
  ASSUME NEW s \in Session
  PROVE  [s EXCEPT !.awaiting = TRUE] \in Session /\ [s EXCEPT !.ready = TRUE] \in Session
  BY DEF Session

LEMMA AtTyped ==
  ASSUME NEW s \in Session, NEW i \in Nat
  PROVE  [s EXCEPT !.at = i] \in Session
  BY DEF Session

LEMMA IdentityTyped ==
  ASSUME NEW s \in Session, NEW a \in Alias, NEW n \in Names \cup {None}
  PROVE  [s EXCEPT !.ro = a, !.awaiting = FALSE, !.base = n, !.pending = None, !.at = 1]
           \in Session
  BY DEF Session

LEMMA NamedTyped ==
  ASSUME NEW s \in Session, NEW a \in Alias, NEW n \in Names
  PROVE  [s EXCEPT !.named = n, !.ro = a, !.base = None, !.at = 1] \in Session
  BY DEF Session

LEMMA AskedTyped ==
  ASSUME NEW s \in Session, NEW k \in 0..MaxNames, NEW n \in Names
  PROVE  /\ [s EXCEPT !.asked = k, !.base = n, !.at = 1] \in Session
         /\ [s EXCEPT !.pending = n, !.asked = k] \in Session
  BY DEF Session

LEMMA HandoverTyped ==
  ASSUME NEW s \in Session, NEW h \in Hosts, NEW p \in Daemons \cup {None}
  PROVE  [s EXCEPT !.ident = h, !.prev = p] \in Session
  BY DEF Session

LEMMA GiveUpTyped ==
  ASSUME NEW s \in Session
  PROVE  [s EXCEPT !.base = None, !.at = 1] \in Session
  BY DEF Session

LEMMA CandidateTyped ==
  ASSUME TypeOK, LoopInv, NEW d \in Daemons, pc[d] \in Naming
  PROVE  Candidate(d) \in Names
<1>1. ses[d].base \in Names /\ ses[d].at \in 1..Len(NameAt[ses[d].base])
  BY DEF LoopInv
<1>2. NameAt[ses[d].base] \in Seq(Names)
  BY <1>1, ConstantsAssumption
<1> QED
  BY <1>1, <1>2 DEF Candidate, Candidates

LEMMA TypeInit == Init => TypeOK
  BY FreshTyped, Bounds DEF Init, TypeOK, Phase

LEMMA TypeStep == TypeOK /\ LoopInv /\ [Next]_vars => TypeOK'
<1> SUFFICES ASSUME TypeOK, LoopInv, [Next]_vars PROVE TypeOK'
  OBVIOUS
<1> USE DEF TypeOK, gcVars
<1>1. ASSUME NEW d \in Daemons, StartUp(d) PROVE TypeOK'
  <2>1. ASSUME Bind(d) \/ Listen(d) \/ EnterJail(d) PROVE TypeOK'
    BY <2>1 DEF Bind, Listen, EnterJail, Phase, Serving
  <2>2. ASSUME LinkRandomRo(d) PROVE TypeOK'
    <3>1. RandomRo(d) \in Alias
      BY AliasTypes
    <3>2. ses' \in [Daemons -> Session]
      BY <2>2, <3>1 DEF LinkRandomRo, Session
    <3> QED
      BY <2>2, <3>1, <3>2 DEF LinkRandomRo, Phase
  <2> QED
    BY <1>1, <2>1, <2>2 DEF StartUp
<1>2. ASSUME NEW d \in Daemons, RequestIdentity(d) \/ Ready(d) PROVE TypeOK'
  <2>1. ses' \in [Daemons -> Session]
    <3>1. \/ ses' = [ses EXCEPT ![d] = [ses[d] EXCEPT !.awaiting = TRUE]]
          \/ ses' = [ses EXCEPT ![d] = [ses[d] EXCEPT !.ready = TRUE]]
      BY <1>2 DEF RequestIdentity, Ready
    <3>2. ses[d] \in Session
      OBVIOUS
    <3>3. /\ [ses[d] EXCEPT !.awaiting = TRUE] \in Session
          /\ [ses[d] EXCEPT !.ready = TRUE] \in Session
      BY <3>2, FlagTyped
    <3>4. \A s \in Session : [ses EXCEPT ![d] = s] \in [Daemons -> Session]
      OBVIOUS
    <3> QED
      BY <3>1, <3>3, <3>4, Zenon
  <2> QED
    BY <1>2, <2>1 DEF RequestIdentity, Ready
<1>3. ASSUME NEW d \in Daemons, NEW n \in Names, DeferName(d, n) PROVE TypeOK'
  <2>1. ses[d].asked + 1 \in 0..MaxNames
    BY <1>3, Bounds DEF DeferName, Session
  <2>2. ses' = [ses EXCEPT ![d] = [ses[d] EXCEPT !.pending = n, !.asked = ses[d].asked + 1]]
    BY <1>3 DEF DeferName
  <2>3. [ses[d] EXCEPT !.pending = n, !.asked = ses[d].asked + 1] \in Session
    BY <2>1, AskedTyped
  <2> QED
    BY <1>3, <2>2, <2>3 DEF DeferName
<1>4. ASSUME NEW d \in Daemons, NEW n \in Names, BeginName(d, n) PROVE TypeOK'
  <2>1. ses[d].asked + 1 \in 0..MaxNames
    BY <1>4, Bounds DEF BeginName, Session
  <2>2. ses' = [ses EXCEPT ![d] = [ses[d] EXCEPT !.asked = ses[d].asked + 1, !.base = n, !.at = 1]]
    BY <1>4 DEF BeginName
  <2>3. [ses[d] EXCEPT !.asked = ses[d].asked + 1, !.base = n, !.at = 1] \in Session
    BY <2>1, AskedTyped
  <2> QED
    BY <1>4, <2>2, <2>3 DEF BeginName, Phase, Serving, Naming
<1>5. ASSUME NEW d \in Daemons, NEW h \in Hosts, BeginIdentity(d, h) PROVE TypeOK'
  <2>1. dir[StableRw(h)] \in Daemons \cup {None}
    BY AliasTypes
  <2>2. ses' = [ses EXCEPT ![d] = [ses[d] EXCEPT !.ident = h, !.prev = dir[StableRw(h)]]]
    BY <1>5 DEF BeginIdentity
  <2>3. [ses[d] EXCEPT !.ident = h, !.prev = dir[StableRw(h)]] \in Session
    BY <2>1, HandoverTyped
  <2> QED
    BY <1>5, <2>2, <2>3 DEF BeginIdentity, Phase, Serving, Handover
<1>6. ASSUME NEW d \in Daemons, IdentityStep(d) PROVE TypeOK'
  <2>1. ASSUME InstallStableRw(d) \/ InstallStableRo(d) PROVE TypeOK'
    <3>1. ses[d].ident \in Hosts
      BY <2>1 DEF InstallStableRw, InstallStableRo, LoopInv, Handover
    <3>2. StableRw(ses[d].ident) \in Alias /\ StableRo(ses[d].ident) \in Alias
      BY <3>1, AliasTypes
    <3>3. dir' \in [Alias -> Daemons \cup {None}]
      BY <2>1, <3>2 DEF InstallStableRw, InstallStableRo, Replace
    <3> QED
      BY <2>1, <3>3 DEF InstallStableRw, InstallStableRo, Replace, Phase, Serving, Handover
  <2>2. ASSUME FinishIdentity(d) PROVE TypeOK'
    <3> DEFINE new == [ses[d] EXCEPT !.ro = StableRo(ses[d].ident), !.awaiting = FALSE,
                                     !.base = ses[d].pending, !.pending = None, !.at = 1]
    <3>1. ses[d].ident \in Hosts /\ ses[d].pending \in Names \cup {None}
      BY <2>2, SessionField DEF FinishIdentity, LoopInv, Handover
    <3>2. pc' \in [Daemons -> Phase] /\ lock' \in Daemons \cup {None, Gc}
      BY <2>2 DEF FinishIdentity, Phase, Serving, Naming
    <3>3. ses' = [ses EXCEPT ![d] = new]
      BY <2>2 DEF FinishIdentity
    <3>4. StableRo(ses[d].ident) \in Alias
      BY <3>1, AliasTypes
    <3>5. new \in Session
      BY <3>1, <3>4, IdentityTyped
    <3>6. dir' \in [Alias -> Daemons \cup {None}]
      BY <2>2 DEF FinishIdentity, RemoveOwned
    <3> QED
      BY <2>2, <3>2, <3>3, <3>5, <3>6 DEF FinishIdentity
  <2> QED
    BY <1>6, <2>1, <2>2 DEF IdentityStep
<1>7. ASSUME NEW d \in Daemons, TakeOverName(d) \/ ReclaimName(d) \/ ClaimName(d) PROVE TypeOK'
  <2>1. Candidate(d) \in Names
    BY <1>7, CandidateTyped DEF TakeOverName, ReclaimName, ClaimName, Naming
  <2>2. dir' \in [Alias -> Daemons \cup {None}]
    BY <1>7 DEF TakeOverName, ReclaimName, ClaimName, Symlink, Replace
  <2> QED
    BY <1>7, <2>2 DEF TakeOverName, ReclaimName, ClaimName, Symlink, Replace, Phase, Serving, Naming
<1>8. ASSUME NEW d \in Daemons, GiveUpName(d) PROVE /\ ses' \in [Daemons -> Session]
                                                 /\ pc' \in [Daemons -> Phase]
                                                 /\ lock' \in Daemons \cup {None, Gc}
  <2>1. ses' = [ses EXCEPT ![d] = [ses[d] EXCEPT !.base = None, !.at = 1]]
    BY <1>8 DEF GiveUpName
  <2>2. [ses[d] EXCEPT !.base = None, !.at = 1] \in Session
    BY GiveUpTyped
  <2> QED
    BY <1>8, <2>1, <2>2 DEF GiveUpName, Phase, Serving
<1>9. ASSUME NEW d \in Daemons, NextName(d) PROVE TypeOK'
  <2>1. CASE GiveUpName(d)
    BY <1>8, <1>9, <2>1 DEF NextName
  <2>2. CASE ses' = [ses EXCEPT ![d].at = @ + 1] /\ UNCHANGED <<pc, lock>>
    <3>1. ses' \in [Daemons -> Session]
      BY <2>2 DEF Session
    <3> QED
      BY <1>9, <2>2, <3>1 DEF NextName
  <2> QED
    BY <1>9, <2>1, <2>2 DEF NextName
<1>10. ASSUME NEW d \in Daemons, NEW p \in Hosts \cup Pins, LinkNamedRw(d, p) PROVE TypeOK'
  <2>1. Candidate(d) \in Names
    BY <1>10, CandidateTyped DEF LinkNamedRw, Naming
  <2>2. NamedRw(p, Candidate(d)) \in Alias
    BY <2>1, AliasTypes
  <2>3. dir' \in [Alias -> Daemons \cup {None}]
    BY <1>10 DEF LinkNamedRw, Symlink, Replace
  <2>4. CASE GiveUpName(d)
    BY <1>8, <1>10, <2>3, <2>4 DEF LinkNamedRw, GiveUpName
  <2>5. CASE /\ pc' = [pc EXCEPT ![d] = "link_ro"]
             /\ ses' = [ses EXCEPT ![d].rw = NamedRw(p, Candidate(d))]
             /\ UNCHANGED lock
    <3>1. ses' \in [Daemons -> Session]
      BY <2>2, <2>5 DEF Session
    <3> QED
      BY <1>10, <2>3, <2>5, <3>1 DEF LinkNamedRw, Symlink, Replace, Phase, Serving, Naming
  <2> QED
    BY <1>10, <2>4, <2>5 DEF LinkNamedRw
<1>11. ASSUME NEW d \in Daemons, LinkNamedRo(d) PROVE TypeOK'
  <2>1. dir' \in [Alias -> Daemons \cup {None}]
    BY <1>11 DEF LinkNamedRo, Replace
  <2> QED
    BY <1>11, <2>1 DEF LinkNamedRo, Replace, Phase, Serving, Naming
<1>12. ASSUME NEW d \in Daemons, FinishName(d) PROVE TypeOK'
  <2> DEFINE new == [ses[d] EXCEPT !.named = Candidate(d), !.ro = NamedRo(Candidate(d)),
                                   !.base = None, !.at = 1]
  <2>1. Candidate(d) \in Names
    BY <1>12, CandidateTyped DEF FinishName, Naming
  <2>2. NamedRo(Candidate(d)) \in Alias
    BY <2>1, AliasTypes
  <2>3. ses' = [ses EXCEPT ![d] = new]
    BY <1>12 DEF FinishName
  <2>4. new \in Session
    BY <2>1, <2>2, NamedTyped
  <2>5. dir' \in [Alias -> Daemons \cup {None}]
    BY <1>12 DEF FinishName, RemoveOwned
  <2> QED
    BY <1>12, <2>3, <2>4, <2>5 DEF FinishName, Phase, Serving
<1>13. ASSUME NEW d \in Daemons, Exit(d) \/ ExitStep(d) PROVE TypeOK'
  <2>1. CASE Exit(d)
    BY <2>1 DEF Exit, Phase
  <2>2. CASE ExitStep(d)
    <3>1. ses' \in [Daemons -> Session]
      <4>1. CASE ExitLock(d)
        BY <4>1 DEF ExitLock, Session
      <4>2. CASE CleanTest(d)
        <5>1. ses[d].at + 1 \in Nat
          BY SessionField
        <5>2. \/ UNCHANGED ses
              \/ ses' = [ses EXCEPT ![d] = [ses[d] EXCEPT !.at = ses[d].at + 1]]
          BY <4>2 DEF CleanTest
        <5> QED
          BY <5>1, <5>2, AtTyped
      <4>3. CASE CleanUnlink(d)
        BY <4>3 DEF CleanUnlink, Session
      <4>4. CASE ExitDone(d)
        BY <4>4, FreshTyped DEF ExitDone
      <4> QED
        BY <2>2, <4>1, <4>2, <4>3, <4>4 DEF ExitStep
    <3>2. pc' \in [Daemons -> Phase]
      BY <2>2 DEF ExitStep, ExitLock, CleanTest, CleanUnlink, ExitDone, Phase, Leaving
    <3>3. dir' \in [Alias -> Daemons \cup {None}]
      BY <2>2 DEF ExitStep, ExitLock, CleanTest, CleanUnlink, ExitDone
    <3> QED
      BY <2>2, <3>1, <3>2, <3>3 DEF ExitStep, ExitLock, CleanTest, CleanUnlink, ExitDone
  <2> QED
    BY <1>13, <2>1, <2>2
<1>14. ASSUME NEW d \in Daemons, Crash(d) \/ Kill(d) PROVE TypeOK'
  BY <1>14, FreshTyped DEF Crash, Kill, Die, Phase
<1>15. ASSUME Collector \/ MainRestart PROVE TypeOK'
  <2>1. CASE GcBegin \/ GcUnlock \/ GcEnd \/ MainRestart
    BY <2>1, Bounds DEF GcBegin, GcUnlock, GcEnd, MainRestart, daemonVars
  <2>2. CASE GcTest
    BY <2>2, AliasTypes DEF GcTest, GcTestAliases, GcTestSock, GcTestJail, daemonVars
  <2>3. CASE GcUnlink
    BY <2>3 DEF GcUnlink, daemonVars
  <2> QED
    BY <1>15, <2>1, <2>2, <2>3 DEF Collector
<1>16. CASE UNCHANGED vars
  BY <1>16 DEF vars
<1>17. ASSUME NEW d \in Daemons, MakeTemp(d) PROVE TypeOK'
  BY <1>17 DEF MakeTemp
<1> QED
  BY <1>1, <1>2, <1>3, <1>4, <1>5, <1>6, <1>7, <1>9, <1>10, <1>11, <1>12,
     <1>13, <1>14, <1>15, <1>16, <1>17 DEF Next, Daemon, Message, NameStep

-----------------------------------------------------------------------------
(* What a step leaves alone. *)

(* Nothing happens that anybody else could see. *)
Quiet == UNCHANGED <<pc, ses, sock, jail, dir, lock, gc, victims, restarts>>

(* A step of one daemon changes no other daemon. *)
LEMMA ActorFrame ==
  ASSUME TypeOK, NEW d \in Daemons, Daemon(d), NEW e \in Daemons \ {d}
  PROVE  pc'[e] = pc[e] /\ ses'[e] = ses[e]
<1> USE DEF TypeOK
<1>1. CASE StartUp(d)
  BY <1>1 DEF StartUp, Bind, Listen, LinkRandomRo, EnterJail
<1>2. CASE Message(d)
  BY <1>2 DEF Message, RequestIdentity, Ready, DeferName, BeginName, BeginIdentity
<1>3. CASE IdentityStep(d)
  BY <1>3 DEF IdentityStep, InstallStableRw, InstallStableRo, FinishIdentity
<1>4. CASE NameStep(d)
  BY <1>4 DEF NameStep, TakeOverName, ReclaimName, ClaimName, NextName, GiveUpName,
              LinkNamedRw, LinkNamedRo, FinishName
<1>5. CASE Exit(d) \/ ExitStep(d)
  BY <1>5 DEF Exit, ExitStep, ExitLock, CleanTest, CleanUnlink, ExitDone
<1>6. CASE Crash(d) \/ Kill(d)
  BY <1>6 DEF Crash, Kill, Die
<1> QED
  BY <1>1, <1>2, <1>3, <1>4, <1>5, <1>6 DEF Daemon

(* The main process changes no daemon. *)
LEMMA MainFrame ==
  Collector \/ MainRestart \/ Quiet => UNCHANGED <<pc, ses>>
  BY DEF Collector, MainRestart, GcBegin, GcTest, GcTestAliases, GcTestSock, GcTestJail,
         GcUnlink, GcUnlock, GcEnd, daemonVars, Quiet

LEMMA Actors ==
  [Next]_vars => (\E d \in Daemons : Daemon(d)) \/ Collector \/ MainRestart \/ Quiet
  BY DEF Next, vars, Quiet, MakeTemp, gcVars

LEMMA GiveUpStep ==
  ASSUME TypeOK, NEW d \in Daemons, GiveUpName(d)
  PROVE  /\ pc'[d] = "up" /\ lock' = None
         /\ ses'[d].ident = ses[d].ident /\ ses'[d].prev = ses[d].prev
  BY DEF GiveUpName, TypeOK

LEMMA LinkNamedRwStep ==
  ASSUME TypeOK, NEW d \in Daemons, NEW p \in Hosts \cup Pins, LinkNamedRw(d, p)
  PROVE  /\ pc[d] = "link_rw"
         /\ \/ /\ pc' = [pc EXCEPT ![d] = "link_ro"]
               /\ ses' = [ses EXCEPT ![d].rw = NamedRw(p, Candidate(d))]
               /\ dir' = [dir EXCEPT ![NamedRw(p, Candidate(d))] = d]
               /\ UNCHANGED lock
            \/ /\ GiveUpName(d)
               /\ dir' = [dir EXCEPT ![Named(Candidate(d))] = None]
         /\ UNCHANGED <<sock, jail, gc, victims, restarts>>
  BY DEF LinkNamedRw, Symlink, Replace, gcVars

LEMMA NextNameStep ==
  ASSUME TypeOK, NEW d \in Daemons, NextName(d)
  PROVE  /\ pc[d] = "try"
         /\ \/ GiveUpName(d)
            \/ /\ UNCHANGED <<pc, lock>>
               /\ ses[d].at < Len(Candidates(d))
               /\ ses' = [ses EXCEPT ![d].at = @ + 1]
         /\ UNCHANGED <<sock, jail, dir, gc, victims, restarts>>
  BY DEF NextName, gcVars

(* flock() is exclusive: the lock and the critical sections agree. *)
LEMMA LockStep == TypeOK /\ LockInv /\ [Next]_vars => LockInv'
<1> SUFFICES ASSUME TypeOK, LockInv, [Next]_vars PROVE LockInv'
  OBVIOUS
<1>0. Gc \notin Daemons /\ Gc # None /\ None \notin Daemons
  BY ConstantsAssumption
<1> USE <1>0 DEF TypeOK, LockInv, gcVars, Critical, Naming, Handover, Leaving
<1>1. ASSUME NEW d \in Daemons, StartUp(d) PROVE LockInv'
  <2>1. /\ pc[d] \in {"new", "bound", "listening", "linked"}
        /\ \E x \in {"bound", "listening", "linked", "up"} : pc' = [pc EXCEPT ![d] = x]
        /\ UNCHANGED <<lock, gc>>
    BY <1>1 DEF StartUp, Bind, Listen, LinkRandomRo, EnterJail
  <2> QED
    BY <2>1
<1>2. ASSUME NEW d \in Daemons, Message(d) PROVE LockInv'
  <2>1. CASE RequestIdentity(d) \/ Ready(d) \/ \E n \in Names : DeferName(d, n)
    <3>1. UNCHANGED <<pc, lock, gc>>
      BY <2>1 DEF RequestIdentity, Ready, DeferName
    <3> QED
      BY <3>1
  <2>2. CASE \E n \in Names : BeginName(d, n)
    BY <2>2 DEF BeginName
  <2>3. CASE \E h \in Hosts : BeginIdentity(d, h)
    BY <2>3 DEF BeginIdentity
  <2> QED
    BY <1>2, <2>1, <2>2, <2>3 DEF Message
<1>3. ASSUME NEW d \in Daemons, IdentityStep(d) PROVE LockInv'
  BY <1>3 DEF IdentityStep, InstallStableRw, InstallStableRo, FinishIdentity
<1>4. ASSUME NEW d \in Daemons, NameStep(d) PROVE LockInv'
  <2>1. CASE TakeOverName(d) \/ ReclaimName(d) \/ ClaimName(d)
    BY <2>1 DEF TakeOverName, ReclaimName, ClaimName
  <2>2. CASE NextName(d)
    BY <2>2 DEF NextName, GiveUpName
  <2>3. CASE \E p \in Hosts \cup Pins : LinkNamedRw(d, p)
    BY <2>3 DEF LinkNamedRw, GiveUpName
  <2>4. CASE LinkNamedRo(d) \/ FinishName(d)
    BY <2>4 DEF LinkNamedRo, FinishName
  <2> QED
    BY <1>4, <2>1, <2>2, <2>3, <2>4 DEF NameStep
<1>5. ASSUME NEW d \in Daemons, Exit(d) \/ ExitStep(d) PROVE LockInv'
  BY <1>5 DEF Exit, ExitStep, ExitLock, CleanTest, CleanUnlink, ExitDone
<1>6. ASSUME NEW d \in Daemons, Crash(d) \/ Kill(d) PROVE LockInv'
  BY <1>6 DEF Crash, Kill, Die
<1>7. ASSUME Collector \/ MainRestart PROVE LockInv'
  <2>1. CASE GcTest \/ GcUnlink
    <3>1. UNCHANGED <<pc, lock, gc>>
      BY <2>1 DEF GcTest, GcTestAliases, GcTestSock, GcTestJail, GcUnlink, daemonVars
    <3> QED
      BY <3>1
  <2>2. CASE GcBegin
    BY <2>2 DEF GcBegin, daemonVars
  <2>3. CASE GcUnlock \/ GcEnd
    BY <2>3 DEF GcUnlock, GcEnd, daemonVars
  <2>4. CASE MainRestart
    BY <2>4 DEF MainRestart, daemonVars
  <2> QED
    BY <1>7, <2>1, <2>2, <2>3, <2>4 DEF Collector
<1>8. CASE Quiet
  BY <1>8 DEF Quiet
<1> QED
  BY <1>1, <1>2, <1>3, <1>4, <1>5, <1>6, <1>7, <1>8, Actors DEF Daemon

(* The loop over numbered names stays inside its list. *)
LEMMA LoopStep == TypeOK /\ LoopInv /\ [Next]_vars => LoopInv'
<1> SUFFICES ASSUME TypeOK, LoopInv, [Next]_vars PROVE LoopInv'
  OBVIOUS
<1> USE DEF TypeOK, LoopInv, Naming, Handover
<1>0. \A n \in Names : Len(NameAt[n]) \in Nat /\ Len(NameAt[n]) >= 1
  <2>1. \A n \in Names : NameAt[n] \in Seq(Names) /\ Len(NameAt[n]) >= 1
    BY ConstantsAssumption
  <2> QED
    BY <2>1
<1>1. ASSUME NEW e \in Daemons, pc'[e] = pc[e], ses'[e] = ses[e]
      PROVE  /\ pc'[e] \in Naming => /\ ses'[e].base \in Names
                                     /\ ses'[e].at \in 1..Len(NameAt[ses'[e].base])
             /\ pc'[e] \in Handover => ses'[e].ident \in Hosts
  BY <1>1
<1>2. ASSUME NEW d \in Daemons, Daemon(d)
      PROVE  /\ pc'[d] \in Naming => /\ ses'[d].base \in Names
                                     /\ ses'[d].at \in 1..Len(NameAt[ses'[d].base])
             /\ pc'[d] \in Handover => ses'[d].ident \in Hosts
  <2>1. CASE StartUp(d)
    BY <2>1 DEF StartUp, Bind, Listen, LinkRandomRo, EnterJail
  <2>2. CASE Message(d)
    <3>1. CASE RequestIdentity(d) \/ Ready(d) \/ \E n \in Names : DeferName(d, n)
      BY <3>1 DEF RequestIdentity, Ready, DeferName
    <3>2. ASSUME NEW n \in Names, BeginName(d, n)
          PROVE  pc'[d] = "try" /\ ses'[d].base = n /\ ses'[d].at = 1
      BY <3>2 DEF BeginName
    <3>3. ASSUME NEW h \in Hosts, BeginIdentity(d, h)
          PROVE  pc'[d] = "id_rw" /\ ses'[d].ident = h
      BY <3>3 DEF BeginIdentity
    <3> QED
      BY <2>2, <3>1, <3>2, <3>3, <1>0 DEF Message
  <2>3. CASE IdentityStep(d)
    <3>1. ses[d].pending \in Names \cup {None}
      BY SessionField
    <3>2. CASE InstallStableRw(d) \/ InstallStableRo(d)
      BY <3>2 DEF InstallStableRw, InstallStableRo
    <3>3. CASE FinishIdentity(d)
      <4>1. /\ ses'[d].base = ses[d].pending /\ ses'[d].at = 1
            /\ pc'[d] = IF ses[d].pending # None THEN "try" ELSE "up"
        BY <3>3 DEF FinishIdentity
      <4> QED
        BY <3>1, <4>1, <1>0
    <3> QED
      BY <2>3, <3>2, <3>3 DEF IdentityStep
  <2>4. CASE TakeOverName(d) \/ ReclaimName(d) \/ ClaimName(d)
    BY <2>4 DEF TakeOverName, ReclaimName, ClaimName
  <2>5. CASE NextName(d)
    <3>1. ses[d].base \in Names /\ ses[d].at \in 1..Len(NameAt[ses[d].base])
      BY <2>5 DEF NextName
    <3>2. \/ pc'[d] = "up"
          \/ /\ pc'[d] = "try" /\ ses'[d].base = ses[d].base
             /\ ses'[d].at = ses[d].at + 1
             /\ ses[d].at < Len(NameAt[ses[d].base])
      <4>1. CASE GiveUpName(d)
        BY <4>1, GiveUpStep
      <4>2. CASE /\ UNCHANGED <<pc, lock>>
                 /\ ses[d].at < Len(Candidates(d))
                 /\ ses' = [ses EXCEPT ![d].at = @ + 1]
        BY <2>5, <4>2, NextNameStep DEF Candidates
      <4> QED
        BY <2>5, <4>1, <4>2, NextNameStep
    <3>3. CASE pc'[d] = "up"
      BY <3>3
    <3>4. CASE /\ pc'[d] = "try" /\ ses'[d].base = ses[d].base
               /\ ses'[d].at = ses[d].at + 1
               /\ ses[d].at < Len(NameAt[ses[d].base])
      <4>1. ses[d].at + 1 \in 1..Len(NameAt[ses[d].base])
        BY <3>1, <3>4, <1>0
      <4> QED
        BY <3>1, <3>4, <4>1
    <3> QED
      BY <3>2, <3>3, <3>4
  <2>6. CASE \E p \in Hosts \cup Pins : LinkNamedRw(d, p)
    <3>1. PICK p \in Hosts \cup Pins : LinkNamedRw(d, p)
      BY <2>6
    <3>2. CASE GiveUpName(d)
      BY <3>2, GiveUpStep
    <3>3. CASE /\ pc' = [pc EXCEPT ![d] = "link_ro"]
               /\ ses' = [ses EXCEPT ![d].rw = NamedRw(p, Candidate(d))]
      BY <3>1, <3>3 DEF LinkNamedRw
    <3> QED
      BY <3>1, <3>2, <3>3, LinkNamedRwStep
  <2>7. CASE LinkNamedRo(d) \/ FinishName(d)
    BY <2>7 DEF LinkNamedRo, FinishName
  <2>8. CASE Exit(d) \/ ExitStep(d)
    BY <2>8 DEF Exit, ExitStep, ExitLock, CleanTest, CleanUnlink, ExitDone
  <2>9. CASE Crash(d) \/ Kill(d)
    BY <2>9 DEF Crash, Kill, Die
  <2> QED
    BY <1>2, <2>1, <2>2, <2>3, <2>4, <2>5, <2>6, <2>7, <2>8, <2>9 DEF Daemon, NameStep
<1>3. ASSUME NEW d \in Daemons, Daemon(d) PROVE LoopInv'
  BY <1>1, <1>2, <1>3, ActorFrame
<1>4. CASE UNCHANGED <<pc, ses>>
  BY <1>1, <1>4
<1> QED
  BY <1>3, <1>4, Actors, MainFrame

(* Which aliases a daemon changes, and to what: its own random link when it   *)
(* starts; inside a critical section any, but only to itself or to nothing.  *)
LEMMA DaemonDir ==
  ASSUME TypeOK, NEW d \in Daemons, Daemon(d), NEW a \in Alias, dir'[a] # dir[a]
  PROVE  \/ /\ pc[d] = "listening" /\ pc'[d] = "linked"
            /\ a = RandomRo(d) /\ dir'[a] = d
         \/ /\ pc[d] \in Critical /\ dir'[a] \in {d, None}
            /\ \A e : a # RandomRo(e) \/ dir'[a] = None
<1> USE DEF TypeOK, gcVars, Critical, Naming, Handover, Leaving
<1>1. CASE StartUp(d)
  BY <1>1 DEF StartUp, Bind, Listen, LinkRandomRo, EnterJail
<1>2. CASE Message(d) \/ Exit(d) \/ Crash(d) \/ Kill(d)
  BY <1>2 DEF Message, RequestIdentity, Ready, DeferName, BeginName, BeginIdentity,
              Exit, Crash, Kill, Die
<1>3. CASE IdentityStep(d)
  BY <1>3, AliasDistinct DEF IdentityStep, InstallStableRw, InstallStableRo, FinishIdentity,
              Replace, RemoveOwned
<1>4. CASE TakeOverName(d) \/ ReclaimName(d) \/ ClaimName(d) \/ NextName(d)
  BY <1>4, AliasDistinct DEF TakeOverName, ReclaimName, ClaimName, NextName, Symlink, Replace
<1>5. CASE \E p \in Hosts \cup Pins : LinkNamedRw(d, p)
  BY <1>5, AliasDistinct DEF LinkNamedRw, Symlink, Replace
<1>6. CASE LinkNamedRo(d) \/ FinishName(d)
  BY <1>6, AliasDistinct DEF LinkNamedRo, FinishName, Replace, RemoveOwned
<1>7. CASE ExitStep(d)
  BY <1>7 DEF ExitStep, ExitLock, CleanTest, CleanUnlink, ExitDone
<1> QED
  BY <1>1, <1>2, <1>3, <1>4, <1>5, <1>6, <1>7 DEF Daemon, NameStep

(* The main process only removes what the collector has marked. *)
LEMMA MainDir ==
  ASSUME TypeOK, Collector \/ MainRestart \/ Quiet,
         NEW a \in Alias, dir'[a] # dir[a]
  PROVE  GcUnlink /\ a \in victims /\ dir'[a] = None
  BY DEF TypeOK, Collector, MainRestart, GcBegin, GcTest, GcTestAliases, GcTestSock,
         GcTestJail, GcUnlink, GcUnlock, GcEnd, daemonVars, Quiet

-----------------------------------------------------------------------------
(* The parts of the invariant about links. *)

(* A daemon in start-up was there before, and is in no critical section. *)
LEMMA StartUpBefore ==
  ASSUME TypeOK, NEW d \in Daemons, Daemon(d), pc'[d] \in {"new", "bound", "listening"}
  PROVE  pc[d] \in {"new", "bound", "listening"} /\ ~ (pc[d] = "listening" /\ pc'[d] = "linked")
<1> USE DEF TypeOK
<1>1. CASE StartUp(d)
  BY <1>1 DEF StartUp, Bind, Listen, LinkRandomRo, EnterJail
<1>2. CASE Message(d)
  <2>1. pc'[d] = pc[d] \/ pc'[d] \in {"try", "id_rw"}
    BY <1>2 DEF Message, RequestIdentity, Ready, DeferName, BeginName, BeginIdentity
  <2>2. pc[d] = "up"
    BY <1>2 DEF Message, RequestIdentity, Ready, DeferName, BeginName, BeginIdentity
  <2> QED
    BY <2>1, <2>2
<1>3. CASE IdentityStep(d)
  BY <1>3 DEF IdentityStep, InstallStableRw, InstallStableRo, FinishIdentity
<1>4. CASE TakeOverName(d) \/ ReclaimName(d) \/ ClaimName(d) \/ LinkNamedRo(d) \/ FinishName(d)
  BY <1>4 DEF TakeOverName, ReclaimName, ClaimName, LinkNamedRo, FinishName
<1>5. CASE NextName(d)
  BY <1>5, NextNameStep, GiveUpStep
<1>6. CASE \E p \in Hosts \cup Pins : LinkNamedRw(d, p)
  BY <1>6, LinkNamedRwStep, GiveUpStep
<1>7. CASE Exit(d) \/ ExitStep(d)
  BY <1>7 DEF Exit, ExitStep, ExitLock, CleanTest, CleanUnlink, ExitDone
<1>8. CASE Crash(d) \/ Kill(d)
  BY <1>8 DEF Crash, Kill, Die
<1> QED
  BY <1>1, <1>2, <1>3, <1>4, <1>5, <1>6, <1>7, <1>8 DEF Daemon, NameStep

(* No link leads to a daemon that has not made its first one. *)
LEMMA StartStep == TypeOK /\ StartInv /\ [Next]_vars => StartInv'
<1> SUFFICES ASSUME TypeOK, StartInv, [Next]_vars,
                    NEW d \in Daemons, pc'[d] \in {"new", "bound", "listening"}
             PROVE  /\ dir'[RandomRo(d)] = None
                    /\ \A a \in Alias : dir'[a] # d
  BY DEF StartInv
<1>0. None \notin Daemons /\ RandomRo(d) \in Alias
  BY ConstantsAssumption, AliasTypes
<1>1. pc[d] \in {"new", "bound", "listening"}
  BY StartUpBefore, ActorFrame, MainFrame, Actors
<1>2. dir[RandomRo(d)] = None /\ \A a \in Alias : dir[a] # d
  BY <1>1 DEF StartInv
<1>3. ASSUME NEW a \in Alias, dir'[a] # dir[a]
      PROVE  dir'[a] # d /\ (a = RandomRo(d) => dir'[a] = None)
  <2>1. ASSUME NEW e \in Daemons, Daemon(e) PROVE dir'[a] # d /\ (a = RandomRo(d) => dir'[a] = None)
    <3>1. CASE pc[e] = "listening" /\ pc'[e] = "linked" /\ a = RandomRo(e) /\ dir'[a] = e
      BY <3>1, AliasDistinct
    <3>2. CASE pc[e] \in Critical /\ dir'[a] \in {e, None} /\ \A x : a # RandomRo(x) \/ dir'[a] = None
      BY <3>2, <1>0, <1>1 DEF Critical, Naming, Handover, Leaving
    <3> QED
      BY <1>3, <2>1, <3>1, <3>2, DaemonDir
  <2>2. CASE Collector \/ MainRestart \/ Quiet
    BY <1>0, <1>3, <2>2, MainDir
  <2> QED
    BY <2>1, <2>2, Actors
<1> QED
  BY <1>0, <1>2, <1>3

(* What the collector is about to unlink still dangles. *)
LEMMA VictimStep ==
  TypeOK /\ LockInv /\ StartInv /\ VictimInv /\ [Next]_vars => VictimInv'
<1> SUFFICES ASSUME TypeOK, LockInv, StartInv, VictimInv, [Next]_vars,
                    NEW a \in Alias, a \in victims'
             PROVE  gc' = "scan" /\ dir'[a] # None /\ dir'[a] \notin sock'
  BY DEF VictimInv
<1>0. Gc \notin Daemons
  BY ConstantsAssumption
<1>1. ASSUME NEW d \in Daemons, Daemon(d)
      PROVE  gc' = "scan" /\ dir'[a] # None /\ dir'[a] \notin sock'
  <2>1. UNCHANGED <<gc, victims>>
    BY <1>1 DEF Daemon, StartUp, Bind, Listen, LinkRandomRo, EnterJail, Message,
       RequestIdentity, Ready, DeferName, BeginName, BeginIdentity, IdentityStep,
       InstallStableRw, InstallStableRo, FinishIdentity, NameStep, TakeOverName,
       ReclaimName, ClaimName, NextName, LinkNamedRw, LinkNamedRo, FinishName, Exit,
       ExitStep, ExitLock, CleanTest, CleanUnlink, ExitDone, Crash, Kill, Die, gcVars
  <2>2. gc = "scan" /\ dir[a] # None /\ dir[a] \notin sock /\ lock = Gc
    BY <2>1 DEF VictimInv, LockInv
  <2>3. pc[d] \notin Critical
    BY <1>0, <2>2 DEF LockInv
  <2>4. dir'[a] = dir[a]
    BY <1>1, <2>2, <2>3, DaemonDir DEF StartInv
  <2>5. sock' \subseteq sock \/ (pc[d] = "new" /\ sock' = sock \cup {d})
    BY <1>1 DEF Daemon, StartUp, Bind, Listen, LinkRandomRo, EnterJail, Message,
       RequestIdentity, Ready, DeferName, BeginName, BeginIdentity, IdentityStep,
       InstallStableRw, InstallStableRo, FinishIdentity, NameStep, TakeOverName,
       ReclaimName, ClaimName, NextName, LinkNamedRw, LinkNamedRo, FinishName, Exit,
       ExitStep, ExitLock, CleanTest, CleanUnlink, ExitDone, Crash, Kill, Die
  <2>6. pc[d] = "new" => dir[a] # d
    BY DEF StartInv
  <2> QED
    BY <2>1, <2>2, <2>4, <2>5, <2>6
<1>2. ASSUME GcTest PROVE gc' = "scan" /\ dir'[a] # None /\ dir'[a] \notin sock'
  <2>1. ~ \E d \in Daemons : GcTestSock(d) \/ GcTestJail(d)
    BY AliasTypes DEF GcTestSock, GcTestJail
  <2> QED
    BY <1>2, <2>1 DEF GcTest, GcTestAliases, Dangling, daemonVars
<1>3. ASSUME GcBegin \/ GcUnlink \/ GcUnlock \/ GcEnd \/ MainRestart \/ Quiet
      PROVE  gc' = "scan" /\ dir'[a] # None /\ dir'[a] \notin sock'
  BY <1>3 DEF GcBegin, GcUnlink, GcUnlock, GcEnd, MainRestart, VictimInv, Quiet
<1> QED
  BY <1>1, <1>2, <1>3, Actors DEF Collector

(* While d is in a critical section, nobody else changes a link that exists. *)
LEMMA Exclusive ==
  ASSUME TypeOK, LockInv, StartInv, VictimInv, [Next]_vars,
         NEW d \in Daemons, pc[d] \in Critical, ~ Daemon(d),
         NEW a \in Alias, dir[a] # None
  PROVE  dir'[a] = dir[a] /\ pc'[d] = pc[d] /\ ses'[d] = ses[d]
<1>0. Gc \notin Daemons /\ None \notin Daemons
  BY ConstantsAssumption
<1>1. lock = d
  BY DEF LockInv
<1>2. ASSUME NEW e \in Daemons, Daemon(e)
      PROVE  dir'[a] = dir[a] /\ pc'[d] = pc[d] /\ ses'[d] = ses[d]
  <2>1. e # d
    BY <1>2
  <2>2. pc[e] \notin Critical
    BY <1>1, <2>1 DEF LockInv
  <2>3. pc[e] = "listening" => a # RandomRo(e)
    BY DEF StartInv
  <2> QED
    BY <1>2, <2>1, <2>2, <2>3, ActorFrame, DaemonDir
<1>3. CASE Collector \/ MainRestart \/ Quiet
  <2>1. a \notin victims
    BY <1>0, <1>1 DEF VictimInv, LockInv
  <2> QED
    BY <1>3, <2>1, MainDir, MainFrame
<1> QED
  BY <1>2, <1>3, Actors

(* A daemon that has found a name holds it until it unlocks. *)
LEMMA HolderStep ==
  TypeOK /\ LockInv /\ LoopInv /\ StartInv /\ VictimInv /\ HolderInv /\ [Next]_vars
    => HolderInv'
<1> SUFFICES ASSUME TypeOK, LockInv, LoopInv, StartInv, VictimInv, HolderInv, [Next]_vars,
                    NEW d \in Daemons, pc'[d] \in {"link_rw", "link_ro", "drop_ro"}
             PROVE  (dir[Named(Candidate(d))] = d)'
  BY DEF HolderInv
<1> USE DEF TypeOK
<1>1. CASE ~ Daemon(d)
  <2>1. pc'[d] = pc[d] /\ ses'[d] = ses[d]
    BY <1>1, ActorFrame, MainFrame, Actors
  <2>2. Candidate(d)' = Candidate(d)
    BY <2>1 DEF Candidate, Candidates
  <2>3. pc[d] \in Naming /\ pc[d] \in Critical /\ dir[Named(Candidate(d))] = d
    BY <2>1 DEF HolderInv, Naming, Critical
  <2>4. Named(Candidate(d)) \in Alias
    BY <2>3, CandidateTyped, AliasTypes
  <2>5. d # None
    BY ConstantsAssumption
  <2> QED
    BY <1>1, <2>2, <2>3, <2>4, <2>5, Exclusive
<1>2. CASE TakeOverName(d) \/ ClaimName(d)
  <2>1. Named(Candidate(d)) \in Alias
    BY <1>2, CandidateTyped, AliasTypes DEF TakeOverName, ClaimName, Naming
  <2>2. Candidate(d)' = Candidate(d)
    BY <1>2 DEF TakeOverName, ClaimName, Candidate, Candidates
  <2> QED
    BY <1>2, <2>1, <2>2 DEF TakeOverName, ClaimName, Symlink, Replace
<1>3. CASE \E p \in Hosts \cup Pins : LinkNamedRw(d, p)
  <2>1. PICK p \in Hosts \cup Pins : LinkNamedRw(d, p)
    BY <1>3
  <2>2. ~ GiveUpName(d)
    BY GiveUpStep
  <2>3. /\ ses' = [ses EXCEPT ![d].rw = NamedRw(p, Candidate(d))]
        /\ dir' = [dir EXCEPT ![NamedRw(p, Candidate(d))] = d]
        /\ pc[d] = "link_rw"
    BY <2>1, <2>2, LinkNamedRwStep
  <2>4. Candidate(d)' = Candidate(d)
    BY <2>3 DEF Candidate, Candidates
  <2>5. dir[Named(Candidate(d))] = d /\ Candidate(d) \in Names
    BY <2>3, CandidateTyped DEF HolderInv, Naming
  <2>6. Named(Candidate(d)) # NamedRw(p, Candidate(d)) /\ Named(Candidate(d)) \in Alias
    BY <2>5, AliasDistinct, AliasTypes
  <2> QED
    BY <2>3, <2>4, <2>5, <2>6
<1>4. CASE LinkNamedRo(d)
  <2>1. pc[d] = "link_ro" /\ dir' = [dir EXCEPT ![NamedRo(Candidate(d))] = d] /\ ses' = ses
    BY <1>4 DEF LinkNamedRo, Replace
  <2>2. Candidate(d)' = Candidate(d)
    BY <2>1 DEF Candidate, Candidates
  <2>3. dir[Named(Candidate(d))] = d /\ Candidate(d) \in Names
    BY <2>1, CandidateTyped DEF HolderInv, Naming
  <2>4. Named(Candidate(d)) # NamedRo(Candidate(d)) /\ Named(Candidate(d)) \in Alias
    BY <2>3, AliasDistinct, AliasTypes
  <2> QED
    BY <2>1, <2>2, <2>3, <2>4
<1>5. CASE ReclaimName(d) \/ NextName(d) \/ FinishName(d)
  BY <1>5, NextNameStep, GiveUpStep DEF ReclaimName, FinishName
<1>6. CASE StartUp(d) \/ Message(d) \/ IdentityStep(d)
  <2>1. CASE StartUp(d)
    BY <2>1 DEF StartUp, Bind, Listen, LinkRandomRo, EnterJail
  <2>2. CASE Message(d)
    BY <2>2 DEF Message, RequestIdentity, Ready, DeferName, BeginName, BeginIdentity
  <2>3. CASE IdentityStep(d)
    BY <2>3 DEF IdentityStep, InstallStableRw, InstallStableRo, FinishIdentity
  <2> QED
    BY <1>6, <2>1, <2>2, <2>3
<1>7. CASE Exit(d) \/ ExitStep(d) \/ Crash(d) \/ Kill(d)
  BY <1>7 DEF Exit, ExitStep, ExitLock, CleanTest, CleanUnlink, ExitDone, Crash, Kill, Die
<1> QED
  BY <1>1, <1>2, <1>3, <1>4, <1>5, <1>6, <1>7 DEF Daemon, NameStep

LEMMA CleanupTyped ==
  ASSUME TypeOK, NEW d \in Daemons, NEW i \in Nat, i >= 1, i <= Len(CleanupList(d)),
         CleanupList(d)[i] # None
  PROVE  CleanupList(d)[i] \in Alias
<1>1. /\ ses[d].ident \in Hosts \cup {None} /\ ses[d].named \in Names \cup {None}
      /\ ses[d].ro \in Alias \cup {None} /\ ses[d].rw \in Alias \cup {None}
  BY SessionField DEF TypeOK
<1>2. Len(CleanupList(d)) = 5
  BY DEF CleanupList
<1>3. i \in {1, 2, 3, 4, 5}
  BY <1>2
<1>4. /\ ses[d].named # None => Named(ses[d].named) \in Alias
      /\ ses[d].ident # None => /\ StableRw(ses[d].ident) \in Alias
                                /\ StableRo(ses[d].ident) \in Alias
  BY <1>1, AliasTypes
<1> QED
  BY <1>1, <1>3, <1>4 DEF CleanupList

(* The cleanup unlinks what it has found to be its own. *)
LEMMA CleanStep ==
  TypeOK /\ LockInv /\ StartInv /\ VictimInv /\ CleanInv /\ [Next]_vars => CleanInv'
<1> SUFFICES ASSUME TypeOK, LockInv, StartInv, VictimInv, CleanInv, [Next]_vars,
                    NEW d \in Daemons
             PROVE  /\ pc'[d] \in Leaving => ses'[d].at >= 1
                    /\ pc'[d] = "unlink" =>
                         /\ ses'[d].at <= Len(CleanupList(d)')
                         /\ PointsTo(CleanupList(d)[ses[d].at], d)'
  BY DEF CleanInv
<1> USE DEF TypeOK, Leaving
<1>0. d # None
  BY ConstantsAssumption
<1>1. CASE ~ Daemon(d)
  <2>1. pc'[d] = pc[d] /\ ses'[d] = ses[d]
    BY <1>1, ActorFrame, MainFrame, Actors
  <2>2. CleanupList(d)' = CleanupList(d)
    BY <2>1 DEF CleanupList
  <2>3. pc[d] \in Leaving => ses[d].at >= 1
    BY DEF CleanInv
  <2>4. ASSUME pc[d] = "unlink"
        PROVE  /\ ses[d].at <= Len(CleanupList(d))
               /\ PointsTo(CleanupList(d)[ses[d].at], d)'
    <3>1. /\ ses[d].at <= Len(CleanupList(d)) /\ ses[d].at >= 1
          /\ PointsTo(CleanupList(d)[ses[d].at], d)
      BY <2>4 DEF CleanInv
    <3>2. CleanupList(d)[ses[d].at] \in Alias
      BY <3>1, CleanupTyped, SessionField DEF PointsTo
    <3>3. pc[d] \in Critical
      BY <2>4 DEF Critical
    <3>4. dir'[CleanupList(d)[ses[d].at]] = dir[CleanupList(d)[ses[d].at]]
      BY <1>0, <1>1, <3>1, <3>2, <3>3, Exclusive DEF PointsTo
    <3> QED
      BY <2>1, <2>2, <3>1, <3>4 DEF PointsTo
  <2> QED
    BY <2>1, <2>2, <2>3, <2>4
<1>2. CASE ExitLock(d)
  BY <1>2 DEF ExitLock
<1>3. CASE CleanTest(d)
  <2>1. pc[d] = "clean" /\ ses[d].at >= 1 /\ ses[d].at \in Nat
    BY <1>3, SessionField DEF CleanTest, CleanInv
  <2>2. CASE PointsTo(CleanupList(d)[ses[d].at], d)
    <3>1. pc' = [pc EXCEPT ![d] = "unlink"] /\ ses' = ses /\ dir' = dir
          /\ ses[d].at <= Len(CleanupList(d))
      BY <1>3, <2>2 DEF CleanTest
    <3>2. CleanupList(d)' = CleanupList(d)
      BY <3>1 DEF CleanupList
    <3> QED
      BY <2>1, <2>2, <3>1, <3>2 DEF PointsTo
  <2>3. CASE ~ PointsTo(CleanupList(d)[ses[d].at], d)
    <3>1. ses' = [ses EXCEPT ![d].at = @ + 1] /\ pc' = pc
      BY <1>3, <2>3 DEF CleanTest
    <3>2. ses'[d].at = ses[d].at + 1
      BY <3>1
    <3> QED
      BY <2>1, <3>1, <3>2
  <2> QED
    BY <2>2, <2>3
<1>4. CASE CleanUnlink(d)
  <2>1. ses[d].at >= 1 /\ ses[d].at \in Nat /\ pc'[d] = "clean"
    BY <1>4, SessionField DEF CleanUnlink, CleanInv
  <2>2. ses'[d].at = ses[d].at + 1
    BY <1>4 DEF CleanUnlink
  <2> QED
    BY <2>1, <2>2
<1>5. CASE StartUp(d) \/ Message(d) \/ IdentityStep(d)
  <2>1. CASE StartUp(d)
    BY <2>1 DEF StartUp, Bind, Listen, LinkRandomRo, EnterJail
  <2>2. CASE Message(d)
    BY <2>2 DEF Message, RequestIdentity, Ready, DeferName, BeginName, BeginIdentity
  <2>3. CASE IdentityStep(d)
    BY <2>3 DEF IdentityStep, InstallStableRw, InstallStableRo, FinishIdentity
  <2> QED
    BY <1>5, <2>1, <2>2, <2>3
<1>6. CASE TakeOverName(d) \/ ReclaimName(d) \/ ClaimName(d) \/ LinkNamedRo(d) \/ FinishName(d)
  BY <1>6 DEF TakeOverName, ReclaimName, ClaimName, LinkNamedRo, FinishName
<1>7. CASE NextName(d)
  BY <1>7, NextNameStep, GiveUpStep
<1>8. CASE \E p \in Hosts \cup Pins : LinkNamedRw(d, p)
  BY <1>8, LinkNamedRwStep, GiveUpStep
<1>9. CASE Exit(d) \/ ExitDone(d) \/ Crash(d) \/ Kill(d)
  BY <1>9 DEF Exit, ExitDone, Crash, Kill, Die
<1> QED
  BY <1>1, <1>2, <1>3, <1>4, <1>5, <1>6, <1>7, <1>8, <1>9 DEF Daemon, NameStep, ExitStep

(* An identity, once learnt, stays until the daemon ends; what a daemon       *)
(* remembers as its predecessor is read off the directory at that moment.    *)
LEMMA IdentityFrame ==
  ASSUME TypeOK, NEW d \in Daemons, Daemon(d)
  PROVE  \/ ses'[d].ident = ses[d].ident /\ ses'[d].prev = ses[d].prev
         \/ /\ pc[d] = "up" /\ ses[d].ident = None
            /\ \E h \in Hosts : /\ ses'[d].ident = h /\ ses'[d].prev = dir[StableRw(h)]
                                /\ dir' = dir
         \/ pc'[d] \in {"gone", "dead"} /\ ses'[d] = FreshSession
<1> USE DEF TypeOK, Session
<1> DEFINE same == ses'[d].ident = ses[d].ident /\ ses'[d].prev = ses[d].prev
<1>1. ASSUME StartUp(d) PROVE same
  BY <1>1 DEF StartUp, Bind, Listen, LinkRandomRo, EnterJail
<1>2. ASSUME RequestIdentity(d) \/ Ready(d) \/ \E n \in Names : DeferName(d, n) \/ BeginName(d, n)
      PROVE  same
  <2>1. CASE RequestIdentity(d) \/ Ready(d)
    BY <2>1 DEF RequestIdentity, Ready
  <2>2. CASE \E n \in Names : DeferName(d, n)
    BY <2>2 DEF DeferName
  <2>3. CASE \E n \in Names : BeginName(d, n)
    BY <2>3 DEF BeginName
  <2> QED
    BY <1>2, <2>1, <2>2, <2>3
<1>3. ASSUME NEW h \in Hosts, BeginIdentity(d, h)
      PROVE  /\ pc[d] = "up" /\ ses[d].ident = None
             /\ ses'[d].ident = h /\ ses'[d].prev = dir[StableRw(h)]
             /\ dir' = dir
  BY <1>3 DEF BeginIdentity
<1>4. ASSUME IdentityStep(d) PROVE same
  BY <1>4 DEF IdentityStep, InstallStableRw, InstallStableRo, FinishIdentity
<1>5. ASSUME TakeOverName(d) \/ ReclaimName(d) \/ ClaimName(d) \/ LinkNamedRo(d) PROVE same
  BY <1>5 DEF TakeOverName, ReclaimName, ClaimName, LinkNamedRo
<1>6. ASSUME FinishName(d) PROVE same
  BY <1>6 DEF FinishName
<1>7. ASSUME NextName(d) PROVE same
  BY <1>7, NextNameStep, GiveUpStep
<1>8. ASSUME NEW p \in Hosts \cup Pins, LinkNamedRw(d, p) PROVE same
  BY <1>8, LinkNamedRwStep, GiveUpStep
<1>9. ASSUME Exit(d) \/ ExitLock(d) \/ CleanUnlink(d) PROVE same
  BY <1>9 DEF Exit, ExitLock, CleanUnlink
<1>10. ASSUME CleanTest(d) PROVE same
  <2>1. ses' = ses \/ ses' = [ses EXCEPT ![d].at = @ + 1]
    BY <1>10 DEF CleanTest
  <2> QED
    BY <2>1
<1>11. ASSUME ExitDone(d) \/ Crash(d) \/ Kill(d)
       PROVE  pc'[d] \in {"gone", "dead"} /\ ses'[d] = FreshSession
  BY <1>11 DEF ExitDone, Crash, Kill, Die
<1> QED
  BY <1>1, <1>2, <1>3, <1>4, <1>5, <1>6, <1>7, <1>8, <1>9, <1>10, <1>11
     DEF Daemon, Message, NameStep, ExitStep

(* A daemon only moves forward: it does not serve again after it has left,   *)
(* nor go back to its start-up.                                              *)
LEMMA Forward ==
  ASSUME TypeOK, NEW d \in Daemons, Daemon(d),
         pc[d] \notin {"new", "bound", "listening", "linked"}
  PROVE  /\ pc'[d] \notin {"new", "bound", "listening", "linked"}
         /\ Running(d)' => Running(d)
<1> USE DEF TypeOK, Running, Serving, Naming, Handover
<1>1. CASE StartUp(d)
  BY <1>1 DEF StartUp, Bind, Listen, LinkRandomRo, EnterJail
<1>2. CASE Message(d)
  <2>1. pc[d] = "up" /\ (pc'[d] = pc[d] \/ pc'[d] \in {"try", "id_rw"})
    BY <1>2 DEF Message, RequestIdentity, Ready, DeferName, BeginName, BeginIdentity
  <2> QED
    BY <2>1
<1>3. CASE IdentityStep(d)
  BY <1>3 DEF IdentityStep, InstallStableRw, InstallStableRo, FinishIdentity
<1>4. CASE TakeOverName(d) \/ ReclaimName(d) \/ ClaimName(d) \/ LinkNamedRo(d) \/ FinishName(d)
  BY <1>4 DEF TakeOverName, ReclaimName, ClaimName, LinkNamedRo, FinishName
<1>5. CASE NextName(d)
  BY <1>5, NextNameStep, GiveUpStep
<1>6. CASE \E p \in Hosts \cup Pins : LinkNamedRw(d, p)
  BY <1>6, LinkNamedRwStep, GiveUpStep
<1>7. CASE Exit(d) \/ ExitStep(d)
  BY <1>7 DEF Exit, ExitStep, ExitLock, CleanTest, CleanUnlink, ExitDone
<1>8. CASE Crash(d) \/ Kill(d)
  BY <1>8 DEF Crash, Kill, Die
<1> QED
  BY <1>1, <1>2, <1>3, <1>4, <1>5, <1>6, <1>7, <1>8 DEF Daemon, NameStep

(* An heir of an identity stays its heir. *)
LEMMA HeirStep ==
  ASSUME TypeOK, [Next]_vars, NEW t \in Daemons, NEW h \in Hosts, IsHeir(t, h)
  PROVE  IsHeir(t, h)'
<1>0. h # None
  BY ConstantsAssumption
<1>1. CASE ~ Daemon(t)
  <2>1. pc'[t] = pc[t] /\ ses'[t] = ses[t]
    BY <1>1, ActorFrame, MainFrame, Actors
  <2> QED
    BY <2>1 DEF IsHeir, Running
<1>2. CASE Daemon(t)
  <2>1. pc[t] \notin {"new", "bound", "listening", "linked"}
    BY DEF IsHeir
  <2>2. /\ pc'[t] \notin {"new", "bound", "listening", "linked"}
        /\ Running(t)' => Running(t)
    BY <1>2, <2>1, Forward
  <2>3. ASSUME Running(t)' PROVE ses'[t].ident = h
    <3>1. ses[t].ident = h
      BY <2>2, <2>3 DEF IsHeir
    <3>2. pc'[t] \notin {"gone", "dead"}
      BY <2>3 DEF Running, Serving, Naming, Handover
    <3> QED
      BY <1>0, <1>2, <3>1, <3>2, IdentityFrame
  <2> QED
    BY <2>2, <2>3 DEF IsHeir
<1> QED
  BY <1>1, <1>2

(* Only an heir in the making points an identity's alias at itself. *)
LEMMA StableDir ==
  ASSUME TypeOK, LoopInv, [Next]_vars, NEW h \in Hosts,
         dir'[StableRw(h)] # dir[StableRw(h)], dir'[StableRw(h)] # None
  PROVE  \E d \in Daemons : /\ dir'[StableRw(h)] = d /\ pc[d] = "id_rw" /\ pc'[d] = "id_ro"
                            /\ ses'[d].ident = h
<1> USE DEF TypeOK
<1>0. StableRw(h) \in Alias
  BY AliasTypes
<1>1. PICK d \in Daemons : Daemon(d)
  BY <1>0, Actors, MainDir
<1>2. CASE StartUp(d)
  BY <1>0, <1>2, AliasDistinct DEF StartUp, Bind, Listen, LinkRandomRo, EnterJail
<1>3. CASE Message(d) \/ Exit(d) \/ Crash(d) \/ Kill(d)
  BY <1>3 DEF Message, RequestIdentity, Ready, DeferName, BeginName, BeginIdentity,
              Exit, Crash, Kill, Die
<1>4. CASE InstallStableRw(d)
  <2>1. h = ses[d].ident /\ dir'[StableRw(h)] = d
    BY <1>0, <1>4, AliasDistinct DEF InstallStableRw, Replace
  <2> QED
    BY <1>4, <2>1 DEF InstallStableRw
<1>5. CASE InstallStableRo(d) \/ FinishIdentity(d)
  BY <1>0, <1>5, AliasDistinct DEF InstallStableRo, FinishIdentity, Replace, RemoveOwned
<1>6. CASE TakeOverName(d) \/ ReclaimName(d) \/ ClaimName(d) \/ NextName(d)
  BY <1>0, <1>6, AliasDistinct DEF TakeOverName, ReclaimName, ClaimName, NextName, Symlink, Replace
<1>7. CASE \E p \in Hosts \cup Pins : LinkNamedRw(d, p)
  BY <1>0, <1>7, AliasDistinct DEF LinkNamedRw, Symlink, Replace
<1>8. CASE LinkNamedRo(d) \/ FinishName(d)
  BY <1>0, <1>8, AliasDistinct DEF LinkNamedRo, FinishName, Replace, RemoveOwned
<1>9. CASE ExitStep(d)
  BY <1>0, <1>9 DEF ExitStep, ExitLock, CleanTest, CleanUnlink, ExitDone
<1> QED
  BY <1>1, <1>2, <1>3, <1>4, <1>5, <1>6, <1>7, <1>8, <1>9 DEF Daemon, NameStep, IdentityStep

LEMMA IdentityInvStep ==
  TypeOK /\ LoopInv /\ IdentityInv /\ [Next]_vars => IdentityInv'
<1> SUFFICES ASSUME TypeOK, LoopInv, IdentityInv, [Next]_vars PROVE IdentityInv'
  OBVIOUS
<1>0. None \notin Hosts
  BY ConstantsAssumption
<1>1. ASSUME NEW h \in Hosts, dir'[StableRw(h)] # None PROVE IsHeir(dir[StableRw(h)], h)'
  <2>1. StableRw(h) \in Alias
    BY AliasTypes
  <2>2. CASE dir'[StableRw(h)] = dir[StableRw(h)]
    <3>1. dir[StableRw(h)] \in Daemons /\ IsHeir(dir[StableRw(h)], h)
      BY <1>1, <2>1, <2>2 DEF TypeOK, IdentityInv
    <3>2. \A t \in Daemons : IsHeir(t, h) => IsHeir(t, h)'
      BY HeirStep
    <3> QED
      BY <2>2, <3>1, <3>2 DEF IsHeir, Running
  <2>3. CASE dir'[StableRw(h)] # dir[StableRw(h)]
    BY <1>1, <2>3, StableDir DEF IsHeir
  <2> QED
    BY <2>2, <2>3
<1>2. ASSUME NEW d \in Daemons, ses'[d].prev # None
      PROVE  ses'[d].ident \in Hosts /\ IsHeir(ses[d].prev, ses[d].ident)'
  <2>1. CASE ses'[d].ident = ses[d].ident /\ ses'[d].prev = ses[d].prev
    <3>1. /\ ses[d].ident \in Hosts /\ ses[d].prev \in Daemons
          /\ IsHeir(ses[d].prev, ses[d].ident)
      BY <1>2, <2>1, SessionField DEF IdentityInv, TypeOK
    <3>2. \A t \in Daemons, h \in Hosts : IsHeir(t, h) => IsHeir(t, h)'
      BY HeirStep
    <3> QED
      BY <2>1, <3>1, <3>2 DEF IsHeir, Running
  <2>2. ASSUME NEW h \in Hosts, ses'[d].ident = h, ses'[d].prev = dir[StableRw(h)]
        PROVE  ses'[d].ident \in Hosts /\ IsHeir(ses[d].prev, ses[d].ident)'
    <3>1. StableRw(h) \in Alias
      BY AliasTypes
    <3>2. dir[StableRw(h)] \in Daemons /\ IsHeir(dir[StableRw(h)], h)
      BY <1>2, <2>2, <3>1 DEF TypeOK, IdentityInv
    <3>3. \A t \in Daemons : IsHeir(t, h) => IsHeir(t, h)'
      BY HeirStep
    <3> QED
      BY <2>2, <3>2, <3>3 DEF IsHeir, Running
  <2>3. ses'[d] # FreshSession
    BY <1>2 DEF FreshSession
  <2>4. CASE Daemon(d)
    BY <1>2, <2>1, <2>2, <2>3, <2>4, IdentityFrame
  <2>5. CASE ~ Daemon(d)
    BY <2>1, <2>5, ActorFrame, MainFrame, Actors
  <2> QED
    BY <2>4, <2>5
<1> QED
  BY <1>1, <1>2 DEF IdentityInv

-----------------------------------------------------------------------------
(* The inductive invariant. *)

LEMMA InvInit == Init => IInv
<1> SUFFICES ASSUME Init PROVE IInv
  OBVIOUS
<1>1. TypeOK
  BY TypeInit
<1>2. LockInv
  BY ConstantsAssumption DEF Init, LockInv, Critical, Naming, Handover, Leaving
<1>3. LoopInv
  BY DEF Init, LoopInv, Naming, Handover
<1>4. VictimInv
  BY DEF Init, VictimInv
<1>5. StartInv
  BY ConstantsAssumption, AliasTypes DEF Init, StartInv
<1>6. IdentityInv
  BY AliasTypes DEF Init, IdentityInv, FreshSession
<1>7. HolderInv /\ CleanInv
  BY DEF Init, HolderInv, CleanInv, Leaving
<1> QED
  BY <1>1, <1>2, <1>3, <1>4, <1>5, <1>6, <1>7 DEF IInv

LEMMA InvStep == IInv /\ [Next]_vars => IInv'
  BY TypeStep, LockStep, LoopStep, VictimStep, StartStep, IdentityInvStep, HolderStep,
     CleanStep DEF IInv

(* Every reachable state is well typed, and the invariant behind the links    *)
(* holds: the lock is exclusive, a name found is a name held, the collector  *)
(* and the cleanups only remove what is dead or their own.                   *)
THEOREM Invariance == Spec => []IInv
  BY InvInit, InvStep, PTL DEF Spec

THEOREM TypeCorrect == Spec => []TypeOK
<1>1. IInv => TypeOK
  BY DEF IInv
<1> QED
  BY <1>1, Invariance, PTL

(* A step that moves a name away from a running daemon is that daemon's own, *)
(* or hands the name to a holder of the same identity.                       *)
LEMMA NameMove ==
  ASSUME IInv, [Next]_vars, NEW n \in Names, Resolves(Named(n)),
         dir'[Named(n)] # dir[Named(n)]
  PROVE  \/ lock = dir[Named(n)]
         \/ /\ dir'[Named(n)] # None
            /\ ses[dir[Named(n)]].ident # None
            /\ ses[dir'[Named(n)]].ident = ses[dir[Named(n)]].ident
<1> DEFINE a == Named(n)
           t == dir[a]
<1> USE DEF IInv, TypeOK
<1>0. a \in Alias /\ t \in Daemons /\ t \in sock /\ Running(t) /\ None \notin Hosts \cup Daemons
  BY AliasTypes, ConstantsAssumption DEF Resolves
<1>1. PICK x \in Daemons : Daemon(x)
  BY <1>0, Actors, MainDir DEF VictimInv
<1>2. pc[x] \in Critical /\ lock = x
  BY <1>0, <1>1, DaemonDir, AliasDistinct DEF LockInv
<1>3. CASE x = t
  BY <1>2, <1>3
<1>4. ASSUME x # t, TakeOverName(x)
      PROVE  dir'[a] # None /\ ses[t].ident # None /\ ses[dir'[a]].ident = ses[t].ident
  <2>1. Candidate(x) \in Names /\ Named(Candidate(x)) \in Alias
    BY <1>4, CandidateTyped, AliasTypes DEF TakeOverName, Naming
  <2>2. n = Candidate(x) /\ dir'[a] = x
    BY <1>0, <1>4, <2>1, AliasDistinct DEF TakeOverName, Replace
  <2>3. t = ses[x].prev
    BY <1>4, <2>2 DEF TakeOverName, OwnsName
  <2>4. ses[x].ident \in Hosts /\ ses[t].ident = ses[x].ident
    BY <1>0, <2>3 DEF IdentityInv, IsHeir
  <2> QED
    BY <1>0, <2>2, <2>4
<1>5. ASSUME x # t PROVE TakeOverName(x)
  <2>1. ~ (StartUp(x) \/ Message(x) \/ Exit(x) \/ Crash(x) \/ Kill(x))
    BY <1>2 DEF StartUp, Bind, Listen, LinkRandomRo, EnterJail, Message, RequestIdentity,
       Ready, DeferName, BeginName, BeginIdentity, Exit, Crash, Kill, Die, Critical,
       Naming, Handover, Leaving
  <2>2. ~ IdentityStep(x)
    BY <1>0, <1>5, AliasDistinct DEF IdentityStep, InstallStableRw, InstallStableRo,
       FinishIdentity, Replace, RemoveOwned, PointsTo
  <2>3. ~ ReclaimName(x)
    <3>1. ASSUME ReclaimName(x) PROVE n = Candidate(x)
      BY <1>0, <3>1, AliasDistinct DEF ReclaimName
    <3> QED
      BY <1>0, <3>1 DEF ReclaimName, Dangling
  <2>4. ~ ClaimName(x)
    <3>1. ASSUME ClaimName(x) PROVE n = Candidate(x)
      BY <1>0, <3>1, AliasDistinct DEF ClaimName, Symlink
    <3> QED
      BY <1>0, <3>1 DEF ClaimName, Symlink
  <2>5. ~ NextName(x)
    BY DEF NextName
  <2>6. ~ \E p \in Hosts \cup Pins : LinkNamedRw(x, p)
    <3>1. SUFFICES ASSUME NEW p \in Hosts \cup Pins, LinkNamedRw(x, p) PROVE FALSE
      OBVIOUS
    <3>2. dir[Named(Candidate(x))] = x
      BY <3>1 DEF HolderInv, LinkNamedRw
    <3>3. n # Candidate(x)
      BY <1>5, <3>2
    <3> QED
      BY <1>0, <3>1, <3>3, AliasDistinct, LinkNamedRwStep
  <2>7. ~ LinkNamedRo(x) /\ ~ FinishName(x)
    BY <1>0, <1>5, AliasDistinct DEF LinkNamedRo, FinishName, Replace, RemoveOwned, PointsTo
  <2>8. ~ ExitStep(x)
    BY <1>0, <1>5 DEF ExitStep, ExitLock, CleanTest, CleanUnlink, ExitDone, CleanInv, PointsTo
  <2> QED
    BY <1>1, <2>1, <2>2, <2>3, <2>4, <2>5, <2>6, <2>7, <2>8 DEF Daemon, NameStep
<1> QED
  BY <1>3, <1>4, <1>5

(* No daemon loses its name while it serves, except to its own host's next   *)
(* connection, whatever the collector, the cleanups and the crashes of other *)
(* daemons do in between.                                                    *)
THEOREM LiveNames == Spec => LiveNameKept
<1>1. IInv /\ [Next]_vars =>
        [\A n \in Names :
           LET a == Named(n)
               t == dir[a]
           IN  Resolves(a) /\ dir'[a] # t =>
                 \/ lock = t
                 \/ /\ dir'[a] # None
                    /\ ses[t].ident # None
                    /\ ses[dir'[a]].ident = ses[t].ident]_vars
  BY NameMove
<1> QED
  BY <1>1, Invariance, PTL DEF Spec, LiveNameKept
=============================================================================
