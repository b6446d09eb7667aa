------------------------ MODULE SessionDirLinkProofs ------------------------
(***************************************************************************)
(* Proofs about the links of SessionDir: they lead to the daemons that     *)
(* handed them out, nobody takes them away, nothing is left of them, and   *)
(* the directory implements LinkService.                                   *)
(***************************************************************************)
EXTENDS SessionDirProofs

-----------------------------------------------------------------------------
(* What each step of a daemon does to it, field by field.                   *)

(* Nothing but pc and the directory changes. *)
SameLinks(d) ==
  /\ ses'[d].ident = ses[d].ident /\ ses'[d].prev = ses[d].prev
  /\ ses'[d].ro = ses[d].ro /\ ses'[d].named = ses[d].named /\ ses'[d].rw = ses[d].rw

SameName(d) == ses'[d].pending = ses[d].pending /\ ses'[d].asked = ses[d].asked

LEMMA StartUpStep ==
  ASSUME TypeOK, NEW d \in Daemons, StartUp(d)
  PROVE  /\ UNCHANGED <<lock, victims, gc>>
         /\ \/ /\ pc[d] = "new" /\ pc'[d] = "bound" /\ sock' = sock \cup {d}
               /\ ses'[d] = ses[d] /\ dir' = dir
            \/ /\ pc[d] = "bound" /\ pc'[d] = "listening" /\ sock' = sock
               /\ ses'[d] = ses[d] /\ dir' = dir
            \/ /\ pc[d] = "listening" /\ pc'[d] = "linked" /\ sock' = sock
               /\ ses'[d] = [ses[d] EXCEPT !.ro = RandomRo(d)]
               /\ dir' = [dir EXCEPT ![RandomRo(d)] = d]
            \/ /\ pc[d] = "linked" /\ pc'[d] = "up" /\ sock' = sock
               /\ ses'[d] = ses[d] /\ dir' = dir
  BY DEF TypeOK, StartUp, Bind, Listen, LinkRandomRo, EnterJail, gcVars

LEMMA MessageStep ==
  ASSUME TypeOK, NEW d \in Daemons, Message(d)
  PROVE  /\ pc[d] = "up" /\ UNCHANGED <<sock, dir, victims, gc>>
         /\ ses'[d].ro = ses[d].ro /\ ses'[d].named = ses[d].named /\ ses'[d].rw = ses[d].rw
         /\ \/ /\ pc'[d] = "up" /\ lock' = lock /\ SameLinks(d)
               /\ \/ SameName(d)
                  \/ /\ ses[d].asked < MaxNames /\ ses'[d].asked = ses[d].asked + 1
                     /\ ses'[d].pending \in Names
            \/ /\ pc'[d] = "try" /\ lock = None /\ lock' = d /\ SameLinks(d)
               /\ ses[d].asked < MaxNames /\ ses'[d].asked = ses[d].asked + 1
               /\ ses'[d].pending = ses[d].pending
               /\ ses'[d].at = 1 /\ ses'[d].base \in Names
            \/ /\ pc'[d] = "id_rw" /\ lock = None /\ lock' = d /\ SameName(d)
               /\ ses[d].ident = None
               /\ \E h \in Hosts : ses'[d].ident = h /\ ses'[d].prev = dir[StableRw(h)]
<1> USE DEF TypeOK, Session, SameLinks, SameName, gcVars
<1>1. CASE RequestIdentity(d) \/ Ready(d)
  BY <1>1 DEF RequestIdentity, Ready
<1>2. ASSUME NEW n \in Names, DeferName(d, n)
      PROVE  /\ pc[d] = "up" /\ UNCHANGED <<sock, dir, victims, gc>>
             /\ pc'[d] = "up" /\ lock' = lock /\ SameLinks(d)
             /\ ses[d].asked < MaxNames /\ ses'[d].asked = ses[d].asked + 1
             /\ ses'[d].pending \in Names
  BY <1>2 DEF DeferName
<1>3. ASSUME NEW n \in Names, BeginName(d, n)
      PROVE  /\ pc[d] = "up" /\ UNCHANGED <<sock, dir, victims, gc>>
             /\ pc'[d] = "try" /\ lock = None /\ lock' = d /\ SameLinks(d)
             /\ ses[d].asked < MaxNames /\ ses'[d].asked = ses[d].asked + 1
             /\ ses'[d].pending = ses[d].pending
             /\ ses'[d].at = 1 /\ ses'[d].base \in Names
  BY <1>3 DEF BeginName
<1>4. ASSUME NEW h \in Hosts, BeginIdentity(d, h)
      PROVE  /\ pc[d] = "up" /\ UNCHANGED <<sock, dir, victims, gc>>
             /\ pc'[d] = "id_rw" /\ lock = None /\ lock' = d /\ SameName(d)
             /\ ses[d].ident = None
             /\ ses'[d].ident = h /\ ses'[d].prev = dir[StableRw(h)]
             /\ ses'[d].ro = ses[d].ro /\ ses'[d].named = ses[d].named
             /\ ses'[d].rw = ses[d].rw
  BY <1>4 DEF BeginIdentity
<1> QED
  BY <1>1, <1>2, <1>3, <1>4 DEF Message

LEMMA InstallStep ==
  ASSUME TypeOK, LoopInv, NEW d \in Daemons, InstallStableRw(d) \/ InstallStableRo(d)
  PROVE  /\ ses'[d] = ses[d] /\ UNCHANGED <<sock, lock, victims, gc>> /\ ses[d].ident \in Hosts
         /\ \/ /\ pc[d] = "id_rw" /\ pc'[d] = "id_ro"
               /\ dir' = [dir EXCEPT ![StableRw(ses[d].ident)] = d]
            \/ /\ pc[d] = "id_ro" /\ pc'[d] = "id_old"
               /\ dir' = [dir EXCEPT ![StableRo(ses[d].ident)] = d]
  BY DEF TypeOK, LoopInv, Handover, InstallStableRw, InstallStableRo, Replace, gcVars

LEMMA FinishIdentityStep ==
  ASSUME TypeOK, LoopInv, NEW d \in Daemons, FinishIdentity(d)
  PROVE  /\ pc[d] = "id_old" /\ UNCHANGED <<sock, victims, gc>>
         /\ ses[d].ident \in Hosts
         /\ IF ses[d].pending = None THEN pc'[d] = "up" /\ lock' = None
                                     ELSE pc'[d] = "try" /\ lock' = d
         /\ ses'[d].ident = ses[d].ident /\ ses'[d].prev = ses[d].prev
         /\ ses'[d].named = ses[d].named /\ ses'[d].rw = ses[d].rw
         /\ ses'[d].ro = StableRo(ses[d].ident)
         /\ ses'[d].pending = None /\ ses'[d].asked = ses[d].asked
         /\ ses'[d].base = ses[d].pending /\ ses'[d].at = 1
         /\ dir' = IF PointsTo(ses[d].ro, d) THEN [dir EXCEPT ![ses[d].ro] = None] ELSE dir
  BY DEF TypeOK, Session, LoopInv, Handover, FinishIdentity, RemoveOwned, gcVars

(* A link is pointed at the daemon that names itself, or cleared. *)
LEMMA TryStep ==
  ASSUME TypeOK, LoopInv, NEW d \in Daemons, TakeOverName(d) \/ ReclaimName(d) \/ ClaimName(d)
  PROVE  /\ pc[d] = "try" /\ ses'[d] = ses[d] /\ UNCHANGED <<sock, lock, victims, gc>>
         /\ Candidate(d) \in Names /\ Candidate(d)' = Candidate(d)
         /\ \/ /\ pc'[d] = "link_rw" /\ dir' = [dir EXCEPT ![Named(Candidate(d))] = d]
               /\ dir[Named(Candidate(d))] = None \/ OwnsName(d, Candidate(d))
            \/ /\ pc'[d] = "try" /\ Dangling(Named(Candidate(d)))
               /\ dir' = [dir EXCEPT ![Named(Candidate(d))] = None,
                                     ![NamedRo(Candidate(d))] = None]
<1>1. pc[d] = "try" /\ ses' = ses
  BY DEF TakeOverName, ReclaimName, ClaimName
<1>2. Candidate(d) \in Names /\ Candidate(d)' = Candidate(d)
  BY <1>1, CandidateTyped DEF Naming, Candidate, Candidates
<1> QED
  BY <1>1, <1>2 DEF TypeOK, TakeOverName, ReclaimName, ClaimName, Symlink, Replace, gcVars

LEMMA GaveUp ==
  ASSUME TypeOK, NEW d \in Daemons, GiveUpName(d)
  PROVE  pc'[d] = "up" /\ lock' = None /\ SameLinks(d) /\ SameName(d)
  BY DEF GiveUpName, TypeOK, Session, SameLinks, SameName

LEMMA NextStep ==
  ASSUME TypeOK, LoopInv, NEW d \in Daemons, NextName(d)
  PROVE  /\ pc[d] = "try" /\ UNCHANGED <<sock, dir, victims, gc>>
         /\ SameLinks(d) /\ SameName(d)
         /\ \/ pc'[d] = "up" /\ lock' = None
            \/ /\ pc'[d] = "try" /\ lock' = lock
               /\ ses'[d].base = ses[d].base /\ ses'[d].at = ses[d].at + 1
               /\ ~OwnsName(d, Candidate(d)) /\ dir[Named(Candidate(d))] # None
<1>1. CASE GiveUpName(d)
  BY <1>1, GaveUp DEF NextName, gcVars
<1>2. CASE ses' = [ses EXCEPT ![d].at = @ + 1] /\ UNCHANGED <<pc, lock>>
  BY <1>2 DEF NextName, TypeOK, Session, SameLinks, SameName, gcVars
<1> QED
  BY <1>1, <1>2 DEF NextName

LEMMA LinkRwStep ==
  ASSUME TypeOK, LoopInv, NEW d \in Daemons, NEW p \in Hosts \cup Pins, LinkNamedRw(d, p)
  PROVE  /\ pc[d] = "link_rw" /\ UNCHANGED <<sock, victims, gc>> /\ SameName(d)
         /\ Candidate(d) \in Names
         /\ ses'[d].ident = ses[d].ident /\ ses'[d].prev = ses[d].prev
         /\ ses'[d].ro = ses[d].ro /\ ses'[d].named = ses[d].named
         /\ IF ses[d].ident # None THEN p = ses[d].ident ELSE p \in Pins
         /\ \/ /\ pc'[d] = "link_ro" /\ lock' = lock /\ Candidate(d)' = Candidate(d)
               /\ ses[d].ident # None \/ dir[NamedRw(p, Candidate(d))] = None
               /\ ses'[d].rw = NamedRw(p, Candidate(d))
               /\ dir' = [dir EXCEPT ![NamedRw(p, Candidate(d))] = d]
            \/ /\ pc'[d] = "up" /\ lock' = None /\ ses'[d].rw = ses[d].rw
               /\ dir' = [dir EXCEPT ![Named(Candidate(d))] = None]
<1>1. pc[d] = "link_rw" /\ Candidate(d) \in Names
  BY CandidateTyped DEF LinkNamedRw, Naming
<1>2. CASE ses[d].ident # None \/ dir[NamedRw(p, Candidate(d))] = None
  <2>1. ses' = [ses EXCEPT ![d].rw = NamedRw(p, Candidate(d))]
    BY <1>2 DEF LinkNamedRw
  <2>2. /\ ses'[d].ident = ses[d].ident /\ ses'[d].prev = ses[d].prev
        /\ ses'[d].ro = ses[d].ro /\ ses'[d].named = ses[d].named
        /\ ses'[d].base = ses[d].base /\ ses'[d].at = ses[d].at
        /\ ses'[d].rw = NamedRw(p, Candidate(d)) /\ SameName(d)
    BY <2>1 DEF TypeOK, Session, SameName
  <2>3. Candidate(d)' = Candidate(d)
    BY <2>2 DEF Candidate, Candidates
  <2> QED
    BY <1>1, <1>2, <2>2, <2>3 DEF LinkNamedRw, Symlink, Replace, TypeOK, gcVars
<1>3. CASE ~ (ses[d].ident # None \/ dir[NamedRw(p, Candidate(d))] = None)
  BY <1>1, <1>3, GaveUp DEF LinkNamedRw, Symlink, SameLinks, gcVars
<1> QED
  BY <1>2, <1>3

LEMMA LinkRoStep ==
  ASSUME TypeOK, LoopInv, NEW d \in Daemons, LinkNamedRo(d)
  PROVE  /\ pc[d] = "link_ro" /\ pc'[d] = "drop_ro" /\ ses'[d] = ses[d]
         /\ UNCHANGED <<sock, lock, victims, gc>>
         /\ Candidate(d) \in Names /\ Candidate(d)' = Candidate(d)
         /\ dir' = [dir EXCEPT ![NamedRo(Candidate(d))] = d]
<1>1. pc[d] = "link_ro" /\ ses' = ses
  BY DEF LinkNamedRo
<1>2. Candidate(d) \in Names /\ Candidate(d)' = Candidate(d)
  BY <1>1, CandidateTyped DEF Naming, Candidate, Candidates
<1> QED
  BY <1>1, <1>2 DEF LinkNamedRo, Replace, TypeOK, gcVars

LEMMA FinishNameStep ==
  ASSUME TypeOK, LoopInv, NEW d \in Daemons, FinishName(d)
  PROVE  /\ pc[d] = "drop_ro" /\ pc'[d] = "up" /\ lock' = None
         /\ UNCHANGED <<sock, victims, gc>> /\ SameName(d)
         /\ Candidate(d) \in Names
         /\ ses'[d].ident = ses[d].ident /\ ses'[d].prev = ses[d].prev
         /\ ses'[d].rw = ses[d].rw
         /\ ses'[d].named = Candidate(d) /\ ses'[d].ro = NamedRo(Candidate(d))
         /\ dir' = IF ses[d].ident # None /\ ses[d].ro = StableRo(ses[d].ident)
                     THEN dir
                     ELSE IF PointsTo(ses[d].ro, d) THEN [dir EXCEPT ![ses[d].ro] = None]
                     ELSE dir
<1>1. pc[d] = "drop_ro" /\ Candidate(d) \in Names
  BY CandidateTyped DEF FinishName, Naming
<1>2. ses' = [ses EXCEPT ![d] = [ses[d] EXCEPT !.named = Candidate(d),
                                   !.ro = NamedRo(Candidate(d)), !.base = None, !.at = 1]]
  BY DEF FinishName
<1>3. /\ SameName(d) /\ ses'[d].ident = ses[d].ident /\ ses'[d].prev = ses[d].prev
      /\ ses'[d].rw = ses[d].rw
      /\ ses'[d].named = Candidate(d) /\ ses'[d].ro = NamedRo(Candidate(d))
  BY <1>2 DEF TypeOK, Session, SameName
<1> QED
  BY <1>1, <1>3 DEF FinishName, RemoveOwned, TypeOK, gcVars

LEMMA ExitStepStep ==
  ASSUME TypeOK, CleanInv, NEW d \in Daemons, Exit(d) \/ ExitStep(d)
  PROVE  /\ UNCHANGED <<victims, gc>>
         /\ \/ /\ pc[d] = "up" /\ pc'[d] = "exit" /\ ses'[d] = ses[d] /\ lock' = lock
               /\ sock' = sock \ {d} /\ dir' = dir
            \/ /\ pc[d] = "exit" /\ pc'[d] = "clean" /\ SameLinks(d) /\ SameName(d)
               /\ ses'[d].at = 1
               /\ lock = None /\ lock' = d /\ UNCHANGED <<sock, dir>>
            \/ /\ pc[d] = "clean" /\ UNCHANGED <<sock, dir, lock>> /\ SameLinks(d) /\ SameName(d)
               /\ ses[d].at <= Len(CleanupList(d))
               /\ \/ pc'[d] = "unlink" /\ ses'[d].at = ses[d].at
                  \/ /\ pc'[d] = "clean" /\ ses'[d].at = ses[d].at + 1
                     /\ ~PointsTo(CleanupList(d)[ses[d].at], d)
            \/ /\ pc[d] = "unlink" /\ pc'[d] = "clean" /\ SameLinks(d) /\ SameName(d)
               /\ ses'[d].at = ses[d].at + 1 /\ UNCHANGED <<sock, lock>>
               /\ dir' = [dir EXCEPT ![CleanupList(d)[ses[d].at]] = None]
            \/ /\ pc[d] = "clean" /\ pc'[d] = "gone" /\ ses'[d] = FreshSession
               /\ ses[d].at > Len(CleanupList(d))
               /\ lock' = None /\ UNCHANGED <<sock, dir>>
<1> USE DEF TypeOK, Session, SameLinks, SameName, gcVars
<1>1. CASE Exit(d)
  BY <1>1 DEF Exit
<1>2. CASE ExitLock(d)
  BY <1>2 DEF ExitLock
<1>3. CASE CleanTest(d)
  <2>1. CASE PointsTo(CleanupList(d)[ses[d].at], d)
    BY <1>3, <2>1 DEF CleanTest
  <2>2. CASE ~PointsTo(CleanupList(d)[ses[d].at], d)
    <3>1. ses' = [ses EXCEPT ![d].at = @ + 1] /\ pc' = pc
      BY <1>3, <2>2 DEF CleanTest
    <3> QED
      BY <1>3, <2>2, <3>1 DEF CleanTest
  <2> QED
    BY <2>1, <2>2
<1>4. CASE CleanUnlink(d)
  BY <1>4 DEF CleanUnlink
<1>5. CASE ExitDone(d)
  BY <1>5 DEF ExitDone
<1> QED
  BY <1>1, <1>2, <1>3, <1>4, <1>5 DEF ExitStep

LEMMA EndStep ==
  ASSUME TypeOK, NEW d \in Daemons, Crash(d) \/ Kill(d)
  PROVE  /\ pc'[d] = "dead" /\ ses'[d] = FreshSession /\ dir' = dir
         /\ lock' = IF lock = d THEN None ELSE lock
         /\ UNCHANGED <<victims, gc>> /\ sock' \in {sock, sock \ {d}}
         /\ pc[d] \notin {"new", "gone", "dead"}
  BY DEF TypeOK, Crash, Kill, Die, gcVars, Serving, Leaving, Naming, Handover

LEMMA DaemonCases ==
  ASSUME NEW d, Daemon(d)
  PROVE  \/ StartUp(d) \/ Message(d) \/ (InstallStableRw(d) \/ InstallStableRo(d))
         \/ FinishIdentity(d) \/ (TakeOverName(d) \/ ReclaimName(d) \/ ClaimName(d))
         \/ NextName(d) \/ (\E p \in Hosts \cup Pins : LinkNamedRw(d, p)) \/ LinkNamedRo(d)
         \/ FinishName(d) \/ (Exit(d) \/ ExitStep(d)) \/ (Crash(d) \/ Kill(d))
  BY DEF Daemon, IdentityStep, NameStep

(* Whoever does not step keeps what it remembers.                            *)
LEMMA OthersKeep ==
  ASSUME TypeOK, [Next]_vars, NEW e \in Daemons, ~Daemon(e)
  PROVE  pc'[e] = pc[e] /\ ses'[e] = ses[e] /\ Candidate(e)' = Candidate(e)
<1>1. pc'[e] = pc[e] /\ ses'[e] = ses[e]
  BY ActorFrame, MainFrame, Actors
<1> QED
  BY <1>1 DEF Candidate, Candidates

-----------------------------------------------------------------------------
(* What daemons remember.                                                   *)

LEMMA NoneApart ==
  /\ None \notin Daemons /\ None \notin Hosts /\ None \notin Names /\ None \notin Pins
  /\ Hosts \cap Pins = {} /\ Gc \notin Daemons /\ Gc # None
  BY ConstantsAssumption

(* The other entries of the directory are different, too. *)
LEMMA RoDistinct ==
  /\ \A m, n : NamedRo(m) = NamedRo(n) => m = n
  /\ \A g, h : StableRo(g) = StableRo(h) => g = h
  /\ \A h, n : StableRo(h) # NamedRo(n)
  /\ \A p, m, q, n : NamedRw(p, m) = NamedRw(q, n) => p = q /\ m = n
  /\ \A x, p, m : StableRo(x) # NamedRw(p, m) /\ NamedRo(x) # NamedRw(p, m)
  BY DEF RandomRo, StableRo, NamedRo, NamedRw

LEMMA FreshStep ==
  TypeOK /\ LoopInv /\ CleanInv /\ FreshInv /\ [Next]_vars => FreshInv'
<1> SUFFICES ASSUME TypeOK, LoopInv, CleanInv, FreshInv, [Next]_vars, NEW d \in Daemons
             PROVE  /\ pc'[d] \in {"new", "bound", "listening", "gone", "dead"} =>
                         ses'[d] = FreshSession
                    /\ pc'[d] = "linked" => ses'[d] = [FreshSession EXCEPT !.ro = RandomRo(d)]
  BY DEF FreshInv
<1> USE DEF FreshInv
<1>1. CASE ~Daemon(d)
  BY <1>1, OthersKeep
<1>2. CASE StartUp(d)
  BY <1>2, StartUpStep
<1>3. CASE Message(d)
  BY <1>3, MessageStep
<1>4. CASE (InstallStableRw(d) \/ InstallStableRo(d)) \/ FinishIdentity(d)
  BY <1>4, InstallStep, FinishIdentityStep
<1>5. CASE (TakeOverName(d) \/ ReclaimName(d) \/ ClaimName(d)) \/ NextName(d)
  BY <1>5, TryStep, NextStep
<1>6. CASE \E p \in Hosts \cup Pins : LinkNamedRw(d, p)
  BY <1>6, LinkRwStep
<1>7. CASE LinkNamedRo(d) \/ FinishName(d)
  BY <1>7, LinkRoStep, FinishNameStep
<1>8. CASE Exit(d) \/ ExitStep(d)
  BY <1>8, ExitStepStep
<1>9. CASE Crash(d) \/ Kill(d)
  BY <1>9, EndStep
<1> QED
  BY <1>1, <1>2, <1>3, <1>4, <1>5, <1>6, <1>7, <1>8, <1>9, DaemonCases

LEMMA RoStep ==
  TypeOK /\ LoopInv /\ CleanInv /\ FreshInv /\ RoInv /\ [Next]_vars => RoInv'
<1> DEFINE Good(d) ==
      \/ ses[d].ro \in {None, RandomRo(d)}
      \/ ses[d].named \in Names /\ ses[d].ro = NamedRo(ses[d].named)
      \/ /\ ses[d].ident \in Hosts /\ pc[d] \notin Handover
         /\ ses[d].ro = StableRo(ses[d].ident)
<1> SUFFICES ASSUME TypeOK, LoopInv, CleanInv, FreshInv, RoInv, [Next]_vars, NEW d \in Daemons
             PROVE  Good(d)'
  BY DEF RoInv
<1>0. Good(d)
  BY DEF RoInv
<1> USE <1>0 DEF Handover
<1>1. CASE ~Daemon(d)
  BY <1>1, OthersKeep
<1>2. CASE StartUp(d)
  <2>1. ses'[d] = ses[d] \/ ses'[d] = [FreshSession EXCEPT !.ro = RandomRo(d)]
    BY <1>2, StartUpStep DEF FreshInv
  <2>2. pc'[d] \notin Handover
    BY <1>2, StartUpStep
  <2> QED
    BY <2>1, <2>2 DEF FreshSession
<1>3. CASE Message(d)
  BY <1>3, MessageStep, NoneApart DEF SameLinks
<1>4. CASE InstallStableRw(d) \/ InstallStableRo(d)
  BY <1>4, InstallStep
<1>5. CASE FinishIdentity(d)
  BY <1>5, FinishIdentityStep
<1>6. CASE (TakeOverName(d) \/ ReclaimName(d) \/ ClaimName(d)) \/ NextName(d)
  BY <1>6, TryStep, NextStep DEF SameLinks
<1>7. CASE \E p \in Hosts \cup Pins : LinkNamedRw(d, p)
  BY <1>7, LinkRwStep
<1>8. CASE LinkNamedRo(d) \/ FinishName(d)
  BY <1>8, LinkRoStep, FinishNameStep
<1>9. CASE Exit(d) \/ ExitStep(d)
  BY <1>9, ExitStepStep DEF SameLinks, FreshSession
<1>10. CASE Crash(d) \/ Kill(d)
  BY <1>10, EndStep DEF FreshSession
<1> QED
  BY <1>1, <1>2, <1>3, <1>4, <1>5, <1>6, <1>7, <1>8, <1>9, <1>10, DaemonCases

LEMMA RwStep ==
  TypeOK /\ LoopInv /\ CleanInv /\ FreshInv /\ RwInv /\ [Next]_vars => RwInv'
<1> DEFINE Good(d) == ses[d].rw # None =>
      \E p \in Hosts \cup Pins :
        /\ p \in Hosts => ses[d].ident = p
        /\ IF pc[d] \in {"link_ro", "drop_ro"}
             THEN ses[d].rw = NamedRw(p, Candidate(d))
             ELSE ses[d].named \in Names /\ ses[d].rw = NamedRw(p, ses[d].named)
<1> SUFFICES ASSUME TypeOK, LoopInv, CleanInv, FreshInv, RwInv, [Next]_vars, NEW d \in Daemons
             PROVE  Good(d)'
  BY DEF RwInv
<1>0. Good(d)
  BY DEF RwInv
<1> USE <1>0
<1>1. CASE ~Daemon(d)
  BY <1>1, OthersKeep
<1>2. CASE StartUp(d)
  <2>1. ses'[d] = ses[d] \/ ses'[d] = [FreshSession EXCEPT !.ro = RandomRo(d)]
    BY <1>2, StartUpStep DEF FreshInv
  <2>2. pc'[d] \notin {"link_ro", "drop_ro"} /\ pc[d] \notin {"link_ro", "drop_ro"}
    BY <1>2, StartUpStep
  <2> QED
    BY <2>1, <2>2 DEF FreshSession
<1>3. CASE Message(d)
  <2>1. /\ pc[d] = "up" /\ pc'[d] \notin {"link_ro", "drop_ro"}
        /\ ses'[d].rw = ses[d].rw /\ ses'[d].named = ses[d].named
        /\ ses[d].ident = None \/ ses'[d].ident = ses[d].ident
    BY <1>3, MessageStep DEF SameLinks
  <2> QED
    BY <2>1, NoneApart
<1>4. CASE InstallStableRw(d) \/ InstallStableRo(d)
  BY <1>4, InstallStep
<1>5. CASE FinishIdentity(d)
  BY <1>5, FinishIdentityStep
<1>6. CASE (TakeOverName(d) \/ ReclaimName(d) \/ ClaimName(d)) \/ NextName(d)
  BY <1>6, TryStep, NextStep DEF SameLinks
<1>7. CASE \E p \in Hosts \cup Pins : LinkNamedRw(d, p)
  <2>1. PICK p \in Hosts \cup Pins : LinkNamedRw(d, p)
    BY <1>7
  <2>2. p \in Hosts => ses'[d].ident = p
    BY <2>1, LinkRwStep, NoneApart
  <2> QED
    BY <2>1, <2>2, LinkRwStep
<1>8. CASE LinkNamedRo(d)
  BY <1>8, LinkRoStep
<1>9. CASE FinishName(d)
  BY <1>9, FinishNameStep
<1>10. CASE Exit(d) \/ ExitStep(d)
  BY <1>10, ExitStepStep DEF SameLinks, FreshSession
<1>11. CASE Crash(d) \/ Kill(d)
  BY <1>11, EndStep DEF FreshSession
<1> QED
  BY <1>1, <1>2, <1>3, <1>4, <1>5, <1>6, <1>7, <1>8, <1>9, <1>10, <1>11, DaemonCases

-----------------------------------------------------------------------------
(* The aliases of an identity.                                              *)

(* A daemon takes over an identity only if it has none. *)
LEMMA EntersHandover ==
  ASSUME TypeOK, LoopInv, CleanInv, [Next]_vars, NEW d \in Daemons, pc'[d] = "id_rw"
  PROVE  pc[d] = "id_rw" \/ (pc[d] = "up" /\ ses[d].ident = None)
<1>1. CASE ~Daemon(d)
  BY <1>1, OthersKeep
<1>2. CASE StartUp(d) \/ Message(d) \/ (InstallStableRw(d) \/ InstallStableRo(d))
  BY <1>2, StartUpStep, MessageStep, InstallStep
<1>3. CASE FinishIdentity(d) \/ (TakeOverName(d) \/ ReclaimName(d) \/ ClaimName(d))
  BY <1>3, FinishIdentityStep, TryStep
<1>4. CASE NextName(d) \/ (\E p \in Hosts \cup Pins : LinkNamedRw(d, p)) \/ LinkNamedRo(d)
  BY <1>4, NextStep, LinkRwStep, LinkRoStep
<1>5. CASE FinishName(d) \/ (Exit(d) \/ ExitStep(d)) \/ (Crash(d) \/ Kill(d))
  BY <1>5, FinishNameStep, ExitStepStep, EndStep
<1> QED
  BY <1>1, <1>2, <1>3, <1>4, <1>5, DaemonCases

(* An heir has its identity already. *)
LEMMA HeirSettled ==
  ASSUME TypeOK, LoopInv, CleanInv, [Next]_vars, NEW t \in Daemons, NEW h \in Hosts,
         IsHeir(t, h), pc[t] # "id_rw"
  PROVE  pc'[t] # "id_rw"
  BY EntersHandover, NoneApart DEF IsHeir, Running, Serving

(* Which aliases a daemon changes, where it is then, and to what.           *)
Writes(d, a) ==
  \/ /\ pc[d] = "listening" /\ pc'[d] = "linked" /\ a = RandomRo(d) /\ dir'[a] = d
  \/ /\ pc[d] = "id_rw" /\ pc'[d] = "id_ro" /\ ses[d].ident \in Hosts
     /\ a = StableRw(ses[d].ident) /\ dir'[a] = d
  \/ /\ pc[d] = "id_ro" /\ pc'[d] = "id_old" /\ ses[d].ident \in Hosts
     /\ a = StableRo(ses[d].ident) /\ dir'[a] = d
  \/ pc[d] \in {"id_old", "drop_ro"} /\ a = ses[d].ro /\ dir[a] = d /\ dir'[a] = None
  \/ /\ pc[d] = "try" /\ pc'[d] = "link_rw" /\ a = Named(Candidate(d)) /\ dir'[a] = d
     /\ dir[a] = None \/ OwnsName(d, Candidate(d))
  \/ /\ pc[d] = "try" /\ pc'[d] = "try" /\ Dangling(Named(Candidate(d)))
     /\ a \in {Named(Candidate(d)), NamedRo(Candidate(d))} /\ dir'[a] = None
  \/ /\ pc[d] = "link_rw" /\ pc'[d] = "link_ro" /\ dir'[a] = d
     /\ \E p \in Hosts \cup Pins :
          /\ a = NamedRw(p, Candidate(d))
          /\ IF ses[d].ident # None THEN p = ses[d].ident ELSE p \in Pins /\ dir[a] = None
  \/ /\ pc[d] = "link_rw" /\ pc'[d] = "up" /\ a = Named(Candidate(d)) /\ dir'[a] = None
  \/ /\ pc[d] = "link_ro" /\ pc'[d] = "drop_ro" /\ a = NamedRo(Candidate(d)) /\ dir'[a] = d
  \/ /\ pc[d] = "unlink" /\ pc'[d] = "clean" /\ a = CleanupList(d)[ses[d].at]
     /\ dir[a] = d /\ dir'[a] = None

LEMMA DaemonWrites ==
  ASSUME TypeOK, LoopInv, CleanInv, NEW d \in Daemons, Daemon(d),
         NEW a \in Alias, dir'[a] # dir[a]
  PROVE  Writes(d, a)
<1>0. dir \in [Alias -> Daemons \cup {None}]
  BY DEF TypeOK
<1>1. CASE StartUp(d)
  <2>1. \/ dir' = dir
        \/ pc[d] = "listening" /\ pc'[d] = "linked" /\ dir' = [dir EXCEPT ![RandomRo(d)] = d]
    BY <1>1, StartUpStep
  <2> QED
    BY <1>0, <2>1 DEF Writes
<1>2. CASE Message(d)
  BY <1>2, MessageStep
<1>3. CASE InstallStableRw(d) \/ InstallStableRo(d)
  BY <1>0, <1>3, InstallStep DEF Writes
<1>4. CASE FinishIdentity(d)
  BY <1>0, <1>4, FinishIdentityStep DEF Writes, PointsTo
<1>5. CASE TakeOverName(d) \/ ReclaimName(d) \/ ClaimName(d)
  BY <1>0, <1>5, TryStep DEF Writes
<1>6. CASE NextName(d)
  BY <1>6, NextStep
<1>7. CASE \E p \in Hosts \cup Pins : LinkNamedRw(d, p)
  <2>1. PICK p \in Hosts \cup Pins : LinkNamedRw(d, p)
    BY <1>7
  <2> QED
    BY <1>0, <2>1, LinkRwStep DEF Writes
<1>8. CASE LinkNamedRo(d)
  BY <1>0, <1>8, LinkRoStep DEF Writes
<1>9. CASE FinishName(d)
  BY <1>0, <1>9, FinishNameStep DEF Writes, PointsTo
<1>10. CASE Exit(d) \/ ExitStep(d)
  BY <1>0, <1>10, ExitStepStep DEF Writes, CleanInv, PointsTo
<1>11. CASE Crash(d) \/ Kill(d)
  BY <1>11, EndStep
<1> QED
  BY <1>1, <1>2, <1>3, <1>4, <1>5, <1>6, <1>7, <1>8, <1>9, <1>10, <1>11, DaemonCases

LEMMA StableRoDir ==
  ASSUME TypeOK, LoopInv, CleanInv, [Next]_vars, NEW h \in Hosts,
         dir'[StableRo(h)] # dir[StableRo(h)], dir'[StableRo(h)] # None
  PROVE  \E d \in Daemons : dir'[StableRo(h)] = d /\ pc[d] = "id_ro" /\ ses[d].ident = h
<1>0. StableRo(h) \in Alias
  BY AliasTypes
<1>1. PICK d \in Daemons : Daemon(d)
  BY <1>0, Actors, MainDir
<1>2. Writes(d, StableRo(h))
  BY <1>0, <1>1, DaemonWrites
<1> QED
  BY <1>2, AliasDistinct, RoDistinct DEF Writes

LEMMA SeatStep ==
  IInv /\ SeatInv /\ [Next]_vars => SeatInv'
<1> SUFFICES ASSUME IInv, SeatInv, [Next]_vars PROVE SeatInv'
  OBVIOUS
<1> USE DEF IInv
<1>0. dir \in [Alias -> Daemons \cup {None}] /\ dir' \in [Alias -> Daemons \cup {None}]
  BY InvStep DEF TypeOK
<1>1. ASSUME NEW h \in Hosts, dir'[StableRw(h)] # None PROVE pc'[dir'[StableRw(h)]] # "id_rw"
  <2>0. StableRw(h) \in Alias
    BY AliasTypes
  <2>1. CASE dir'[StableRw(h)] # dir[StableRw(h)]
    BY <1>1, <2>1, StableDir
  <2>2. CASE dir'[StableRw(h)] = dir[StableRw(h)]
    <3>1. dir[StableRw(h)] \in Daemons /\ IsHeir(dir[StableRw(h)], h)
      BY <1>0, <1>1, <2>0, <2>2 DEF IdentityInv
    <3>2. pc[dir[StableRw(h)]] # "id_rw"
      BY <1>1, <2>2 DEF SeatInv
    <3> QED
      BY <2>2, <3>1, <3>2, HeirSettled
  <2> QED
    BY <2>1, <2>2
<1>2. ASSUME NEW h \in Hosts, dir'[StableRo(h)] # None PROVE IsHeir(dir[StableRo(h)], h)'
  <2>0. StableRo(h) \in Alias
    BY AliasTypes
  <2>1. PICK t \in Daemons : dir'[StableRo(h)] = t /\ IsHeir(t, h)
    <3>1. CASE dir'[StableRo(h)] # dir[StableRo(h)]
      BY <1>2, <3>1, StableRoDir DEF IsHeir
    <3>2. CASE dir'[StableRo(h)] = dir[StableRo(h)]
      BY <1>0, <1>2, <2>0, <3>2 DEF SeatInv
    <3> QED
      BY <3>1, <3>2
  <2>2. IsHeir(t, h)'
    BY <2>1, HeirStep
  <2> QED
    BY <2>1, <2>2 DEF IsHeir, Running
<1>3. ASSUME NEW d \in Daemons
      PROVE  /\ pc'[d] \in {"id_ro", "id_old"} => dir'[StableRw(ses'[d].ident)] = d
             /\ pc'[d] = "id_old" => dir'[StableRo(ses'[d].ident)] = d
  <2>1. CASE ~Daemon(d)
    <3>1. pc'[d] = pc[d] /\ ses'[d] = ses[d]
      BY <2>1, OthersKeep
    <3>2. ASSUME pc[d] \in {"id_ro", "id_old"}
          PROVE  /\ ses[d].ident \in Hosts /\ pc[d] \in Critical /\ d # None
                 /\ StableRw(ses[d].ident) \in Alias /\ StableRo(ses[d].ident) \in Alias
      BY <3>2, AliasTypes, NoneApart DEF LoopInv, Handover, Critical
    <3>3. ASSUME pc[d] \in {"id_ro", "id_old"} PROVE dir'[StableRw(ses[d].ident)] = d
      BY <2>1, <3>2, <3>3, Exclusive DEF SeatInv
    <3>4. ASSUME pc[d] = "id_old" PROVE dir'[StableRo(ses[d].ident)] = d
      BY <2>1, <3>2, <3>4, Exclusive DEF SeatInv
    <3> QED
      BY <3>1, <3>3, <3>4
  <2>2. CASE StartUp(d) \/ Message(d) \/ FinishIdentity(d) \/ LinkNamedRo(d) \/ FinishName(d)
    BY <2>2, StartUpStep, MessageStep, FinishIdentityStep, LinkRoStep, FinishNameStep
  <2>3. CASE InstallStableRw(d) \/ InstallStableRo(d)
    <3>1. /\ StableRw(ses[d].ident) \in Alias /\ StableRo(ses[d].ident) \in Alias
          /\ ses'[d] = ses[d] /\ StableRw(ses[d].ident) # StableRo(ses[d].ident)
      BY <2>3, InstallStep, AliasTypes, AliasDistinct
    <3>2. \/ pc'[d] = "id_ro" /\ dir' = [dir EXCEPT ![StableRw(ses[d].ident)] = d]
          \/ /\ pc[d] = "id_ro" /\ pc'[d] = "id_old"
             /\ dir' = [dir EXCEPT ![StableRo(ses[d].ident)] = d]
      BY <2>3, InstallStep
    <3> QED
      BY <1>0, <3>1, <3>2 DEF SeatInv
  <2>4. CASE (TakeOverName(d) \/ ReclaimName(d) \/ ClaimName(d)) \/ NextName(d)
    BY <2>4, TryStep, NextStep
  <2>5. CASE \E p \in Hosts \cup Pins : LinkNamedRw(d, p)
    BY <2>5, LinkRwStep
  <2>6. CASE (Exit(d) \/ ExitStep(d)) \/ (Crash(d) \/ Kill(d))
    BY <2>6, ExitStepStep, EndStep
  <2> QED
    BY <2>1, <2>2, <2>3, <2>4, <2>5, <2>6, DaemonCases
<1>4. ASSUME NEW d \in Daemons, ses'[d].prev # None
      PROVE  /\ pc'[ses'[d].prev] # "id_rw"
             /\ pc'[d] # "id_rw" => dir'[StableRw(ses'[d].ident)] # ses'[d].prev
  <2>1. ASSUME ses'[d].ident = ses[d].ident, ses'[d].prev = ses[d].prev
        PROVE  /\ pc'[ses'[d].prev] # "id_rw"
               /\ pc'[d] # "id_rw" => dir'[StableRw(ses'[d].ident)] # ses'[d].prev
    <3> DEFINE t == ses[d].prev
               h == ses[d].ident
    <3>1. t \in Daemons /\ h \in Hosts /\ IsHeir(t, h) /\ pc[t] # "id_rw"
      BY <1>4, <2>1, SessionField DEF IdentityInv, TypeOK, SeatInv
    <3>2. pc'[t] # "id_rw"
      BY <3>1, HeirSettled
    <3>3. ASSUME pc'[d] # "id_rw", dir'[StableRw(h)] = t PROVE FALSE
      <4>1. CASE dir'[StableRw(h)] # dir[StableRw(h)]
        BY <3>1, <3>3, <4>1, StableDir, NoneApart
      <4>2. CASE dir'[StableRw(h)] = dir[StableRw(h)]
        <5>1. pc[d] = "id_rw"
          BY <1>4, <2>1, <3>3, <4>2 DEF SeatInv
        <5>2. Daemon(d)
          BY <3>3, <5>1, OthersKeep
        <5>3. InstallStableRw(d)
          <6>1. ~ (StartUp(d) \/ Message(d) \/ FinishIdentity(d))
            BY <5>1, StartUpStep, MessageStep, FinishIdentityStep
          <6>2. ~ (NextName(d) \/ LinkNamedRo(d) \/ FinishName(d))
            BY <5>1, NextStep, LinkRoStep, FinishNameStep
          <6>3. ~ (TakeOverName(d) \/ ReclaimName(d) \/ ClaimName(d))
            BY <5>1, TryStep
          <6>4. ~ \E p \in Hosts \cup Pins : LinkNamedRw(d, p)
            BY <5>1, LinkRwStep
          <6>5. ~ (Exit(d) \/ ExitStep(d))
            BY <5>1, ExitStepStep
          <6>6. ~ (Crash(d) \/ Kill(d))
            BY <1>4, EndStep DEF FreshSession
          <6>7. ~ InstallStableRo(d)
            BY <5>1 DEF InstallStableRo
          <6> QED
            BY <5>2, <6>1, <6>2, <6>3, <6>4, <6>5, <6>6, <6>7, DaemonCases
        <5>4. dir'[StableRw(h)] = d
          BY <1>0, <3>1, <5>3, AliasTypes DEF InstallStableRw, Replace
        <5> QED
          BY <3>1, <3>3, <5>1, <5>4
      <4> QED
        BY <4>1, <4>2
    <3> QED
      BY <2>1, <3>2, <3>3
  <2>2. ASSUME NEW h \in Hosts, pc[d] = "up", ses[d].ident = None, pc'[d] = "id_rw",
               ses'[d].prev = dir[StableRw(h)]
        PROVE  pc'[ses'[d].prev] # "id_rw"
    <3>1. dir[StableRw(h)] \in Daemons /\ IsHeir(dir[StableRw(h)], h)
      BY <1>0, <1>4, <2>2, AliasTypes DEF IdentityInv
    <3>2. pc[dir[StableRw(h)]] # "id_rw"
      BY <1>4, <2>2 DEF SeatInv
    <3> QED
      BY <2>2, <3>1, <3>2, HeirSettled
  <2>3. CASE ~Daemon(d)
    BY <2>1, <2>3, OthersKeep
  <2>4. CASE Message(d)
    <3>1. \/ ses'[d].ident = ses[d].ident /\ ses'[d].prev = ses[d].prev
          \/ /\ pc[d] = "up" /\ ses[d].ident = None /\ pc'[d] = "id_rw"
             /\ \E h \in Hosts : ses'[d].prev = dir[StableRw(h)]
      BY <2>4, MessageStep DEF SameLinks
    <3> QED
      BY <2>1, <2>2, <3>1
  <2>5. CASE Daemon(d) /\ ~Message(d)
    <3>1. \/ ses'[d].ident = ses[d].ident /\ ses'[d].prev = ses[d].prev
          \/ ses'[d] = FreshSession
      <4>1. CASE StartUp(d)
        BY <4>1, StartUpStep DEF TypeOK, Session
      <4>2. CASE (InstallStableRw(d) \/ InstallStableRo(d)) \/ FinishIdentity(d)
        BY <4>2, InstallStep, FinishIdentityStep
      <4>3. CASE (TakeOverName(d) \/ ReclaimName(d) \/ ClaimName(d)) \/ NextName(d)
        BY <4>3, TryStep, NextStep DEF SameLinks
      <4>4. CASE (\E p \in Hosts \cup Pins : LinkNamedRw(d, p)) \/ LinkNamedRo(d) \/ FinishName(d)
        BY <4>4, LinkRwStep, LinkRoStep, FinishNameStep
      <4>5. CASE (Exit(d) \/ ExitStep(d)) \/ (Crash(d) \/ Kill(d))
        BY <4>5, ExitStepStep, EndStep DEF SameLinks
      <4> QED
        BY <2>5, <4>1, <4>2, <4>3, <4>4, <4>5, DaemonCases
    <3> QED
      BY <1>4, <2>1, <3>1 DEF FreshSession
  <2> QED
    BY <2>3, <2>4, <2>5
<1> QED
  BY <1>1, <1>2, <1>3, <1>4 DEF SeatInv

-----------------------------------------------------------------------------
(* The registration of a name.                                              *)

(* Links that lead to a daemon inside its critical section stay.            *)
LEMMA Kept ==
  ASSUME IInv, [Next]_vars, NEW d \in Daemons, pc[d] \in Critical, ~Daemon(d)
  PROVE  \A a \in Alias : dir[a] # None => dir'[a] = dir[a]
  BY Exclusive DEF IInv

LEMMA ProgressStep ==
  IInv /\ ProgressInv /\ [Next]_vars => ProgressInv'
<1> SUFFICES ASSUME IInv, ProgressInv, [Next]_vars, NEW d \in Daemons
             PROVE  /\ pc'[d] \in {"link_ro", "drop_ro"} =>
                         ses'[d].rw # None /\ dir'[ses'[d].rw] = d
                    /\ pc'[d] = "drop_ro" => dir'[NamedRo(Candidate(d)')] = d
  BY DEF ProgressInv, NamedRo
<1> USE DEF IInv
<1>0. dir \in [Alias -> Daemons \cup {None}] /\ ses[d].rw \in Alias \cup {None} /\ d # None
  BY SessionField, NoneApart DEF TypeOK
<1>1. CASE ~Daemon(d)
  <2>1. pc'[d] = pc[d] /\ ses'[d] = ses[d] /\ Candidate(d)' = Candidate(d)
    BY <1>1, OthersKeep
  <2>2. ASSUME pc[d] \in {"link_ro", "drop_ro"} PROVE ses[d].rw # None /\ dir'[ses[d].rw] = d
    BY <1>0, <1>1, <2>2, Kept DEF ProgressInv, Critical, Naming
  <2>3. ASSUME pc[d] = "drop_ro" PROVE dir'[NamedRo(Candidate(d))] = d
    <3>1. NamedRo(Candidate(d)) \in Alias
      BY <2>3, CandidateTyped, AliasTypes DEF Naming
    <3> QED
      BY <1>0, <1>1, <2>3, <3>1, Kept DEF ProgressInv, Critical, Naming
  <2> QED
    BY <2>1, <2>2, <2>3
<1>2. CASE \E p \in Hosts \cup Pins : LinkNamedRw(d, p)
  <2>1. PICK p \in Hosts \cup Pins : LinkNamedRw(d, p)
    BY <1>2
  <2>2. NamedRw(p, Candidate(d)) \in Alias
    BY <2>1, LinkRwStep, AliasTypes
  <2> QED
    BY <1>0, <2>1, <2>2, LinkRwStep, NoneAssumption
<1>3. CASE LinkNamedRo(d)
  <2>1. NamedRo(Candidate(d)) \in Alias
    BY <1>3, LinkRoStep, AliasTypes
  <2>2. ses[d].rw # None /\ dir[ses[d].rw] = d
    BY <1>3, LinkRoStep DEF ProgressInv
  <2> QED
    BY <1>0, <1>3, <2>1, <2>2, LinkRoStep
<1>4. CASE StartUp(d) \/ Message(d) \/ (InstallStableRw(d) \/ InstallStableRo(d))
  BY <1>4, StartUpStep, MessageStep, InstallStep
<1>5. CASE FinishIdentity(d) \/ (TakeOverName(d) \/ ReclaimName(d) \/ ClaimName(d))
  BY <1>5, FinishIdentityStep, TryStep
<1>6. CASE NextName(d) \/ FinishName(d)
  BY <1>6, NextStep, FinishNameStep
<1>7. CASE (Exit(d) \/ ExitStep(d)) \/ (Crash(d) \/ Kill(d))
  BY <1>7, ExitStepStep, EndStep
<1> QED
  BY <1>1, <1>2, <1>3, <1>4, <1>5, <1>6, <1>7, DaemonCases

(* No form tried before the candidate becomes free or the host's own.       *)
LEMMA NeedlessStep ==
  IInv /\ NoNeedlessNumber /\ [Next]_vars => NoNeedlessNumber'
<1> DEFINE Other(d, i) ==
      LET holder == dir[Named(NameAt[ses[d].base][i])]
      IN  holder # None /\ (ses[d].ident # None => holder \notin {ses[d].prev, d})
<1> SUFFICES ASSUME IInv, NoNeedlessNumber, [Next]_vars,
                    NEW d \in Daemons, pc'[d] \in Naming, NEW i \in 1..(ses'[d].at - 1)
             PROVE  Other(d, i)'
  BY DEF NoNeedlessNumber
<1> USE DEF IInv
<1>0. /\ dir \in [Alias -> Daemons \cup {None}] /\ d # None
      /\ ses[d].at \in Nat /\ ses'[d].at \in Nat /\ i \in Nat
      /\ \A j \in 1..(ses[d].at - 1) : pc[d] \in Naming => Other(d, j)
  BY InvStep, SessionField, NoneApart DEF TypeOK, NoNeedlessNumber
<1>1. ASSUME pc[d] \in Naming, i \in 1..ses[d].at
      PROVE  /\ ses[d].base \in Names /\ NameAt[ses[d].base][i] \in Names
             /\ Candidate(d) = NameAt[ses[d].base][ses[d].at]
             /\ NameAt[ses[d].base][i] = Candidate(d) => i = ses[d].at
             /\ Named(NameAt[ses[d].base][i]) \in Alias
  <2>1. ses[d].base \in Names /\ ses[d].at \in 1..Len(NameAt[ses[d].base])
    BY <1>1 DEF LoopInv
  <2>2. NameAt[ses[d].base] \in Seq(Names)
    BY <2>1, ConstantsAssumption
  <2>3. i \in 1..Len(NameAt[ses[d].base])
    BY <1>0, <1>1, <2>1, <2>2
  <2>4. NameAt[ses[d].base][i] = NameAt[ses[d].base][ses[d].at] => i = ses[d].at
    <3>1. \A n \in Names : \A k, j \in DOMAIN NameAt[n] : NameAt[n][k] = NameAt[n][j] => k = j
      BY ConstantsAssumption
    <3>2. DOMAIN NameAt[ses[d].base] = 1..Len(NameAt[ses[d].base])
      BY <2>2
    <3> QED
      BY <2>1, <2>3, <3>1, <3>2, Zenon
  <2> QED
    BY <2>1, <2>2, <2>3, <2>4, AliasTypes DEF Candidate, Candidates
<1>2. ASSUME pc[d] \in Naming, ses'[d].base = ses[d].base, ses'[d].at = ses[d].at,
             ses'[d].ident = ses[d].ident, ses'[d].prev = ses[d].prev,
             \A n \in Names : n # Candidate(d) /\ dir[Named(n)] # None =>
               dir'[Named(n)] = dir[Named(n)]
      PROVE  Other(d, i)'
  <2>1. i \in 1..(ses[d].at - 1) /\ i \in 1..ses[d].at /\ i # ses[d].at
    BY <1>0, <1>2
  <2> QED
    BY <1>0, <1>1, <1>2, <2>1
<1>3. CASE ~Daemon(d)
  <2>1. pc'[d] = pc[d] /\ ses'[d] = ses[d]
    BY <1>3, OthersKeep
  <2>2. \A n \in Names : dir[Named(n)] # None => dir'[Named(n)] = dir[Named(n)]
    BY <1>3, <2>1, Kept, AliasTypes DEF Critical
  <2> QED
    BY <1>2, <2>1, <2>2
<1>4. CASE Message(d) \/ FinishIdentity(d)
  <2>1. pc'[d] = "try" => ses'[d].at = 1
    BY <1>4, MessageStep, FinishIdentityStep
  <2>2. pc'[d] \in {"up", "try", "id_rw"}
    BY <1>4, MessageStep, FinishIdentityStep
  <2> QED
    BY <1>0, <2>1, <2>2 DEF Naming
<1>5. CASE TakeOverName(d) \/ ReclaimName(d) \/ ClaimName(d)
  <2>1. /\ pc[d] = "try" /\ ses'[d] = ses[d] /\ Candidate(d) \in Names
        /\ \/ dir' = [dir EXCEPT ![Named(Candidate(d))] = d]
           \/ dir' = [dir EXCEPT ![Named(Candidate(d))] = None, ![NamedRo(Candidate(d))] = None]
    BY <1>5, TryStep
  <2>2. \A n \in Names : n # Candidate(d) => dir'[Named(n)] = dir[Named(n)]
    BY <1>0, <2>1, AliasTypes, AliasDistinct
  <2> QED
    BY <1>2, <2>1, <2>2 DEF Naming
<1>6. CASE NextName(d)
  <2>1. /\ pc[d] = "try" /\ dir' = dir /\ SameLinks(d)
        /\ ses'[d].base = ses[d].base /\ ses'[d].at = ses[d].at + 1
        /\ ~OwnsName(d, Candidate(d)) /\ dir[Named(Candidate(d))] # None
    BY <1>6, NextStep DEF Naming
  <2>2. i \in 1..ses[d].at
    BY <1>0, <2>1
  <2>3. CASE i = ses[d].at
    BY <1>1, <2>1, <2>2, <2>3 DEF OwnsName, SameLinks, Naming
  <2>4. CASE i # ses[d].at
    <3>1. i \in 1..(ses[d].at - 1)
      BY <1>0, <2>2, <2>4
    <3> QED
      BY <1>0, <2>1, <3>1 DEF SameLinks, Naming
  <2> QED
    BY <2>3, <2>4
<1>7. CASE \E p \in Hosts \cup Pins : LinkNamedRw(d, p)
  <2>1. PICK p \in Hosts \cup Pins : LinkNamedRw(d, p)
    BY <1>7
  <2>2. ~GiveUpName(d)
    BY GiveUpStep DEF Naming
  <2>3. /\ pc[d] = "link_rw"
        /\ ses' = [ses EXCEPT ![d].rw = NamedRw(p, Candidate(d))]
        /\ dir' = [dir EXCEPT ![NamedRw(p, Candidate(d))] = d]
    BY <2>1, <2>2, LinkNamedRwStep
  <2>4. /\ ses'[d].base = ses[d].base /\ ses'[d].at = ses[d].at
        /\ ses'[d].ident = ses[d].ident /\ ses'[d].prev = ses[d].prev
    BY <2>3 DEF TypeOK, Session
  <2>5. \A n \in Names : dir'[Named(n)] = dir[Named(n)]
    BY <1>0, <2>3, AliasTypes, AliasDistinct
  <2> QED
    BY <1>2, <2>3, <2>4, <2>5 DEF Naming
<1>8. CASE LinkNamedRo(d)
  <2>1. \A n \in Names : dir'[Named(n)] = dir[Named(n)]
    BY <1>0, <1>8, LinkRoStep, AliasTypes, AliasDistinct
  <2> QED
    BY <1>2, <1>8, <2>1, LinkRoStep DEF Naming
<1>9. CASE StartUp(d) \/ (InstallStableRw(d) \/ InstallStableRo(d)) \/ FinishName(d)
  BY <1>9, StartUpStep, InstallStep, FinishNameStep DEF Naming
<1>10. CASE (Exit(d) \/ ExitStep(d)) \/ (Crash(d) \/ Kill(d))
  BY <1>10, ExitStepStep, EndStep DEF Naming
<1> QED
  BY <1>3, <1>4, <1>5, <1>6, <1>7, <1>8, <1>9, <1>10, DaemonCases

-----------------------------------------------------------------------------
LEMMA LinkInit == Init => LinkInv
<1> SUFFICES ASSUME Init PROVE LinkInv
  OBVIOUS
<1>1. IInv
  BY InvInit
<1>2. FreshInv /\ RoInv /\ RwInv
  BY DEF Init, FreshInv, RoInv, RwInv, FreshSession
<1>3. SeatInv
  BY AliasTypes DEF Init, SeatInv, FreshSession
<1>4. ProgressInv /\ NoNeedlessNumber
  BY DEF Init, ProgressInv, NoNeedlessNumber, Naming
<1> QED
  BY <1>1, <1>2, <1>3, <1>4 DEF LinkInv

LEMMA LinkStep == LinkInv /\ [Next]_vars => LinkInv'
  BY InvStep, FreshStep, RoStep, RwStep, SeatStep, ProgressStep, NeedlessStep
     DEF LinkInv, IInv

(* What daemons remember of their links agrees with the directory, whatever *)
(* the others, the collector and the crashes do in between.                 *)
THEOREM LinkInvariance == Spec => []LinkInv
  BY LinkInit, LinkStep, PTL DEF Spec

(* A host gets a numbered name only while every form tried before belongs to *)
(* another session, and never because of its own earlier connection.        *)
THEOREM NumbersNeeded == Spec => []NoNeedlessNumber
<1>1. LinkInv => NoNeedlessNumber
  BY DEF LinkInv
<1> QED
  BY <1>1, LinkInvariance, PTL

-----------------------------------------------------------------------------
(* The collector and the sockets.                                           *)

(* Who makes a socket and who takes it away.                                *)
LEMMA SockStep ==
  ASSUME TypeOK, LoopInv, CleanInv, [Next]_vars, NEW d \in Daemons
  PROVE  /\ d \in sock' /\ d \notin sock => pc[d] = "new" /\ pc'[d] = "bound"
         /\ pc[d] = "new" /\ pc'[d] # "new" => d \in sock'
         /\ d \in sock /\ d \notin sock' =>
              \/ Daemon(d) /\ pc'[d] \in {"exit", "dead"}
              \/ GcUnlink /\ Sock(d) \in victims /\ pc'[d] = pc[d]
<1>1. ASSUME NEW e \in Daemons, Daemon(e)
      PROVE  \/ pc[e] = "new" /\ pc'[e] = "bound" /\ sock' = sock \cup {e}
             \/ sock' = sock /\ pc[e] # "new"
             \/ pc'[e] \in {"exit", "dead"} /\ pc[e] # "new" /\ sock' = sock \ {e}
  <2>1. CASE StartUp(e) \/ Message(e) \/ (InstallStableRw(e) \/ InstallStableRo(e))
    BY <2>1, StartUpStep, MessageStep, InstallStep
  <2>2. CASE FinishIdentity(e) \/ (TakeOverName(e) \/ ReclaimName(e) \/ ClaimName(e))
    BY <2>2, FinishIdentityStep, TryStep
  <2>3. CASE NextName(e) \/ (\E p \in Hosts \cup Pins : LinkNamedRw(e, p)) \/ LinkNamedRo(e)
    BY <2>3, NextStep, LinkRwStep, LinkRoStep
  <2>4. CASE FinishName(e) \/ (Exit(e) \/ ExitStep(e)) \/ (Crash(e) \/ Kill(e))
    BY <2>4, FinishNameStep, ExitStepStep, EndStep
  <2> QED
    BY <1>1, <2>1, <2>2, <2>3, <2>4, DaemonCases
<1>2. CASE Daemon(d)
  BY <1>1, <1>2
<1>3. CASE ~Daemon(d)
  <2>1. pc'[d] = pc[d]
    BY <1>3, OthersKeep
  <2>2. ASSUME NEW e \in Daemons, Daemon(e) PROVE d \in sock' <=> d \in sock
    BY <1>1, <1>3, <2>2
  <2>3. ASSUME Collector \/ MainRestart \/ Quiet
        PROVE  \/ d \in sock' <=> d \in sock
               \/ d \in sock /\ GcUnlink /\ Sock(d) \in victims
    BY <2>3 DEF Collector, MainRestart, GcBegin, GcTest, GcTestAliases, GcTestSock,
         GcTestJail, GcUnlink, GcUnlock, GcEnd, Quiet
  <2> QED
    BY <2>1, <2>2, <2>3, Actors
<1> QED
  BY <1>2, <1>3

(* Daemons leave the collector's list alone. *)
LEMMA VictimsKept ==
  ASSUME TypeOK, LoopInv, CleanInv, NEW d \in Daemons, Daemon(d)
  PROVE  victims' = victims
<1>2. CASE StartUp(d) \/ Message(d) \/ (InstallStableRw(d) \/ InstallStableRo(d))
  BY <1>2, StartUpStep, MessageStep, InstallStep
<1>3. CASE FinishIdentity(d) \/ (TakeOverName(d) \/ ReclaimName(d) \/ ClaimName(d))
  BY <1>3, FinishIdentityStep, TryStep
<1>4. CASE NextName(d) \/ (\E p \in Hosts \cup Pins : LinkNamedRw(d, p)) \/ LinkNamedRo(d)
  BY <1>4, NextStep, LinkRwStep, LinkRoStep
<1>5. CASE FinishName(d) \/ (Exit(d) \/ ExitStep(d)) \/ (Crash(d) \/ Kill(d))
  BY <1>5, FinishNameStep, ExitStepStep, EndStep
<1> QED
  BY <1>2, <1>3, <1>4, <1>5, DaemonCases

-----------------------------------------------------------------------------
(* A host that asks for one name: the name is pending, being registered, or *)
(* had, but never two of these.                                             *)

LEMMA AskStep ==
  ASSUME MaxNames <= 1, IInv, FreshInv, AskInv, [Next]_vars
  PROVE  AskInv'
<1> DEFINE Good(d) ==
      /\ ses[d].pending # None \/ ses[d].named # None \/ pc[d] \in Naming =>
           ses[d].asked >= MaxNames
      /\ ses[d].pending # None \/ pc[d] \in Naming => ses[d].named = None
      /\ pc[d] \in Naming => ses[d].pending = None
      /\ ses[d].rw # None => ses[d].named # None \/ pc[d] \in {"link_ro", "drop_ro"}
<1> SUFFICES ASSUME NEW d \in Daemons PROVE Good(d)'
  BY DEF AskInv
<1>0. Good(d) /\ MaxNames \in Nat /\ ses[d].asked \in Nat
  BY SessionField, Bounds DEF AskInv, IInv, TypeOK
<1> USE DEF IInv
<1>1. CASE ~Daemon(d)
  BY <1>0, <1>1, OthersKeep
<1>2. CASE StartUp(d)
  <2>1. /\ ses'[d].pending = ses[d].pending /\ ses'[d].named = ses[d].named
        /\ ses'[d].asked = ses[d].asked /\ ses'[d].rw = ses[d].rw
        /\ pc[d] \notin Naming /\ pc'[d] \notin Naming
    BY <1>2 DEF StartUp, Bind, Listen, LinkRandomRo, EnterJail, TypeOK, Session, Naming
  <2> QED
    BY <1>0, <2>1 DEF Naming
<1>3. CASE Message(d)
  <2>1. /\ pc[d] = "up" /\ pc'[d] \in {"up", "try", "id_rw"}
        /\ ses'[d].named = ses[d].named /\ ses'[d].rw = ses[d].rw
        /\ \/ pc'[d] # "try" /\ SameName(d)
           \/ /\ ses[d].asked < MaxNames /\ ses'[d].asked = ses[d].asked + 1
              /\ pc'[d] = "try" => ses'[d].pending = ses[d].pending
    BY <1>3, MessageStep
  <2>2. CASE SameName(d) /\ pc'[d] # "try"
    BY <1>0, <2>1, <2>2 DEF SameName, Naming
  <2>3. CASE ses[d].asked < MaxNames /\ ses'[d].asked = ses[d].asked + 1
    <3>1. ~ (ses[d].asked >= MaxNames) /\ ses'[d].asked >= MaxNames
      BY <1>0, <2>3
    <3> QED
      BY <1>0, <2>1, <2>3, <3>1 DEF Naming, SameName
  <2> QED
    BY <2>1, <2>2, <2>3
<1>4. CASE InstallStableRw(d) \/ InstallStableRo(d)
  BY <1>0, <1>4, InstallStep DEF Naming
<1>5. CASE FinishIdentity(d)
  BY <1>0, <1>5, FinishIdentityStep DEF Naming
<1>6. CASE (TakeOverName(d) \/ ReclaimName(d) \/ ClaimName(d)) \/ NextName(d)
  BY <1>0, <1>6, TryStep, NextStep DEF SameLinks, SameName, Naming
<1>7. CASE \E p \in Hosts \cup Pins : LinkNamedRw(d, p)
  BY <1>0, <1>7, LinkRwStep DEF SameName, Naming
<1>8. CASE LinkNamedRo(d)
  BY <1>0, <1>8, LinkRoStep DEF Naming
<1>9. CASE FinishName(d)
  BY <1>0, <1>9, FinishNameStep, NoneApart DEF SameName, Naming
<1>10. CASE Exit(d) \/ ExitStep(d)
  BY <1>0, <1>10, ExitStepStep DEF SameLinks, SameName, FreshSession, Naming
<1>11. CASE Crash(d) \/ Kill(d)
  BY <1>11, EndStep DEF FreshSession, Naming
<1> QED
  BY <1>1, <1>2, <1>3, <1>4, <1>5, <1>6, <1>7, <1>8, <1>9, <1>10, <1>11, DaemonCases

-----------------------------------------------------------------------------
(* Every link that leads to a daemon is one that the daemon knows of.       *)

(* Nobody points a link at somebody else. *)
LEMMA OnlyToItself ==
  ASSUME TypeOK, [Next]_vars, NEW d \in Daemons, ~Daemon(d), NEW a \in Alias, dir'[a] = d
  PROVE  dir[a] = d
<1>1. d # None
  BY NoneApart
<1>2. SUFFICES ASSUME dir'[a] # dir[a] PROVE FALSE
  OBVIOUS
<1>3. PICK x \in Daemons : Daemon(x)
  BY <1>1, <1>2, Actors, MainDir
<1> QED
  BY <1>1, <1>2, <1>3, DaemonDir

LEMMA CleanupFacts ==
  ASSUME NEW d \in Daemons
  PROVE  /\ Len(CleanupList(d)) = 5
         /\ SameLinks(d) => CleanupList(d)' = CleanupList(d)
  BY DEF CleanupList, SameLinks, StableRw, StableRo, Named

LEMMA HandedOutFields ==
  ASSUME TypeOK, NEW d \in Daemons, NEW a
  PROVE  a \in HandedOut(d) <=>
           \/ a = ses[d].ro \/ a = ses[d].rw
           \/ ses[d].named # None /\ a = Named(ses[d].named)
           \/ ses[d].ident # None /\ a \in {StableRw(ses[d].ident), StableRo(ses[d].ident)}
<1>1. ses[d].named \in Names \cup {None} /\ ses[d].ident \in Hosts \cup {None}
  BY SessionField DEF TypeOK
<1> QED
  BY <1>1, NoneApart DEF HandedOut

LEMMA HandedOutNext ==
  ASSUME TypeOK', NEW d \in Daemons, NEW a
  PROVE  a \in HandedOut(d)' <=>
           \/ a = ses'[d].ro \/ a = ses'[d].rw
           \/ ses'[d].named # None /\ a = Named(ses'[d].named)
           \/ ses'[d].ident # None /\ a \in {StableRw(ses'[d].ident), StableRo(ses'[d].ident)}
<1>1. ses'[d].named \in Names \cup {None} /\ ses'[d].ident \in Hosts \cup {None}
  BY SessionField DEF TypeOK
<1> QED
  BY <1>1, NoneApart DEF HandedOut, Named, StableRw, StableRo

(* The cleanup goes through everything that was handed out. *)
LEMMA CleanupComplete ==
  ASSUME TypeOK, NEW d \in Daemons, ses[d].rw # None => ses[d].named # None,
         NEW a \in HandedOut(d), a # None
  PROVE  \E i \in 1..5 : a = CleanupList(d)[i]
<1>1. /\ CleanupList(d)[1] = ses[d].ro
      /\ ses[d].named # None => CleanupList(d)[2] = Named(ses[d].named)
      /\ ses[d].named # None => CleanupList(d)[3] = ses[d].rw
      /\ ses[d].ident # None => CleanupList(d)[4] = StableRw(ses[d].ident)
      /\ ses[d].ident # None => CleanupList(d)[5] = StableRo(ses[d].ident)
  BY DEF CleanupList
<1> QED
  BY <1>1, HandedOutFields

LEMMA HeldStep ==
  ASSUME IInv, FreshInv, AskInv, HeldInv, [Next]_vars
  PROVE  HeldInv'
<1> DEFINE Known(d, a) ==
      /\ pc[d] \in {"linked", "exit"} \cup Serving => a \in HandedOut(d) \cup InProgress(d)
      /\ pc[d] \in Leaving => \E i \in ses[d].at..5 : a = CleanupList(d)[i]
      /\ pc[d] # "gone"
<1> SUFFICES ASSUME NEW d \in Daemons, NEW a \in Alias, dir'[a] = d
             PROVE  Known(d, a)'
  BY DEF HeldInv
<1> USE DEF IInv, Serving, Naming, Handover, Leaving
<1>0. /\ dir[a] = d => Known(d, a)
      /\ dir \in [Alias -> Daemons \cup {None}] /\ d # None /\ a # None
      /\ TypeOK'
  BY InvStep, NoneApart, NoneAssumption DEF HeldInv, TypeOK
<1>1. CASE ~Daemon(d)
  <2>1. pc'[d] = pc[d] /\ ses'[d] = ses[d] /\ Candidate(d)' = Candidate(d) /\ dir[a] = d
    BY <1>1, OthersKeep, OnlyToItself
  <2>2. /\ HandedOut(d)' = HandedOut(d) /\ InProgress(d)' = InProgress(d)
        /\ CleanupList(d)' = CleanupList(d)
    BY <2>1 DEF HandedOut, InProgress, CleanupList
  <2> QED
    BY <1>0, <2>1, <2>2
<1>2. CASE StartUp(d)
  <2>1. CASE pc[d] = "linked"
    BY <1>0, <1>2, <2>1, StartUpStep DEF HandedOut, InProgress
  <2>2. CASE pc[d] = "listening"
    <3>1. pc'[d] = "linked" /\ dir' = [dir EXCEPT ![RandomRo(d)] = d]
      BY <1>2, <2>2, StartUpStep
    <3>2. ses'[d].ro = RandomRo(d)
      BY <1>2, <2>2 DEF StartUp, Bind, Listen, LinkRandomRo, EnterJail, TypeOK, Session
    <3>3. dir[a] # d
      BY <2>2 DEF StartInv
    <3> QED
      BY <1>0, <3>1, <3>2, <3>3 DEF HandedOut
  <2>3. CASE pc[d] \in {"new", "bound"}
    BY <1>2, <2>3, StartUpStep
  <2> QED
    BY <1>2, <2>1, <2>2, <2>3, StartUpStep
<1>3. CASE Message(d)
  <2>1. /\ pc[d] = "up" /\ pc'[d] \in {"up", "try", "id_rw"} /\ dir[a] = d
        /\ ses'[d].ro = ses[d].ro /\ ses'[d].rw = ses[d].rw /\ ses'[d].named = ses[d].named
        /\ ses[d].ident = None \/ ses'[d].ident = ses[d].ident
    BY <1>3, MessageStep DEF SameLinks
  <2>2. a \in HandedOut(d)
    BY <1>0, <2>1 DEF InProgress
  <2> QED
    BY <1>0, <2>1, <2>2, HandedOutFields, HandedOutNext, NoneApart
<1>4. CASE InstallStableRw(d) \/ InstallStableRo(d)
  <2>1. /\ pc[d] \in {"id_rw", "id_ro"} /\ pc'[d] \in {"id_ro", "id_old"} /\ ses'[d] = ses[d]
        /\ dir[a] = d \/ a \in {StableRw(ses[d].ident), StableRo(ses[d].ident)}
        /\ ses[d].ident \in Hosts
    BY <1>0, <1>4, InstallStep
  <2>2. a \in HandedOut(d)
    BY <1>0, <2>1, HandedOutFields, NoneApart DEF InProgress
  <2> QED
    BY <2>1, <2>2 DEF HandedOut
<1>5. CASE FinishIdentity(d)
  <2>1. /\ pc[d] = "id_old" /\ pc'[d] \in {"up", "try"} /\ ses[d].ident \in Hosts
        /\ ses'[d].ident = ses[d].ident /\ ses'[d].rw = ses[d].rw
        /\ ses'[d].named = ses[d].named /\ dir[a] = d /\ a # ses[d].ro
    BY <1>0, <1>5, FinishIdentityStep DEF PointsTo
  <2>2. a \in HandedOut(d)
    BY <1>0, <2>1 DEF InProgress
  <2> QED
    BY <1>0, <2>1, <2>2, HandedOutFields, HandedOutNext
<1>6. CASE TakeOverName(d) \/ ReclaimName(d) \/ ClaimName(d)
  <2>1. /\ pc[d] = "try" /\ ses'[d] = ses[d] /\ Candidate(d)' = Candidate(d)
        /\ \/ pc'[d] = "link_rw" /\ (dir[a] = d \/ a = Named(Candidate(d)))
           \/ pc'[d] = "try" /\ dir[a] = d
    BY <1>0, <1>6, TryStep
  <2>2. a \in HandedOut(d) \/ (pc'[d] = "link_rw" /\ a = Named(Candidate(d)))
    BY <1>0, <2>1 DEF InProgress
  <2>3. HandedOut(d)' = HandedOut(d)
    BY <2>1 DEF HandedOut
  <2> QED
    BY <2>1, <2>2, <2>3 DEF InProgress, Named
<1>7. CASE NextName(d)
  <2>1. pc[d] = "try" /\ pc'[d] \in {"up", "try"} /\ dir[a] = d /\ SameLinks(d)
    BY <1>7, NextStep
  <2>2. a \in HandedOut(d)
    BY <1>0, <2>1 DEF InProgress
  <2> QED
    BY <1>0, <2>1, <2>2, HandedOutFields, HandedOutNext DEF SameLinks
<1>8. CASE \E p \in Hosts \cup Pins : LinkNamedRw(d, p)
  <2>1. PICK p \in Hosts \cup Pins : LinkNamedRw(d, p)
    BY <1>8
  <2>2. /\ pc[d] = "link_rw" /\ ses'[d].ident = ses[d].ident
        /\ ses'[d].ro = ses[d].ro /\ ses'[d].named = ses[d].named
        /\ \/ /\ pc'[d] = "link_ro" /\ Candidate(d)' = Candidate(d)
              /\ dir[a] = d \/ a = ses'[d].rw
           \/ /\ pc'[d] = "up" /\ ses'[d].rw = ses[d].rw /\ dir[a] = d
              /\ a # Named(Candidate(d))
    <3>1. Named(Candidate(d)) \in Alias
      BY <2>1, LinkRwStep, AliasTypes
    <3> QED
      BY <1>0, <2>1, <3>1, LinkRwStep
  <2>3. ses[d].rw = None
    BY <2>2 DEF AskInv
  <2>4. dir[a] = d => a \in HandedOut(d) \cup {Named(Candidate(d))}
    BY <1>0, <2>2 DEF InProgress
  <2>5. CASE pc'[d] = "up"
    <3>1. a \in HandedOut(d)
      BY <2>2, <2>4, <2>5
    <3> QED
      BY <1>0, <2>2, <2>5, <3>1, HandedOutFields, HandedOutNext
  <2>6. CASE pc'[d] = "link_ro"
    <3>1. InProgress(d)' = {Named(Candidate(d))}
      BY <2>2, <2>6 DEF InProgress, Named
    <3>2. a \in HandedOut(d)' \/ a = Named(Candidate(d))
      BY <1>0, <2>2, <2>3, <2>4, <2>6, HandedOutFields, HandedOutNext
    <3> QED
      BY <2>6, <3>1, <3>2
  <2> QED
    BY <2>2, <2>5, <2>6
<1>9. CASE LinkNamedRo(d)
  <2>1. /\ pc[d] = "link_ro" /\ pc'[d] = "drop_ro" /\ ses'[d] = ses[d]
        /\ Candidate(d)' = Candidate(d) /\ (dir[a] = d \/ a = NamedRo(Candidate(d)))
    BY <1>0, <1>9, LinkRoStep
  <2>2. a \in HandedOut(d) \cup {Named(Candidate(d)), NamedRo(Candidate(d))}
    BY <1>0, <2>1 DEF InProgress
  <2>3. /\ HandedOut(d)' = HandedOut(d)
        /\ InProgress(d)' = {Named(Candidate(d)), NamedRo(Candidate(d))}
    BY <2>1 DEF HandedOut, InProgress, Named, NamedRo
  <2> QED
    BY <2>1, <2>2, <2>3
<1>10. CASE FinishName(d)
  <2>1. /\ pc[d] = "drop_ro" /\ pc'[d] = "up" /\ Candidate(d) \in Names
        /\ ses'[d].ident = ses[d].ident /\ ses'[d].rw = ses[d].rw
        /\ ses'[d].named = Candidate(d) /\ ses'[d].ro = NamedRo(Candidate(d))
        /\ dir[a] = d
        /\ a = ses[d].ro => ses[d].ident # None /\ a = StableRo(ses[d].ident)
    BY <1>0, <1>10, FinishNameStep DEF PointsTo
  <2>2. ses[d].named = None
    BY <2>1 DEF AskInv
  <2>3. a \in HandedOut(d) \cup {Named(Candidate(d)), NamedRo(Candidate(d))}
    BY <1>0, <2>1 DEF InProgress
  <2>4. a \in HandedOut(d)'
    BY <1>0, <2>1, <2>2, <2>3, HandedOutFields, HandedOutNext, NoneApart
  <2> QED
    BY <2>1, <2>4
<1>11. CASE Exit(d) \/ ExitStep(d)
  <2>1. CASE pc[d] = "up"
    <3>1. pc'[d] = "exit" /\ ses'[d] = ses[d] /\ dir[a] = d
      BY <1>11, <2>1, ExitStepStep
    <3> QED
      BY <1>0, <2>1, <3>1 DEF HandedOut, InProgress
  <2>2. CASE pc[d] = "exit"
    <3>1. pc'[d] = "clean" /\ SameLinks(d) /\ ses'[d].at = 1 /\ dir[a] = d
      BY <1>11, <2>2, ExitStepStep
    <3>2. a \in HandedOut(d) /\ (ses[d].rw # None => ses[d].named # None)
      BY <1>0, <2>2, <3>1 DEF InProgress, AskInv
    <3>3. \E i \in 1..5 : a = CleanupList(d)[i]
      BY <1>0, <3>2, CleanupComplete
    <3> QED
      BY <3>1, <3>3, CleanupFacts
  <2>3. CASE pc[d] \in {"clean", "unlink"} /\ pc'[d] # "gone"
    <3>1. ses[d].at \in Nat /\ dir[a] = d
      BY <1>0, <1>11, <2>3, SessionField, ExitStepStep DEF TypeOK
    <3>2. PICK i \in ses[d].at..5 : a = CleanupList(d)[i]
      BY <1>0, <2>3, <3>1
    <3>3. /\ SameLinks(d) /\ pc'[d] \in {"clean", "unlink"}
          /\ \/ ses'[d].at = ses[d].at
             \/ /\ ses'[d].at = ses[d].at + 1
                /\ \/ ~PointsTo(CleanupList(d)[ses[d].at], d)
                   \/ dir' = [dir EXCEPT ![CleanupList(d)[ses[d].at]] = None]
      BY <1>11, <2>3, ExitStepStep
    <3>4. ses'[d].at = ses[d].at + 1 => i # ses[d].at
      BY <1>0, <3>1, <3>2, <3>3 DEF PointsTo
    <3>5. i \in ses'[d].at..5
      BY <3>1, <3>2, <3>3, <3>4
    <3> QED
      BY <2>3, <3>2, <3>3, <3>5, CleanupFacts
  <2>4. CASE pc[d] \in {"clean", "unlink"} /\ pc'[d] = "gone"
    <3>1. ses[d].at > 5 /\ ses[d].at \in Nat /\ dir[a] = d
      BY <1>11, <2>4, SessionField, ExitStepStep, CleanupFacts DEF TypeOK
    <3> QED
      BY <1>0, <2>4, <3>1
  <2> QED
    BY <1>11, <2>1, <2>2, <2>3, <2>4, ExitStepStep
<1>12. CASE Crash(d) \/ Kill(d)
  BY <1>12, EndStep
<1> QED
  BY <1>1, <1>2, <1>3, <1>4, <1>5, <1>6, <1>7, <1>8, <1>9, <1>10, <1>11, <1>12, DaemonCases

-----------------------------------------------------------------------------
(* What a daemon has handed out leads to it.                                *)

(* The links that HasLinks is about. *)
Shown(d) ==
  {ses[d].ro} \cup (IF ses[d].named # None THEN {Named(ses[d].named), ses[d].rw} ELSE {})
  \cup (IF ses[d].ident # None THEN {StableRo(ses[d].ident)} ELSE {})

LEMMA ShownKinds ==
  ASSUME IInv, RoInv, RwInv, NEW d \in Daemons, NEW a \in Shown(d) \cap Alias
  PROVE  /\ \A h : a # StableRw(h)
         /\ \A n : a = NamedRo(n) => ses[d].named = n /\ n # None
         /\ \A p, n : a = NamedRw(p, n) /\ pc[d] \notin Critical =>
              ses[d].named = n /\ n # None
<1>0. /\ ses[d].named \in Names \cup {None} /\ ses[d].ident \in Hosts \cup {None}
      /\ a # None
  BY SessionField, NoneAssumption DEF IInv, TypeOK
<1>1. CASE a = ses[d].ro
  <2>1. \/ a = RandomRo(d)
        \/ ses[d].named \in Names /\ a = NamedRo(ses[d].named)
        \/ a = StableRo(ses[d].ident)
    BY <1>0, <1>1 DEF RoInv
  <2> QED
    BY <2>1, AliasDistinct, RoDistinct, NoneApart
<1>2. CASE ses[d].named # None /\ a = Named(ses[d].named)
  BY <1>2, AliasDistinct
<1>3. CASE ses[d].named # None /\ a = ses[d].rw
  <2>1. PICK p \in Hosts \cup Pins :
          IF pc[d] \in {"link_ro", "drop_ro"}
            THEN ses[d].rw = NamedRw(p, Candidate(d))
            ELSE ses[d].named \in Names /\ ses[d].rw = NamedRw(p, ses[d].named)
    BY <1>0, <1>3 DEF RwInv
  <2> QED
    BY <1>3, <2>1, AliasDistinct, RoDistinct DEF Critical, Naming
<1>4. CASE ses[d].ident # None /\ a = StableRo(ses[d].ident)
  BY <1>4, AliasDistinct, RoDistinct
<1> QED
  BY <1>1, <1>2, <1>3, <1>4 DEF Shown

(* Nobody takes a shown link from a daemon that keeps its identity.         *)
LEMMA NotRobbed ==
  ASSUME IInv, RoInv, RwInv, SeatInv, [Next]_vars,
         NEW d \in Daemons, pc[d] \in {"linked"} \cup Serving, d \in sock,
         Seated(d), Seated(d)', HasLinks(d), ~Daemon(d),
         NEW a \in Shown(d) \cap Alias, dir[a] = d
  PROVE  dir'[a] = d
<1> SUFFICES ASSUME dir'[a] # d PROVE FALSE
  OBVIOUS
<1> USE DEF IInv
<1>0. d # None /\ a # None /\ pc'[d] = pc[d] /\ ses'[d] = ses[d]
  BY NoneApart, NoneAssumption, OthersKeep
<1>1. PICK x \in Daemons : Daemon(x) /\ x # d
  BY Actors, MainDir DEF VictimInv
<1>2. Writes(x, a) /\ dir'[a] # dir[a]
  BY <1>1, DaemonWrites
<1>3. /\ \A h : a # StableRw(h)
      /\ \A n : a = NamedRo(n) => ses[d].named = n /\ n # None
      /\ \A p, n : a = NamedRw(p, n) /\ pc[d] \notin Critical => ses[d].named = n /\ n # None
  BY ShownKinds
<1>4. ASSUME pc[x] \in Critical PROVE pc[d] \notin Critical
  BY <1>1, <1>4 DEF LockInv
<1>5. ASSUME ses[d].named # None PROVE dir[Named(ses[d].named)] = d
  BY <1>5 DEF HasLinks
(* d shares its identity h with x, which has the seat: d is not seated. *)
<1>6. ASSUME NEW h \in Hosts, IsHeir(d, h), dir[StableRw(h)] # d, pc[d] # "id_rw" PROVE FALSE
  <2>1. ses[d].ident = h
    BY <1>6 DEF IsHeir, Running
  <2> QED
    BY <1>6, <2>1, NoneApart DEF Seated, Current
<1>7. CASE pc[x] = "listening"
  BY <1>0, <1>2, <1>7 DEF Writes, StartInv
<1>8. CASE pc[x] = "id_rw"
  BY <1>2, <1>3, <1>8 DEF Writes
<1>9. CASE pc[x] = "id_ro"
  <2>1. ses[x].ident \in Hosts /\ a = StableRo(ses[x].ident)
    BY <1>2, <1>9 DEF Writes
  <2>2. dir[StableRw(ses[x].ident)] = x /\ IsHeir(d, ses[x].ident)
    BY <1>0, <1>9, <2>1 DEF SeatInv
  <2>3. pc[d] # "id_rw"
    BY <1>4, <1>9 DEF Critical, Handover
  <2> QED
    BY <1>1, <1>6, <2>1, <2>2, <2>3
<1>10. CASE pc[x] \in {"id_old", "drop_ro", "unlink"}
  BY <1>1, <1>2, <1>10 DEF Writes
<1>11. CASE pc[x] = "try" /\ pc'[x] = "link_rw"
  <2>1. OwnsName(x, Candidate(x)) /\ a = Named(Candidate(x))
    BY <1>0, <1>2, <1>11 DEF Writes
  <2>2. d = ses[x].prev
    BY <1>1, <2>1 DEF OwnsName
  <2>3. ses[x].ident \in Hosts /\ IsHeir(d, ses[x].ident)
    BY <1>0, <2>2 DEF IdentityInv
  <2>4. pc[d] # "id_rw" /\ dir[StableRw(ses[x].ident)] # d
    BY <1>0, <1>11, <2>2 DEF SeatInv
  <2> QED
    BY <1>6, <2>3, <2>4
<1>12. CASE pc[x] = "try" /\ pc'[x] = "try"
  <2>1. /\ a \in {Named(Candidate(x)), NamedRo(Candidate(x))}
        /\ Dangling(Named(Candidate(x)))
    BY <1>2, <1>12 DEF Writes
  <2> QED
    BY <1>3, <1>5, <2>1 DEF Dangling
<1>13. CASE pc[x] = "link_rw" /\ pc'[x] = "link_ro"
  <2>1. \E p : a = NamedRw(p, Candidate(x))
    BY <1>2, <1>13 DEF Writes
  <2>2. ses[d].named = Candidate(x) /\ ses[d].named # None
    BY <1>3, <1>4, <1>13, <2>1 DEF Critical, Naming
  <2> QED
    BY <1>1, <1>5, <1>13, <2>2 DEF HolderInv
<1>14. CASE pc[x] = "link_rw" /\ pc'[x] = "up"
  BY <1>1, <1>2, <1>14 DEF Writes, HolderInv
<1>15. CASE pc[x] = "link_ro"
  BY <1>1, <1>2, <1>3, <1>5, <1>15 DEF Writes, HolderInv
<1> QED
  BY <1>2, <1>7, <1>8, <1>9, <1>10, <1>11, <1>12, <1>13, <1>14, <1>15 DEF Writes

(* While another process steps, a seated daemon's links stay.               *)
LEMMA SeatedOthers ==
  ASSUME LinkInv, SeatedInv, [Next]_vars, NEW d \in Daemons, ~Daemon(d),
         pc'[d] \in {"linked"} \cup Serving, d \in sock', Seated(d)'
  PROVE  HasLinks(d)'
<1> USE DEF LinkInv, IInv
<1>1. pc'[d] = pc[d] /\ ses'[d] = ses[d] /\ d # None
  BY OthersKeep, NoneApart
<1>2. d \in sock
  BY <1>1, SockStep DEF Serving, Naming, Handover
<1>3. Seated(d)
  <2>1. CASE pc[d] = "id_rw" \/ ses[d].ident = None
    BY <2>1 DEF Seated, Current
  <2>2. CASE pc[d] # "id_rw" /\ ses[d].ident # None
    <3>1. dir'[StableRw(ses[d].ident)] = d
      BY <1>1, <2>2 DEF Seated, Current, StableRw
    <3>2. StableRw(ses[d].ident) \in Alias
      BY <2>2, SessionField, AliasTypes DEF TypeOK
    <3> QED
      BY <3>1, <3>2, OnlyToItself DEF Seated, Current
  <2> QED
    BY <2>1, <2>2
<1>4. HasLinks(d)
  BY <1>1, <1>2, <1>3 DEF SeatedInv
<1>5. ASSUME NEW a \in Shown(d), a # None, dir[a] = d PROVE dir'[a] = d
  <2>1. a \in Alias
    BY <1>5, SessionField, AliasTypes DEF Shown, TypeOK
  <2> QED
    BY <1>1, <1>2, <1>3, <1>4, <1>5, <2>1, NotRobbed
<1>6. ses'[d].ro # None /\ dir'[ses'[d].ro] = d
  BY <1>1, <1>4, <1>5 DEF HasLinks, Shown
<1>7. ASSUME ses[d].named # None
      PROVE  dir'[Named(ses[d].named)] = d /\ ses[d].rw # None /\ dir'[ses[d].rw] = d
  <2>1. Named(ses[d].named) # None
    BY <1>7, SessionField, AliasTypes, NoneAssumption DEF TypeOK
  <2> QED
    BY <1>4, <1>5, <1>7, <2>1 DEF HasLinks, Shown
<1>8. ASSUME ses[d].ident # None, pc[d] \notin {"id_rw", "id_ro"}
      PROVE  dir'[StableRo(ses[d].ident)] = d
  <2>1. StableRo(ses[d].ident) # None
    BY <1>8, SessionField, AliasTypes, NoneAssumption DEF TypeOK
  <2> QED
    BY <1>4, <1>5, <1>8, <2>1 DEF HasLinks, Shown
<1> QED
  BY <1>1, <1>6, <1>7, <1>8 DEF HasLinks, Named, StableRo

(* HasLinks, of the state after a step. *)
LEMMA HasLinksNext ==
  ASSUME NEW d \in Daemons,
         ses'[d].ro # None, dir'[ses'[d].ro] = d,
         ses'[d].named # None =>
           dir'[Named(ses'[d].named)] = d /\ ses'[d].rw # None /\ dir'[ses'[d].rw] = d,
         ses'[d].ident # None /\ pc'[d] \notin {"id_rw", "id_ro"} =>
           dir'[StableRo(ses'[d].ident)] = d
  PROVE  HasLinks(d)'
  BY DEF HasLinks, Named, StableRo

(* A seated daemon's own steps establish what it hands out, and drop only    *)
(* what it has replaced.                                                     *)
LEMMA SeatedActor ==
  ASSUME LinkInv, OneNameInv, [Next]_vars, NEW d \in Daemons, Daemon(d),
         pc'[d] \in {"linked"} \cup Serving, d \in sock', Seated(d)'
  PROVE  HasLinks(d)'
<1> USE DEF LinkInv, IInv, OneNameInv
<1>0. /\ d # None /\ TypeOK'
      /\ dir \in [Alias -> Daemons \cup {None}]
      /\ ses[d].ro \in Alias \cup {None} /\ ses[d].rw \in Alias \cup {None}
      /\ ses[d].named \in Names \cup {None} /\ ses[d].ident \in Hosts \cup {None}
  BY NoneApart, InvStep, SessionField DEF TypeOK
<1>1. ASSUME pc[d] \in {"linked"} \cup Serving, d \in sock, Seated(d) PROVE HasLinks(d)
  BY <1>1 DEF SeatedInv
<1>2. ASSUME pc[d] # "new" PROVE d \in sock
  BY <1>2, SockStep
<1>3. ASSUME ses'[d].ident = ses[d].ident, pc'[d] # "id_rw",
             ses[d].ident # None => dir'[StableRw(ses[d].ident)] = dir[StableRw(ses[d].ident)]
      PROVE  Seated(d)
  BY <1>3 DEF Seated, Current, StableRw
<1>4. CASE StartUp(d)
  <2>1. CASE pc[d] = "listening" /\ pc'[d] = "linked"
    <3>1. dir' = [dir EXCEPT ![RandomRo(d)] = d]
      BY <1>4, <2>1, StartUpStep
    <3>2. ses'[d].ro = RandomRo(d) /\ ses'[d].named = None /\ ses'[d].ident = None
      BY <2>1, FreshStep DEF FreshInv, FreshSession
    <3>3. RandomRo(d) \in Alias
      BY AliasTypes
    <3> QED
      BY <1>0, <3>1, <3>2, <3>3, HasLinksNext, NoneAssumption
  <2>2. CASE pc[d] = "linked" /\ pc'[d] = "up"
    <3>1. ses'[d] = ses[d] /\ dir' = dir /\ ses[d].ident = None
      BY <1>4, <2>2, StartUpStep DEF FreshInv, FreshSession
    <3>2. HasLinks(d)
      BY <1>1, <1>2, <1>3, <2>2, <3>1
    <3> QED
      BY <2>2, <3>1, <3>2, HasLinksNext DEF HasLinks
  <2> QED
    BY <1>4, <2>1, <2>2, StartUpStep DEF Serving, Naming, Handover
<1>5. CASE Message(d)
  <2>1. /\ pc[d] = "up" /\ dir' = dir /\ ses'[d].ro = ses[d].ro
        /\ ses'[d].named = ses[d].named /\ ses'[d].rw = ses[d].rw
        /\ \/ ses'[d].ident = ses[d].ident /\ pc'[d] # "id_rw"
           \/ ses[d].ident = None /\ pc'[d] = "id_rw"
    BY <1>5, MessageStep DEF SameLinks
  <2>2. HasLinks(d)
    BY <1>1, <1>2, <1>3, <2>1 DEF Seated, Current, Serving
  <2> QED
    BY <2>1, <2>2, HasLinksNext DEF HasLinks
<1>6. CASE InstallStableRw(d) \/ InstallStableRo(d)
  <2>1. /\ pc[d] \in {"id_rw", "id_ro"} /\ ses'[d] = ses[d] /\ ses[d].ident \in Hosts
        /\ StableRw(ses[d].ident) \in Alias /\ StableRo(ses[d].ident) \in Alias
        /\ \/ pc'[d] = "id_ro" /\ dir' = [dir EXCEPT ![StableRw(ses[d].ident)] = d]
           \/ pc'[d] = "id_old" /\ dir' = [dir EXCEPT ![StableRo(ses[d].ident)] = d]
    BY <1>6, InstallStep, AliasTypes
  <2>2. HasLinks(d)
    BY <1>1, <1>2, <2>1 DEF Seated, Current, SeatInv, Serving, Handover
  <2>3. \A a \in Alias : dir[a] = d => dir'[a] = d
    BY <1>0, <2>1
  <2>4. ses[d].named # None => Named(ses[d].named) \in Alias
    BY <1>0, AliasTypes
  <2> QED
    BY <1>0, <2>1, <2>2, <2>3, <2>4, HasLinksNext DEF HasLinks
<1>7. CASE FinishIdentity(d)
  <2>1. /\ pc[d] = "id_old" /\ ses[d].ident \in Hosts /\ ses'[d].ro = StableRo(ses[d].ident)
        /\ ses'[d].ident = ses[d].ident /\ ses'[d].named = ses[d].named
        /\ ses'[d].rw = ses[d].rw
        /\ \A a \in Alias \ {ses[d].ro} : dir'[a] = dir[a]
    BY <1>0, <1>7, FinishIdentityStep
  <2>2. HasLinks(d) /\ dir[StableRo(ses[d].ident)] = d
    BY <1>1, <1>2, <2>1 DEF Seated, Current, SeatInv, Serving, Handover
  <2>3. /\ StableRo(ses[d].ident) \in Alias
        /\ ses[d].named # None => Named(ses[d].named) \in Alias
    BY <1>0, <2>1, AliasTypes
  <2>4. \/ ses[d].ro = RandomRo(d) \/ \E n : ses[d].ro = NamedRo(n)
    BY <2>1, <2>2 DEF RoInv, Handover, HasLinks
  <2>5. ses[d].ro # StableRo(ses[d].ident) /\ ses[d].ro # Named(ses[d].named)
    BY <2>4, AliasDistinct, RoDistinct
  <2>6. ses[d].named # None => ses[d].ro # ses[d].rw
    <3>1. ses[d].rw # None => \E p, n : ses[d].rw = NamedRw(p, n)
      BY <2>1 DEF RwInv
    <3> QED
      BY <2>2, <2>4, <3>1, AliasDistinct, RoDistinct DEF HasLinks
  <2> QED
    BY <1>0, <2>1, <2>2, <2>3, <2>5, <2>6, HasLinksNext, NoneAssumption DEF HasLinks
<1>8. CASE TakeOverName(d) \/ ReclaimName(d) \/ ClaimName(d)
  <2>1. /\ pc[d] = "try" /\ ses'[d] = ses[d] /\ Candidate(d) \in Names
        /\ pc'[d] \in {"try", "link_rw"}
        /\ \/ dir' = [dir EXCEPT ![Named(Candidate(d))] = d]
           \/ dir' = [dir EXCEPT ![Named(Candidate(d))] = None, ![NamedRo(Candidate(d))] = None]
    BY <1>8, TryStep
  <2>2. ses[d].named = None
    BY <2>1 DEF AskInv, Naming
  <2>3. \A h : StableRw(h) # Named(Candidate(d)) /\ StableRw(h) # NamedRo(Candidate(d))
    BY AliasDistinct
  <2>4. ses[d].ident # None => dir'[StableRw(ses[d].ident)] = dir[StableRw(ses[d].ident)]
    BY <1>0, <2>1, <2>3, AliasTypes
  <2>5. HasLinks(d)
    BY <1>1, <1>2, <1>3, <2>1, <2>4 DEF Serving, Naming
  <2>6. ses[d].ro = RandomRo(d) \/ (ses[d].ident # None /\ ses[d].ro = StableRo(ses[d].ident))
    BY <1>0, <2>2, <2>5, NoneApart DEF RoInv, HasLinks
  <2>7. ses[d].ro # Named(Candidate(d)) /\ ses[d].ro # NamedRo(Candidate(d))
    BY <2>6, AliasDistinct, RoDistinct
  <2>8. ses[d].ident # None => /\ StableRo(ses[d].ident) # Named(Candidate(d))
                               /\ StableRo(ses[d].ident) # NamedRo(Candidate(d))
                               /\ StableRo(ses[d].ident) \in Alias
    BY <1>0, AliasTypes, AliasDistinct, RoDistinct
  <2> QED
    BY <1>0, <2>1, <2>2, <2>5, <2>7, <2>8, HasLinksNext DEF HasLinks
<1>9. CASE NextName(d)
  <2>1. /\ pc[d] = "try" /\ dir' = dir /\ SameLinks(d) /\ pc'[d] \in {"up", "try"}
    BY <1>9, NextStep
  <2>2. HasLinks(d)
    BY <1>1, <1>2, <1>3, <2>1 DEF SameLinks, Serving, Naming
  <2> QED
    BY <2>1, <2>2, HasLinksNext DEF HasLinks, SameLinks
<1>10. CASE \E p \in Hosts \cup Pins : LinkNamedRw(d, p)
  <2>1. PICK p \in Hosts \cup Pins : LinkNamedRw(d, p)
    BY <1>10
  <2>2. /\ pc[d] = "link_rw" /\ Candidate(d) \in Names /\ pc'[d] \in {"link_ro", "up"}
        /\ ses'[d].ident = ses[d].ident /\ ses'[d].ro = ses[d].ro
        /\ ses'[d].named = ses[d].named
        /\ \/ dir' = [dir EXCEPT ![NamedRw(p, Candidate(d))] = d]
           \/ dir' = [dir EXCEPT ![Named(Candidate(d))] = None]
    BY <2>1, LinkRwStep
  <2>3. ses[d].named = None
    BY <2>2 DEF AskInv, Naming
  <2>4. \A h : StableRw(h) # Named(Candidate(d)) /\ StableRw(h) # NamedRw(p, Candidate(d))
    BY AliasDistinct
  <2>5. ses[d].ident # None => dir'[StableRw(ses[d].ident)] = dir[StableRw(ses[d].ident)]
    BY <1>0, <2>2, <2>4, AliasTypes
  <2>6. HasLinks(d)
    BY <1>1, <1>2, <1>3, <2>2, <2>5 DEF Serving, Naming
  <2>7. ses[d].ro = RandomRo(d) \/ (ses[d].ident # None /\ ses[d].ro = StableRo(ses[d].ident))
    BY <1>0, <2>3, <2>6, NoneApart DEF RoInv, HasLinks
  <2>8. ses[d].ro # Named(Candidate(d))
    BY <2>7, AliasDistinct
  <2>9. ses[d].ident # None => /\ StableRo(ses[d].ident) # Named(Candidate(d))
                               /\ StableRo(ses[d].ident) \in Alias
    BY <1>0, AliasTypes, AliasDistinct
  <2> QED
    BY <1>0, <2>2, <2>3, <2>6, <2>8, <2>9, HasLinksNext DEF HasLinks
<1>11. CASE LinkNamedRo(d)
  <2>1. /\ pc[d] = "link_ro" /\ pc'[d] = "drop_ro" /\ ses'[d] = ses[d] /\ Candidate(d) \in Names
        /\ dir' = [dir EXCEPT ![NamedRo(Candidate(d))] = d]
    BY <1>11, LinkRoStep
  <2>2. \A h : StableRw(h) # NamedRo(Candidate(d))
    BY AliasDistinct
  <2>3. ses[d].ident # None => dir'[StableRw(ses[d].ident)] = dir[StableRw(ses[d].ident)]
    BY <1>0, <2>1, <2>2, AliasTypes
  <2>4. HasLinks(d)
    BY <1>1, <1>2, <1>3, <2>1, <2>3 DEF Serving, Naming
  <2>5. \A a \in Alias : dir[a] = d => dir'[a] = d
    BY <1>0, <2>1
  <2>6. /\ ses[d].named # None => Named(ses[d].named) \in Alias
        /\ ses[d].ident # None => StableRo(ses[d].ident) \in Alias
    BY <1>0, AliasTypes
  <2> QED
    BY <1>0, <2>1, <2>4, <2>5, <2>6, HasLinksNext DEF HasLinks
<1>12. CASE FinishName(d)
  <2>1. /\ pc[d] = "drop_ro" /\ pc'[d] = "up" /\ Candidate(d) \in Names
        /\ ses'[d].ident = ses[d].ident /\ ses'[d].rw = ses[d].rw
        /\ ses'[d].named = Candidate(d) /\ ses'[d].ro = NamedRo(Candidate(d))
        /\ \A a \in Alias : a # ses[d].ro => dir'[a] = dir[a]
        /\ ses[d].ident # None /\ ses[d].ro = StableRo(ses[d].ident) => dir' = dir
    BY <1>0, <1>12, FinishNameStep
  <2>2. ses[d].named = None
    BY <2>1 DEF AskInv, Naming
  <2>3. \/ ses[d].ro \in {None, RandomRo(d)}
        \/ ses[d].ident # None /\ ses[d].ro = StableRo(ses[d].ident)
    BY <1>0, <2>2, NoneApart DEF RoInv
  <2>4. ses[d].ident # None => dir'[StableRw(ses[d].ident)] = dir[StableRw(ses[d].ident)]
    <3>1. \A h : StableRw(h) # RandomRo(d)
      BY AliasDistinct
    <3> QED
      BY <1>0, <2>1, <2>3, <3>1, AliasTypes, NoneAssumption
  <2>5. HasLinks(d)
    BY <1>1, <1>2, <1>3, <2>1, <2>4 DEF Serving, Naming
  <2>6. /\ dir[Named(Candidate(d))] = d /\ ses[d].rw # None /\ dir[ses[d].rw] = d
        /\ dir[NamedRo(Candidate(d))] = d
        /\ Named(Candidate(d)) \in Alias /\ NamedRo(Candidate(d)) \in Alias
    BY <2>1, AliasTypes DEF HolderInv, ProgressInv
  <2>7. \E p, n : ses[d].rw = NamedRw(p, n)
    BY <2>1, <2>6 DEF RwInv
  <2>8. \A a \in Alias : dir[a] = d /\ a # RandomRo(d) => dir'[a] = d
    BY <2>1, <2>3, NoneAssumption
  <2>9. /\ Named(Candidate(d)) # RandomRo(d) /\ NamedRo(Candidate(d)) # RandomRo(d)
        /\ ses[d].rw # RandomRo(d) /\ \A h : StableRo(h) # RandomRo(d)
    BY <2>7, AliasDistinct
  <2>10. ses[d].ident # None => StableRo(ses[d].ident) \in Alias
    BY <1>0, AliasTypes
  <2> QED
    BY <1>0, <2>1, <2>5, <2>6, <2>8, <2>9, <2>10, HasLinksNext, NoneAssumption DEF HasLinks
<1>13. CASE (Exit(d) \/ ExitStep(d)) \/ (Crash(d) \/ Kill(d))
  BY <1>13, ExitStepStep, EndStep DEF Serving, Naming, Handover
<1> QED
  BY <1>4, <1>5, <1>6, <1>7, <1>8, <1>9, <1>10, <1>11, <1>12, <1>13, DaemonCases

LEMMA OneNameStep ==
  ASSUME MaxNames <= 1, LinkInv, OneNameInv, [Next]_vars
  PROVE  OneNameInv'
<1>1. AskInv' /\ HeldInv'
  BY AskStep, HeldStep DEF OneNameInv, LinkInv
<1>2. SeatedInv'
  BY SeatedActor, SeatedOthers DEF SeatedInv, OneNameInv
<1> QED
  BY <1>1, <1>2 DEF OneNameInv

LEMMA OneNameInit == Init => OneNameInv
<1> SUFFICES ASSUME Init PROVE OneNameInv
  OBVIOUS
<1>1. AskInv
  BY DEF Init, AskInv, FreshSession, Naming
<1>2. HeldInv
  BY NoneApart DEF Init, HeldInv
<1>3. SeatedInv
  BY DEF Init, SeatedInv
<1> QED
  BY <1>1, <1>2, <1>3 DEF OneNameInv

LEMMA OneNameInvariance ==
  ASSUME MaxNames <= 1
  PROVE  Spec => [](LinkInv /\ OneNameInv)
<1>1. Init => LinkInv /\ OneNameInv
  BY LinkInit, OneNameInit
<1>2. LinkInv /\ OneNameInv /\ [Next]_vars => (LinkInv /\ OneNameInv)'
  BY LinkStep, OneNameStep
<1> QED
  BY <1>1, <1>2, PTL DEF Spec

(* A daemon that exits regularly leaves no link behind that leads to it, if  *)
(* its host asked for at most one name.                                      *)
THEOREM CleanExit ==
  ASSUME MaxNames <= 1
  PROVE  Spec => []ExitLeavesNothing
<1>1. OneNameInv => ExitLeavesNothing
  BY DEF OneNameInv, HeldInv, ExitLeavesNothing
<1> QED
  BY <1>1, OneNameInvariance, PTL

(* Whatever other daemons, dying predecessors and the collector do, the      *)
(* links that a running, current session has handed out lead to it, if its   *)
(* host asked for at most one name.                                          *)
THEOREM LinksWork ==
  ASSUME MaxNames <= 1
  PROVE  Spec => []AdvertisedLinksWork
<1>1. LinkInv /\ OneNameInv => AdvertisedLinksWork
  <2> SUFFICES ASSUME LinkInv, OneNameInv, NEW d \in Daemons, pc[d] = "up", d \in sock, Current(d),
                      NEW a \in HandedOut(d) \ {None}
               PROVE  dir[a] = d
    BY DEF AdvertisedLinksWork
  <2>1. HasLinks(d) /\ TypeOK /\ (ses[d].rw # None => ses[d].named # None)
    BY DEF LinkInv, IInv, OneNameInv, AskInv, SeatedInv, Seated, Serving
  <2> QED
    BY <2>1, HandedOutFields DEF HasLinks, Current
<1> QED
  BY <1>1, OneNameInvariance, PTL

-----------------------------------------------------------------------------
(* The directory implements the service of links.                           *)

(* The service's variables, as the refinement maps them.                    *)
WhoIs(d)   == IF d \in Serves THEN ses[d].ident ELSE None
LeadsTo(a) == IF dir[a] \in Serves THEN dir[a] ELSE None
Busy       == IF lock \in Serves THEN lock ELSE None

(* The seat of a session in the service. *)
InSeat(t) == WhoIs(t) = None \/ LeadsTo(StableRw(WhoIs(t))) = t

SameSessions ==
  /\ Serves' = Serves /\ Marked' = Marked /\ Hidden' = Hidden
  /\ \A e \in Daemons : WhoIs(e)' = WhoIs(e)

SameService ==
  /\ SameSessions /\ Busy' = Busy
  /\ \A a \in Alias : LeadsTo(a)' = LeadsTo(a)

(* The steps of the service, seen from the directory: nothing changes, ...   *)
LEMMA ServiceStutter ==
  ASSUME SameService
  PROVE  UNCHANGED Service!lvars
  BY DEF SameService, SameSessions, Service!lvars, WhoIs, LeadsTo, Busy

(* ... a session takes a link it may take, ...                              *)
LEMMA ServiceTake ==
  ASSUME NEW d \in Daemons, NEW a \in Alias, d \in Serves, Busy = d,
         \/ LeadsTo(a) \in {None, d} \cup Hidden
         \/ LeadsTo(a) \in Daemons /\ WhoIs(LeadsTo(a)) # None /\ WhoIs(LeadsTo(a)) = WhoIs(d)
         \/ LeadsTo(a) \in Daemons /\ ~InSeat(LeadsTo(a)),
         \A t \in Daemons : WhoIs(t) = None \/ StableRw(WhoIs(t)) \in Alias,
         SameSessions, Busy' = Busy,
         \A b \in Alias : LeadsTo(b)' = IF b = a THEN d ELSE LeadsTo(b)
  PROVE  Service!Next
<1> DEFINE who == [e \in Daemons |-> WhoIs(e)]
           leads == [b \in Alias |-> LeadsTo(b)]
<1>1. leads' = [leads EXCEPT ![a] = d]
  OBVIOUS
<1>2. who' = who
  BY DEF SameSessions
<1>3. \/ leads[a] \in {None, d} \cup Hidden
      \/ who[leads[a]] # None /\ who[leads[a]] = who[d]
      \/ ~(who[leads[a]] = None \/ leads[StableRw(who[leads[a]])] = leads[a])
  BY DEF InSeat
<1>4. Service!Take(d)
  <2>1. Service!MayTake(d, a)
    BY <1>3 DEF Service!MayTake, Service!Current, WhoIs, LeadsTo
  <2> QED
    BY <1>1, <1>2, <2>1 DEF Service!Take, SameSessions, WhoIs, LeadsTo, Busy
<1> QED
  BY <1>4 DEF Service!Next

(* ... it drops links of its own, or clears those of hidden or replaced     *)
(* sessions, perhaps as its last deed, ...                                  *)
Clearable(d, t) == t \in {None, d} \cup Hidden \/ (t \in Daemons /\ ~InSeat(t))

LEMMA ServiceDrop ==
  ASSUME NEW d \in Daemons, Busy = d, Busy' \in {d, None}, SameSessions,
         \A t \in Daemons : WhoIs(t) = None \/ StableRw(WhoIs(t)) \in Alias,
         \A b \in Alias : LeadsTo(b) \in Daemons \cup {None},
         \A b \in Alias : \/ LeadsTo(b)' = LeadsTo(b)
                          \/ LeadsTo(b)' = None /\ Clearable(d, LeadsTo(b))
  PROVE  Service!Next
<1> DEFINE who == [e \in Daemons |-> WhoIs(e)]
           leads == [b \in Alias |-> LeadsTo(b)]
<1>1. leads' \in [Alias -> Daemons \cup {None}]
  OBVIOUS
<1>2. who' = who
  BY DEF SameSessions
<1> DEFINE L == {l \in Alias : \/ leads[l] \in {None, d} \cup Hidden
                               \/ ~(who[leads[l]] = None \/ leads[StableRw(who[leads[l]])] = leads[l])}
<1>3. \A b \in Alias : leads'[b] = leads[b] \/ (b \in L /\ leads'[b] = None)
  BY DEF Clearable, InSeat
<1>4. leads' \in [Alias -> Daemons \cup {None}]
      /\ \A b \in Alias : leads'[b] = leads[b] \/ (b \in L /\ leads'[b] = None)
  BY <1>1, <1>3
<1>5. Service!Drop(d)
  BY <1>2, <1>4 DEF Service!Clear, Service!Drop, Service!Current, SameSessions, WhoIs, LeadsTo,
     Busy
<1> QED
  BY <1>5 DEF Service!Next

(* ... it begins, perhaps with its identity, ...                            *)
LEMMA ServiceBegin ==
  ASSUME NEW d \in Daemons, d \in Serves, Busy = None, Busy' = d, Serves' = Serves,
         Marked' = Marked, Hidden' = Hidden,
         \A e \in Daemons \ {d} : WhoIs(e)' = WhoIs(e),
         WhoIs(d)' = WhoIs(d) \/ (WhoIs(d) = None /\ WhoIs(d)' \in Hosts),
         \A b \in Alias : LeadsTo(b)' = LeadsTo(b)
  PROVE  Service!Next
<1> DEFINE who == [e \in Daemons |-> WhoIs(e)]
<1>1. who' = [who EXCEPT ![d] = WhoIs(d)']
  OBVIOUS
<1>2. UNCHANGED who \/ (who[d] = None /\ \E h \in Hosts : who' = [who EXCEPT ![d] = h])
  BY <1>1
<1>3. Service!Begin(d)
  BY <1>2 DEF Service!Begin, WhoIs, LeadsTo, Busy
<1> QED
  BY <1>3 DEF Service!Next

(* ... a session opens with a link of its own, ...                          *)
LEMMA ServiceOpen ==
  ASSUME NEW d \in Daemons, NEW a \in Alias, d \notin Serves, LeadsTo(a) = None,
         Busy' = Busy, Serves' = Serves \cup {d},
         Marked' \in {Marked, Marked \cup {d}}, Hidden' = Hidden,
         \A e \in Daemons : WhoIs(e)' = WhoIs(e),
         \A b \in Alias : LeadsTo(b)' = IF b = a THEN d ELSE LeadsTo(b)
  PROVE  Service!Next
<1> DEFINE leads == [b \in Alias |-> LeadsTo(b)]
<1>1. leads' = [leads EXCEPT ![a] = d]
  OBVIOUS
<1>2. Service!Open(d)
  BY <1>1 DEF Service!Open, WhoIs, LeadsTo, Busy
<1> QED
  BY <1>2 DEF Service!Next

(* ... or hidden, and perhaps without a link, ...                           *)
LEMMA ServiceOpenHidden ==
  ASSUME NEW d \in Daemons, NEW a \in Alias, d \notin Serves,
         Busy' = Busy, Serves' = Serves \cup {d}, Marked' = Marked, Hidden' = Hidden \cup {d},
         \A e \in Daemons : WhoIs(e)' = WhoIs(e),
         \/ \A b \in Alias : LeadsTo(b)' = LeadsTo(b)
         \/ /\ LeadsTo(a) = None
            /\ \A b \in Alias : LeadsTo(b)' = IF b = a THEN d ELSE LeadsTo(b)
  PROVE  Service!Next
<1> DEFINE leads == [b \in Alias |-> LeadsTo(b)]
<1>1. leads' = leads \/ (leads[a] = None /\ leads' = [leads EXCEPT ![a] = d])
  OBVIOUS
<1>2. Service!OpenHidden(d)
  BY <1>1 DEF Service!OpenHidden, WhoIs, LeadsTo, Busy
<1> QED
  BY <1>2 DEF Service!Next

(* ... a mark takes effect or is forgotten, ...                             *)
LEMMA ServiceHide ==
  ASSUME NEW d \in Daemons, d \in Marked, Busy' = Busy, Serves' = Serves,
         Marked' = Marked \ {d}, Hidden' \in {Hidden, Hidden \cup {d}},
         \A e \in Daemons : WhoIs(e)' = WhoIs(e),
         \A b \in Alias : LeadsTo(b)' = LeadsTo(b)
  PROVE  Service!Next
<1>1. Service!Hide(d)
  BY DEF Service!Hide, WhoIs, LeadsTo, Busy
<1> QED
  BY <1>1 DEF Service!Next

(* ... links of hidden sessions get lost, ...                               *)
LEMMA ServiceLose ==
  ASSUME SameSessions, Busy' = Busy,
         \A b \in Alias : LeadsTo(b) \in Daemons \cup {None},
         \A b \in Alias : \/ LeadsTo(b)' = LeadsTo(b)
                          \/ LeadsTo(b)' = None /\ LeadsTo(b) \in Hidden
  PROVE  Service!Next
<1> DEFINE leads == [b \in Alias |-> LeadsTo(b)]
           L == {l \in Alias : leads[l] \in Hidden}
<1>1. leads' \in [Alias -> Daemons \cup {None}]
  OBVIOUS
<1>2. \A b \in Alias : leads'[b] = leads[b] \/ (b \in L /\ leads'[b] = None)
  OBVIOUS
<1>3. leads' \in [Alias -> Daemons \cup {None}]
      /\ \A b \in Alias : leads'[b] = leads[b] \/ (b \in L /\ leads'[b] = None)
  BY <1>1, <1>2
<1>4. Service!Lose
  BY <1>3 DEF Service!Clear, Service!Lose, SameSessions, WhoIs, LeadsTo, Busy
<1> QED
  BY <1>4 DEF Service!Next

(* ... a session stops, and its links with it.                              *)
LEMMA ServiceStop ==
  ASSUME NEW d \in Daemons, d \in Serves,
         Busy' = IF Busy = d THEN None ELSE Busy, Serves' = Serves \ {d},
         Marked' = Marked \ {d}, Hidden' = Hidden \ {d},
         \A e \in Daemons \ {d} : WhoIs(e)' = WhoIs(e), WhoIs(d)' = None,
         \A b \in Alias : LeadsTo(b)' = IF LeadsTo(b) = d THEN None ELSE LeadsTo(b)
  PROVE  Service!Next
<1> DEFINE who == [e \in Daemons |-> WhoIs(e)]
           leads == [b \in Alias |-> LeadsTo(b)]
<1>1. leads' = [b \in Alias |-> IF leads[b] = d THEN None ELSE leads[b]]
  OBVIOUS
<1>2. who' = [who EXCEPT ![d] = None]
  OBVIOUS
<1>3. Service!Stop(d)
  BY <1>1, <1>2 DEF Service!Stop, WhoIs, LeadsTo, Busy
<1> QED
  BY <1>3 DEF Service!Next

(* At first there is no session and no link.                                *)
LEMMA ServiceInit == Init => Service!Init
<1> SUFFICES ASSUME Init PROVE Service!Init
  OBVIOUS
<1>1. Serves = {} /\ Marked = {} /\ Hidden = {}
  BY DEF Init, Serves, Marked, Hidden, Running, Serving, Naming, Handover
<1> QED
  BY <1>1 DEF Init, Service!Init

(* The collector unlinks one socket at a time: what it does to sockets,     *)
(* links and its list.                                                      *)
LEMMA MainSteps ==
  ASSUME Collector \/ MainRestart \/ Quiet
  PROVE  \/ UNCHANGED <<sock, dir, victims>>
         \/ UNCHANGED <<sock, dir>> /\ victims' = {}
         \/ /\ UNCHANGED <<sock, dir>> /\ victims = {}
            /\ \A d \in Daemons : Sock(d) \in victims' =>
                 victims' = {Sock(d)} /\ pc[d] \notin Serving
         \/ /\ GcUnlink /\ victims' = {}
            /\ sock' = {d \in sock : Sock(d) \notin victims}
<1>1. CASE GcTest
  <2>1. CASE GcTestAliases
    BY <2>1, AliasTypes DEF GcTestAliases
  <2>2. CASE \E d \in Daemons : GcTestSock(d)
    BY <2>2 DEF GcTestSock, Sock, Listening, Serving, Naming, Handover
  <2>3. CASE \E d \in Daemons : GcTestJail(d)
    BY <2>3 DEF GcTestJail, Sock, Jail
  <2> QED
    BY <1>1, <2>1, <2>2, <2>3 DEF GcTest
<1>2. CASE GcUnlink
  BY <1>2 DEF GcUnlink
<1>3. CASE GcBegin \/ GcUnlock \/ GcEnd \/ MainRestart \/ Quiet
  BY <1>3 DEF GcBegin, GcUnlock, GcEnd, MainRestart, Quiet
<1> QED
  BY <1>1, <1>2, <1>3 DEF Collector

LEMMA MarkInit == Init => MarkInv
  BY DEF Init, MarkInv

LEMMA MarkStep ==
  ASSUME TypeOK, LoopInv, CleanInv, MarkInv, [Next]_vars
  PROVE  MarkInv'
<1>1. CASE \E d \in Daemons : Daemon(d)
  BY <1>1, VictimsKept DEF MarkInv, Sock
<1>2. CASE Collector \/ MainRestart \/ Quiet
  BY <1>2, MainSteps DEF MarkInv, Sock
<1> QED
  BY <1>1, <1>2, Actors

LinkAll == LinkInv /\ OneNameInv /\ MarkInv

(* The service's view of a state.                                           *)
LEMMA View ==
  ASSUME TypeOK
  PROVE  /\ Serves = {e \in Daemons : pc[e] \in Serving}
         /\ \A e \in Daemons : WhoIs(e) = IF pc[e] \in Serving THEN ses[e].ident ELSE None
         /\ \A a \in Alias :
              /\ LeadsTo(a) = IF dir[a] \in Serves THEN dir[a] ELSE None
              /\ LeadsTo(a) \in Daemons \cup {None}
         /\ None \notin Serves
  BY NoneApart DEF Serves, Running, LeadsTo, WhoIs, TypeOK

(* The same after a step.                                                   *)
LEMMA ViewNext ==
  ASSUME TypeOK'
  PROVE  /\ Serves' = {e \in Daemons : pc'[e] \in Serving}
         /\ \A e \in Daemons : WhoIs(e)' = IF pc'[e] \in Serving THEN ses'[e].ident ELSE None
         /\ \A a \in Alias :
              LeadsTo(a)' = IF dir'[a] \in Serves' THEN dir'[a] ELSE None
         /\ Busy' = IF lock' \in Serves' THEN lock' ELSE None
         /\ None \notin Serves'
<1>1. Serves' = {e \in Daemons : pc'[e] \in Serving}
  BY DEF Serves, Running, TypeOK
<1> QED
  BY <1>1, NoneApart DEF LeadsTo, WhoIs, Busy, TypeOK

(* A stable name is a name.                                                 *)
LEMMA StableTyped ==
  ASSUME TypeOK
  PROVE  \A t \in Daemons : WhoIs(t) = None \/ StableRw(WhoIs(t)) \in Alias
  BY SessionField, AliasTypes DEF WhoIs, TypeOK

(* A step of a daemon leaves the sockets of serving daemons where they are, *)
(* and what the collector thinks of them, but for one that stops serving.   *)
LEMMA SocketsKept ==
  ASSUME IInv, IInv', NEW d \in Daemons, Daemon(d), NEW e \in Daemons,
         pc[e] \in Serving, pc'[e] \in Serving
  PROVE  /\ (e \in sock') <=> (e \in sock)
         /\ victims' = victims
<1> USE DEF IInv
<1>1. victims' = victims
  BY VictimsKept
<1>2. ~GcUnlink
  BY <1>1 DEF GcUnlink
<1>3. [Next]_vars
  BY DEF Next
<1> QED
  BY <1>1, <1>2, <1>3, SockStep DEF Serving, Naming, Handover

(* A step of a daemon that goes on serving, or goes on not serving.         *)
LEMMA Steady ==
  ASSUME IInv, IInv', NEW d \in Daemons, Daemon(d),
         pc[d] \in Serving <=> pc'[d] \in Serving,
         pc[d] \in Serving => ses'[d].ident = ses[d].ident
  PROVE  /\ SameSessions
         /\ \A a \in Alias : LeadsTo(a)' = IF dir'[a] \in Serves THEN dir'[a] ELSE None
         /\ Busy' = IF lock' \in Serves THEN lock' ELSE None
<1> USE DEF IInv
<1>1. \A e \in Daemons \ {d} : pc'[e] = pc[e] /\ ses'[e] = ses[e]
  BY ActorFrame
<1>2. \A e \in Daemons : pc[e] \in Serving <=> pc'[e] \in Serving
  BY <1>1
<1>3. \A e \in Daemons : pc[e] \in Serving => ses'[e].ident = ses[e].ident
  BY <1>1
<1>4. Serves' = Serves
  BY <1>2, View, ViewNext
<1>5. \A e \in Serves : (e \in sock' <=> e \in sock) /\ victims' = victims
  BY <1>2, SocketsKept, View
<1>6. Hidden' = Hidden /\ Marked' = Marked
  BY <1>4, <1>5 DEF Hidden, Marked, Sock
<1> QED
  BY <1>2, <1>3, <1>4, <1>6, View, ViewNext DEF SameSessions

(* A stranger's session keeps what it advertises while it has its seat and  *)
(* can be reached.                                                          *)
LEMMA StrangersName ==
  ASSUME LinkAll, NEW d \in Daemons, pc[d] \in Critical, NEW t \in Daemons, t # d,
         NEW n \in Names, LeadsTo(NamedRo(n)) = t, t \notin Hidden, InSeat(t)
  PROVE  dir[Named(n)] = t
<1> USE DEF LinkAll, LinkInv, IInv, OneNameInv
<1> DEFINE a == NamedRo(n)
<1>0. a \in Alias /\ t # None /\ a # None
  BY AliasTypes, NoneApart, NoneAssumption
<1>1. t \in Serves /\ dir[a] = t /\ pc[t] \in Serving /\ t \in sock
  BY <1>0, View DEF Hidden, LinkInv, IInv
<1>2. pc[t] \notin Critical
  BY DEF LockInv
<1>3. Seated(t)
  <2>1. CASE ses[t].ident = None
    BY <2>1 DEF Seated, Current
  <2>2. CASE ses[t].ident # None
    <3>1. LeadsTo(StableRw(ses[t].ident)) = t
      BY <1>1, <2>2 DEF InSeat, WhoIs
    <3> QED
      BY <1>0, <3>1 DEF LeadsTo, Seated, Current
  <2> QED
    BY <2>1, <2>2
<1>4. HasLinks(t)
  BY <1>1, <1>3 DEF SeatedInv
<1>5. a \in HandedOut(t)
  BY <1>0, <1>1, <1>2 DEF HeldInv, InProgress, Critical, Naming
<1>6. ses[t].rw # None => ses[t].named # None
  BY <1>2 DEF AskInv, Critical, Naming
<1>7. a \in Shown(t)
  BY <1>0, <1>5, <1>6, HandedOutFields, AliasDistinct DEF Shown
<1>8. ses[t].named = n /\ n # None
  BY <1>0, <1>7, ShownKinds
<1> QED
  BY <1>4, <1>8 DEF HasLinks

(* Who else holds a read-write name with the prefix of an identity has that  *)
(* identity.                                                                 *)
LEMMA StrangersPrefix ==
  ASSUME LinkAll, NEW d \in Daemons, pc[d] \in Critical, NEW t \in Daemons, t # d,
         NEW h \in Hosts, NEW n \in Names, LeadsTo(NamedRw(h, n)) = t
  PROVE  WhoIs(t) = h
<1> USE DEF LinkAll, LinkInv, IInv, OneNameInv
<1> DEFINE a == NamedRw(h, n)
<1>0. a \in Alias /\ t # None /\ a # None
  BY AliasTypes, NoneApart, NoneAssumption
<1>1. t \in Serves /\ dir[a] = t /\ pc[t] \in Serving
  BY <1>0, View
<1>2. pc[t] \notin Critical
  BY DEF LockInv
<1>3. a \in HandedOut(t)
  BY <1>0, <1>1, <1>2 DEF HeldInv, InProgress, Critical, Naming
<1>4. a # ses[t].ro
  BY <1>0, AliasDistinct, RoDistinct DEF RoInv
<1>5. a = ses[t].rw
  BY <1>3, <1>4, HandedOutFields, AliasDistinct, RoDistinct
<1>6. PICK p \in Hosts \cup Pins : /\ p \in Hosts => ses[t].ident = p
                                   /\ ses[t].rw = NamedRw(p, ses[t].named)
  BY <1>0, <1>2, <1>5 DEF RwInv, Critical, Naming
<1>7. p = h
  BY <1>5, <1>6, RoDistinct
<1> QED
  BY <1>1, <1>6, <1>7 DEF WhoIs

(* What the service allows in one step. *)
ServiceStep == Service!Next \/ UNCHANGED Service!lvars

(* A daemon that starts is noticed when it serves, with its first link, or   *)
(* hidden if the collector has been faster.                                  *)
LEMMA ImplStartUp ==
  ASSUME LinkAll, LinkAll', NEW d \in Daemons, StartUp(d)
  PROVE  ServiceStep
<1> USE DEF LinkAll, LinkInv, IInv, OneNameInv
<1>0. /\ Daemon(d) /\ d # None /\ dir \in [Alias -> Daemons \cup {None}]
      /\ RandomRo(d) \in Alias /\ lock' = lock
  BY NoneApart, AliasTypes, StartUpStep DEF Daemon, TypeOK
<1>1. CASE pc[d] # "linked"
  <2>1. /\ pc[d] \notin Serving /\ pc'[d] \notin Serving /\ d \notin Serves
        /\ \/ dir' = dir
           \/ pc[d] = "listening" /\ dir' = [dir EXCEPT ![RandomRo(d)] = d]
    BY <1>1, StartUpStep, View DEF Serving, Naming, Handover
  <2>2. \A a \in Alias : dir'[a] = dir[a] \/ (dir[a] = None /\ dir'[a] = d)
    BY <1>0, <2>1 DEF StartInv
  <2>3. SameService
    <3>1. /\ SameSessions
          /\ \A a \in Alias : LeadsTo(a)' = IF dir'[a] \in Serves THEN dir'[a] ELSE None
          /\ Busy' = IF lock' \in Serves THEN lock' ELSE None
      BY <1>0, <2>1, Steady
    <3>2. Busy' = Busy
      BY <1>0, <3>1 DEF Busy
    <3>3. \A a \in Alias : LeadsTo(a)' = LeadsTo(a)
      BY <2>1, <2>2, <3>1, View
    <3> QED
      BY <3>1, <3>2, <3>3 DEF SameService
  <2> QED
    BY <2>3, ServiceStutter DEF ServiceStep
<1>2. CASE pc[d] = "linked"
  <2>1. pc'[d] = "up" /\ ses'[d] = ses[d] /\ dir' = dir /\ sock' = sock /\ victims' = victims
    BY <1>2, StartUpStep
  <2>2. d \notin Serves /\ pc[d] \notin Serving /\ pc'[d] \in Serving
    BY <1>2, <2>1, View DEF Serving, Naming, Handover
  <2>3. \A e \in Daemons \ {d} : pc'[e] = pc[e] /\ ses'[e] = ses[e]
    BY <1>0, ActorFrame
  <2>4. ses[d] = [FreshSession EXCEPT !.ro = RandomRo(d)]
    BY <1>2 DEF FreshInv
  <2>5. ses[d].ident = None /\ ses[d].named = None /\ ses[d].ro = RandomRo(d) /\ ses[d].rw = None
    BY <2>4 DEF FreshSession
  <2>6. Serves' = Serves \cup {d}
    BY <2>1, <2>2, <2>3, View, ViewNext
  <2>7. \A e \in Daemons : WhoIs(e)' = WhoIs(e)
    BY <2>1, <2>2, <2>3, <2>5, View, ViewNext
  <2>8. lock # d
    BY <1>2 DEF LockInv, Critical, Naming, Handover, Leaving
  <2>9. Busy' = Busy
    BY <1>0, <2>6, <2>8, ViewNext DEF Busy
  <2>10. \A a \in Alias : dir[a] = d => a = RandomRo(d)
    <3>1. \A a \in Alias : dir[a] = d => a \in HandedOut(d)
      BY <1>2 DEF HeldInv, InProgress
    <3> QED
      BY <2>5, <3>1, HandedOutFields, NoneAssumption
  <2>11. /\ dir[RandomRo(d)] = d =>
              \A b \in Alias : LeadsTo(b)' = IF b = RandomRo(d) THEN d ELSE LeadsTo(b)
         /\ dir[RandomRo(d)] # d => \A b \in Alias : LeadsTo(b)' = LeadsTo(b)
    BY <1>0, <2>1, <2>6, <2>10, View, ViewNext
  <2>12. CASE d \in sock
    <3>1. HasLinks(d)
      BY <1>2, <2>5, <2>12 DEF SeatedInv, Seated, Current
    <3>2. dir[RandomRo(d)] = d
      BY <2>5, <3>1 DEF HasLinks
    <3>3. LeadsTo(RandomRo(d)) = None
      BY <1>0, <2>2, <3>2, View
    <3>4. Hidden' = Hidden /\ Marked' \in {Marked, Marked \cup {d}}
      <4>1. CASE Sock(d) \in victims
        BY <2>1, <2>6, <2>12, <4>1 DEF Hidden, Marked, Sock
      <4>2. CASE Sock(d) \notin victims
        BY <2>1, <2>6, <2>12, <4>2 DEF Hidden, Marked, Sock
      <4> QED
        BY <4>1, <4>2
    <3>5. Service!Next
      BY <1>0, <2>2, <2>6, <2>7, <2>9, <2>11, <3>2, <3>3, <3>4, ServiceOpen
    <3> QED
      BY <3>5 DEF ServiceStep
  <2>13. CASE d \notin sock
    <3>1. dir[RandomRo(d)] = d => LeadsTo(RandomRo(d)) = None
      BY <1>0, <2>2, View
    <3>2. Hidden' = Hidden \cup {d} /\ Marked' = Marked
      BY <2>1, <2>6, <2>13 DEF Hidden, Marked, Sock
    <3>3. Service!Next
      BY <1>0, <2>2, <2>6, <2>7, <2>9, <2>11, <3>1, <3>2, ServiceOpenHidden
    <3> QED
      BY <3>3 DEF ServiceStep
  <2> QED
    BY <2>12, <2>13
<1> QED
  BY <1>1, <1>2

LEMMA ImplMessage ==
  ASSUME LinkAll, LinkAll', NEW d \in Daemons, Message(d)
  PROVE  ServiceStep
<1> USE DEF LinkAll, LinkInv, IInv, OneNameInv
<1>0. /\ Daemon(d) /\ d # None /\ pc[d] = "up" /\ dir' = dir /\ pc'[d] \in Serving
      /\ d \in Serves /\ pc[d] \in Serving /\ dir \in [Alias -> Daemons \cup {None}]
  BY NoneApart, MessageStep, View DEF Daemon, Serving, Naming, Handover, TypeOK
<1>1. /\ Serves' = Serves /\ Marked' = Marked /\ Hidden' = Hidden
      /\ \A e \in Daemons \ {d} : WhoIs(e)' = WhoIs(e)
  <2>1. \A e \in Daemons \ {d} : pc'[e] = pc[e] /\ ses'[e] = ses[e]
    BY <1>0, ActorFrame
  <2>2. \A e \in Daemons : pc'[e] \in Serving <=> pc[e] \in Serving
    BY <1>0, <2>1
  <2>3. Serves' = Serves
    BY <2>2, View, ViewNext
  <2>4. ASSUME NEW e \in Daemons \ {d} PROVE WhoIs(e)' = WhoIs(e)
    BY <2>1, View, ViewNext
  <2>5. Marked' = Marked /\ Hidden' = Hidden
    BY <2>3, MessageStep DEF Marked, Hidden, Sock
  <2> QED
    BY <2>3, <2>4, <2>5
<1>2. \A a \in Alias : LeadsTo(a)' = LeadsTo(a)
  BY <1>0, <1>1, View, ViewNext
<1>3. WhoIs(d) = ses[d].ident /\ WhoIs(d)' = ses'[d].ident
  BY <1>0, View, ViewNext
<1>4. \/ lock' = lock /\ ses'[d].ident = ses[d].ident
      \/ /\ lock = None /\ lock' = d
         /\ ses'[d].ident = ses[d].ident \/ (ses[d].ident = None /\ ses'[d].ident \in Hosts)
  BY MessageStep DEF SameLinks
<1>5. CASE lock' = lock /\ ses'[d].ident = ses[d].ident
  <2>1. SameService
    BY <1>1, <1>2, <1>3, <1>5, ViewNext DEF SameService, SameSessions, Busy
  <2> QED
    BY <2>1, ServiceStutter DEF ServiceStep
<1>6. CASE lock = None /\ lock' = d /\ (\/ ses'[d].ident = ses[d].ident
                                      \/ (ses[d].ident = None /\ ses'[d].ident \in Hosts))
  <2>1. Busy = None /\ Busy' = d
    BY <1>0, <1>1, <1>6, View, ViewNext DEF Busy
  <2>2. Service!Next
    BY <1>0, <1>1, <1>2, <1>3, <1>6, <2>1, ServiceBegin
  <2> QED
    BY <2>2 DEF ServiceStep
<1> QED
  BY <1>4, <1>5, <1>6

(* The directory is as in the service after a link was pointed at d.        *)
LEMMA ImplTake ==
  ASSUME LinkAll, LinkAll', NEW d \in Daemons, Daemon(d), pc[d] \in Serving, pc'[d] \in Serving,
         pc[d] \in Critical, lock' = lock,
         ses'[d].ident = ses[d].ident, NEW a \in Alias, dir' = [dir EXCEPT ![a] = d],
         \A t \in Daemons \ {d} : LeadsTo(a) = t => (WhoIs(t) = ses[d].ident /\ WhoIs(t) # None)
                                                  \/ t \in Hidden \/ ~InSeat(t)
  PROVE  ServiceStep
<1> USE DEF LinkAll, LinkInv, IInv
<1>0. /\ d \in Serves /\ WhoIs(d) = ses[d].ident /\ lock = d
      /\ dir \in [Alias -> Daemons \cup {None}]
  BY View DEF LockInv, TypeOK
<1>1. /\ SameSessions
      /\ \A b \in Alias : LeadsTo(b)' = IF dir'[b] \in Serves THEN dir'[b] ELSE None
      /\ Busy' = IF lock' \in Serves THEN lock' ELSE None
  BY Steady
<1>2. Busy = d /\ Busy' = Busy
  BY <1>0, <1>1 DEF Busy
<1>3. \A b \in Alias : LeadsTo(b)' = IF b = a THEN d ELSE LeadsTo(b)
  BY <1>0, <1>1, View
<1>4. \/ LeadsTo(a) \in {None, d} \cup Hidden
      \/ LeadsTo(a) \in Daemons /\ WhoIs(LeadsTo(a)) # None /\ WhoIs(LeadsTo(a)) = WhoIs(d)
      \/ LeadsTo(a) \in Daemons /\ ~InSeat(LeadsTo(a))
  BY <1>0, View
<1>5. Service!Next
  BY <1>0, <1>1, <1>2, <1>3, <1>4, StableTyped, ServiceTake
<1> QED
  BY <1>5 DEF ServiceStep

(* ... after links were cleared, or none, and the lock perhaps released.    *)
LEMMA ImplClear ==
  ASSUME LinkAll, LinkAll', NEW d \in Daemons, Daemon(d), pc[d] \in Serving, pc'[d] \in Serving,
         pc[d] \in Critical, lock' \in {lock, None}, ses'[d].ident = ses[d].ident,
         \A b \in Alias : \/ dir'[b] = dir[b]
                          \/ dir'[b] = None /\ Clearable(d, LeadsTo(b))
  PROVE  ServiceStep
<1> USE DEF LinkAll, LinkInv, IInv
<1>0. d \in Serves /\ lock = d /\ d # None /\ None \notin Serves
  BY View, NoneApart DEF LockInv
<1>1. /\ SameSessions
      /\ \A b \in Alias : LeadsTo(b)' = IF dir'[b] \in Serves THEN dir'[b] ELSE None
      /\ Busy' = IF lock' \in Serves THEN lock' ELSE None
  BY Steady
<1>2. Busy = d /\ Busy' \in {d, None}
  BY <1>0, <1>1 DEF Busy
<1>3. \A b \in Alias : \/ LeadsTo(b)' = LeadsTo(b)
                       \/ LeadsTo(b)' = None /\ Clearable(d, LeadsTo(b))
  BY <1>0, <1>1, View
<1>4. Service!Next
  BY <1>1, <1>2, <1>3, View, StableTyped, ServiceDrop
<1> QED
  BY <1>4 DEF ServiceStep

LEMMA ImplDrop ==
  ASSUME LinkAll, LinkAll', NEW d \in Daemons, Daemon(d), pc[d] \in Serving, pc'[d] \in Serving,
         pc[d] \in Critical, lock' \in {lock, None}, ses'[d].ident = ses[d].ident,
         NEW a, dir' = dir \/ (a \in Alias /\ dir' = [dir EXCEPT ![a] = None]),
         a \in Alias => LeadsTo(a) \in {None, d}
  PROVE  ServiceStep
<1>1. dir \in [Alias -> Daemons \cup {None}]
  BY DEF LinkAll, LinkInv, IInv, TypeOK
<1>2. \A b \in Alias : dir'[b] = dir[b] \/ (dir'[b] = None /\ Clearable(d, LeadsTo(b)))
  BY <1>1 DEF Clearable
<1> QED
  BY <1>2, ImplClear

(* A reconnect rearranges the links of one identity.                        *)
LEMMA ImplIdentity ==
  ASSUME LinkAll, LinkAll', NEW d \in Daemons,
         (InstallStableRw(d) \/ InstallStableRo(d)) \/ FinishIdentity(d)
  PROVE  ServiceStep
<1> USE DEF LinkAll, LinkInv, IInv
<1>0. Daemon(d) /\ d # None /\ None \notin Alias /\ dir \in [Alias -> Daemons \cup {None}]
  BY NoneApart, NoneAssumption DEF Daemon, IdentityStep, TypeOK
<1>1. CASE InstallStableRw(d) \/ InstallStableRo(d)
  <2>1. /\ ses'[d] = ses[d] /\ lock' = lock /\ ses[d].ident \in Hosts
        /\ pc[d] \in {"id_rw", "id_ro"} /\ pc'[d] \in {"id_ro", "id_old"}
    BY <1>1, InstallStep
  <2>2. PICK a \in {StableRw(ses[d].ident), StableRo(ses[d].ident)} : dir' = [dir EXCEPT ![a] = d]
    BY <1>1, InstallStep
  <2>3. a \in Alias
    BY <2>1, <2>2, AliasTypes
  <2>4. ASSUME NEW t \in Daemons \ {d}, LeadsTo(a) = t
        PROVE  WhoIs(t) = ses[d].ident /\ WhoIs(t) # None
    <3>1. dir[a] = t /\ t \in Serves /\ t # None
      BY <2>3, <2>4, View, NoneApart
    <3>2. IsHeir(t, ses[d].ident)
      BY <2>1, <2>2, <3>1 DEF IdentityInv, SeatInv
    <3> QED
      BY <2>1, <3>1, <3>2, NoneApart DEF IsHeir, Serves, WhoIs
  <2>5. pc[d] \in Serving /\ pc'[d] \in Serving /\ pc[d] \in Critical
    BY <2>1 DEF Serving, Critical, Handover
  <2> QED
    BY <1>0, <2>1, <2>2, <2>3, <2>4, <2>5, ImplTake
<1>2. CASE FinishIdentity(d)
  <2>1. /\ pc[d] = "id_old" /\ pc'[d] \in {"up", "try"} /\ lock' \in {d, None}
        /\ ses'[d].ident = ses[d].ident
        /\ dir' = dir \/ (PointsTo(ses[d].ro, d) /\ dir' = [dir EXCEPT ![ses[d].ro] = None])
    BY <1>2, FinishIdentityStep
  <2>2. /\ pc[d] \in Serving /\ pc'[d] \in Serving /\ pc[d] \in Critical /\ lock = d
        /\ d \in Serves
    BY <2>1, View DEF Serving, Critical, Handover, Naming, LockInv
  <2>3. ses[d].ro \in Alias \cup {None}
    BY SessionField DEF TypeOK
  <2>4. CASE dir' = dir
    BY <1>0, <2>1, <2>2, <2>4, ImplDrop
  <2>5. CASE PointsTo(ses[d].ro, d) /\ dir' = [dir EXCEPT ![ses[d].ro] = None]
    <3>1. ses[d].ro \in Alias /\ LeadsTo(ses[d].ro) = d
      BY <2>2, <2>3, <2>5, View DEF PointsTo
    <3> QED
      BY <1>0, <2>1, <2>2, <2>5, <3>1, ImplDrop
  <2> QED
    BY <2>1, <2>4, <2>5
<1> QED
  BY <1>1, <1>2

(* A name taken over, claimed or reclaimed robs no stranger.                *)
LEMMA ImplName ==
  ASSUME LinkAll, LinkAll', NEW d \in Daemons, NameStep(d)
  PROVE  ServiceStep
<1> USE DEF LinkAll, LinkInv, IInv, OneNameInv
<1>0. /\ Daemon(d) /\ d # None /\ dir \in [Alias -> Daemons \cup {None}]
      /\ None \notin Serves
  BY NoneApart, View DEF Daemon, TypeOK
<1>1. ASSUME pc[d] \in {"try", "link_rw", "link_ro", "drop_ro"}
      PROVE  /\ pc[d] \in Serving /\ pc[d] \in Critical /\ lock = d /\ d \in Serves
             /\ Candidate(d) \in Names /\ Named(Candidate(d)) \in Alias
             /\ NamedRo(Candidate(d)) \in Alias
  BY <1>1, View, CandidateTyped, AliasTypes DEF Serving, Critical, Naming, LockInv
<1>2. CASE TakeOverName(d) \/ ClaimName(d)
  <2>1. /\ pc[d] = "try" /\ pc'[d] = "link_rw" /\ ses' = ses /\ lock' = lock
        /\ dir' = [dir EXCEPT ![Named(Candidate(d))] = d]
        /\ dir[Named(Candidate(d))] = None \/ OwnsName(d, Candidate(d))
    BY <1>2 DEF TakeOverName, ClaimName, Symlink, Replace, TypeOK
  <2>2. ASSUME NEW t \in Daemons \ {d}, LeadsTo(Named(Candidate(d))) = t
        PROVE  WhoIs(t) = ses[d].ident /\ WhoIs(t) # None
    <3>1. dir[Named(Candidate(d))] = t /\ t \in Serves /\ t # None
      BY <1>1, <2>1, <2>2, View, NoneApart
    <3>2. t = ses[d].prev
      BY <2>1, <3>1 DEF OwnsName
    <3>3. ses[d].ident \in Hosts /\ IsHeir(t, ses[d].ident)
      BY <3>1, <3>2 DEF IdentityInv
    <3> QED
      BY <3>1, <3>3, NoneApart DEF IsHeir, Serves, WhoIs
  <2>3. pc'[d] \in Serving
    BY <2>1 DEF Serving, Naming
  <2> QED
    BY <1>0, <1>1, <2>1, <2>2, <2>3, ImplTake
<1>3. CASE ReclaimName(d)
  <2> DEFINE a == NamedRo(Candidate(d))
  <2>1. /\ pc[d] = "try" /\ pc' = pc /\ ses' = ses /\ lock' = lock
        /\ dir' = [dir EXCEPT ![Named(Candidate(d))] = None, ![a] = None]
        /\ dir[Named(Candidate(d))] # None /\ dir[Named(Candidate(d))] \notin sock
    BY <1>3 DEF ReclaimName, Dangling
  <2>2. Clearable(d, LeadsTo(Named(Candidate(d))))
    BY <2>1 DEF Clearable, LeadsTo, Hidden
  <2>3. Clearable(d, LeadsTo(a))
    <3>1. ASSUME NEW t \in Daemons, t # d, LeadsTo(a) = t, t \notin Hidden, InSeat(t) PROVE FALSE
      <4>1. dir[Named(Candidate(d))] = t
        BY <1>1, <2>1, <3>1, StrangersName
      <4>2. t \in Serves
        BY <1>1, <2>1, <3>1, View, NoneApart
      <4> QED
        BY <2>1, <3>1, <4>1, <4>2 DEF Hidden
    <3> QED
      BY <1>1, <2>1, <3>1, View DEF Clearable
  <2>4. \A b \in Alias : dir'[b] = dir[b] \/ (dir'[b] = None /\ Clearable(d, LeadsTo(b)))
    BY <1>0, <2>1, <2>2, <2>3
  <2> QED
    BY <1>0, <1>1, <2>1, <2>4, ImplClear
<1>4. CASE NextName(d)
  <2>1. /\ pc[d] = "try" /\ pc'[d] \in {"up", "try"} /\ dir' = dir
        /\ lock' \in {lock, None} /\ ses'[d].ident = ses[d].ident
    BY <1>4, NextStep DEF SameLinks
  <2>2. pc'[d] \in Serving
    BY <2>1 DEF Serving, Naming
  <2>3. None \notin Alias
    BY NoneAssumption
  <2> QED
    BY <1>0, <1>1, <2>1, <2>2, <2>3, ImplDrop
<1>5. CASE \E p \in Hosts \cup Pins : LinkNamedRw(d, p)
  <2>1. PICK p \in Hosts \cup Pins : LinkNamedRw(d, p)
    BY <1>5
  <2> DEFINE a == NamedRw(p, Candidate(d))
  <2>2. pc[d] = "link_rw" /\ ses'[d].ident = ses[d].ident /\ dir[Named(Candidate(d))] = d
    BY <2>1, LinkRwStep DEF HolderInv
  <2>3. CASE /\ pc'[d] = "link_ro" /\ lock' = lock /\ dir' = [dir EXCEPT ![a] = d]
             /\ ses[d].ident # None \/ dir[a] = None
    <3>1. a \in Alias
      BY <1>1, <2>2, AliasTypes
    <3>2. ASSUME NEW t \in Daemons \ {d}, LeadsTo(a) = t
          PROVE  WhoIs(t) = ses[d].ident /\ WhoIs(t) # None
      <4>1. t # None /\ dir[a] = t
        BY <3>1, <3>2, View, NoneApart
      <4>2. ses[d].ident # None /\ p = ses[d].ident /\ p \in Hosts
        BY <2>1, <2>3, <4>1, LinkRwStep, SessionField DEF TypeOK
      <4>3. WhoIs(t) = p
        BY <1>1, <2>2, <3>2, <4>2, StrangersPrefix
      <4> QED
        BY <4>2, <4>3
    <3>3. pc'[d] \in Serving
      BY <2>3 DEF Serving, Naming
    <3> QED
      BY <1>0, <1>1, <2>2, <2>3, <3>1, <3>2, <3>3, ImplTake
  <2>4. CASE /\ pc'[d] = "up" /\ lock' = None
             /\ dir' = [dir EXCEPT ![Named(Candidate(d))] = None]
    <3>1. pc'[d] \in Serving
      BY <2>4 DEF Serving
    <3>2. LeadsTo(Named(Candidate(d))) = d
      BY <1>1, <2>2, View
    <3> QED
      BY <1>0, <1>1, <2>2, <2>4, <3>1, <3>2, ImplDrop
  <2> QED
    BY <2>1, <2>3, <2>4, LinkRwStep
<1>6. CASE LinkNamedRo(d)
  <2>1. /\ pc[d] = "link_ro" /\ pc'[d] = "drop_ro" /\ ses'[d] = ses[d] /\ lock' = lock
        /\ dir' = [dir EXCEPT ![NamedRo(Candidate(d))] = d]
    BY <1>6, LinkRoStep
  <2>2. ASSUME NEW t \in Daemons \ {d}, LeadsTo(NamedRo(Candidate(d))) = t
        PROVE  t \in Hidden \/ ~InSeat(t)
    <3>1. dir[Named(Candidate(d))] = d
      BY <2>1 DEF HolderInv
    <3> QED
      BY <1>1, <2>1, <2>2, <3>1, StrangersName
  <2>3. pc'[d] \in Serving
    BY <2>1 DEF Serving, Naming
  <2> QED
    BY <1>0, <1>1, <2>1, <2>2, <2>3, ImplTake
<1>7. CASE FinishName(d)
  <2>1. /\ pc[d] = "drop_ro" /\ pc'[d] = "up" /\ lock' = None
        /\ ses'[d].ident = ses[d].ident
        /\ dir' = dir \/ (PointsTo(ses[d].ro, d) /\ dir' = [dir EXCEPT ![ses[d].ro] = None])
    BY <1>7, FinishNameStep
  <2>2. pc'[d] \in Serving /\ None \notin Alias
    BY <2>1, NoneAssumption DEF Serving
  <2>3. CASE dir' = dir
    BY <1>0, <1>1, <2>1, <2>2, <2>3, ImplDrop
  <2>4. CASE PointsTo(ses[d].ro, d) /\ dir' = [dir EXCEPT ![ses[d].ro] = None]
    <3>1. ses[d].ro \in Alias
      BY <2>4, SessionField DEF TypeOK, PointsTo
    <3>2. LeadsTo(ses[d].ro) = d
      BY <1>1, <2>1, <2>4, <3>1, View DEF PointsTo
    <3> QED
      BY <1>0, <1>1, <2>1, <2>2, <2>4, <3>1, <3>2, ImplDrop
  <2> QED
    BY <2>1, <2>3, <2>4
<1> QED
  BY <1>2, <1>3, <1>4, <1>5, <1>6, <1>7 DEF NameStep

(* However a daemon ends, its links end with it.                            *)
LEMMA ImplEnd ==
  ASSUME LinkAll, LinkAll', NEW d \in Daemons, (Exit(d) \/ ExitStep(d)) \/ (Crash(d) \/ Kill(d))
  PROVE  ServiceStep
<1> USE DEF LinkAll, LinkInv, IInv
<1>0. /\ Daemon(d) /\ d # None /\ dir \in [Alias -> Daemons \cup {None}]
      /\ None \notin Serves /\ pc'[d] \notin Serving
      /\ pc[d] \in Serving => dir' = dir /\ lock' \in {lock, IF lock = d THEN None ELSE lock}
      /\ pc[d] \notin Serving =>
           /\ lock' = lock \/ (lock \in {None, d} /\ lock' \in {None, d})
           /\ \A a \in Alias : dir'[a] = dir[a] \/ (dir[a] = d /\ dir'[a] = None)
  <2>1. CASE Exit(d) \/ ExitStep(d)
    <3>1. /\ pc'[d] \notin Serving
          /\ pc[d] \in Serving => dir' = dir /\ lock' = lock
      BY <2>1, ExitStepStep DEF Serving, Naming, Handover
    <3>2. lock' = lock \/ (lock \in {None, d} /\ lock' \in {None, d})
      BY <2>1, ExitStepStep DEF LockInv, Critical, Leaving
    <3>3. \A a \in Alias : dir'[a] = dir[a] \/ (dir[a] = d /\ dir'[a] = None)
      BY <2>1, ExitStepStep DEF CleanInv, PointsTo, TypeOK
    <3> QED
      BY <2>1, <3>1, <3>2, <3>3, NoneApart, View DEF Daemon, TypeOK
  <2>2. CASE Crash(d) \/ Kill(d)
    BY <2>2, EndStep, NoneApart, View DEF Daemon, TypeOK, Serving, Naming, Handover
  <2> QED
    BY <2>1, <2>2
<1>1. \A e \in Daemons \ {d} : pc'[e] = pc[e] /\ ses'[e] = ses[e]
  BY <1>0, ActorFrame
<1>2. CASE pc[d] \in Serving
  <2>1. d \in Serves
    BY <1>2, View
  <2>2. Serves' = Serves \ {d}
    BY <1>0, <1>1, View, ViewNext
  <2>8. Hidden' = Hidden \ {d} /\ Marked' = Marked \ {d}
    <3>1. \A e \in Serves \ {d} : (e \in sock' <=> e \in sock) /\ victims' = victims
      BY <1>0, <1>1, SocketsKept, View
    <3> QED
      BY <2>2, <3>1 DEF Hidden, Marked, Sock
  <2>3. \A e \in Daemons \ {d} : WhoIs(e)' = WhoIs(e)
    BY <1>1, View, ViewNext
  <2>4. WhoIs(d)' = None
    BY <1>0, ViewNext
  <2>5. \A b \in Alias : LeadsTo(b)' = IF LeadsTo(b) = d THEN None ELSE LeadsTo(b)
    BY <1>0, <1>2, <2>2, View, ViewNext
  <2>6. Busy' = IF Busy = d THEN None ELSE Busy
    BY <1>0, <1>2, <2>1, <2>2, ViewNext DEF Busy
  <2>7. Service!Next
    BY <2>1, <2>2, <2>3, <2>4, <2>5, <2>6, <2>8, ServiceStop
  <2> QED
    BY <2>7 DEF ServiceStep
<1>3. CASE pc[d] \notin Serving
  <2>1. d \notin Serves
    BY <1>3, View
  <2>2. /\ SameSessions
        /\ \A b \in Alias : LeadsTo(b)' = IF dir'[b] \in Serves THEN dir'[b] ELSE None
        /\ Busy' = IF lock' \in Serves THEN lock' ELSE None
    BY <1>0, <1>3, Steady
  <2>3. \A b \in Alias : LeadsTo(b)' = LeadsTo(b)
    BY <1>0, <1>3, <2>1, <2>2, View
  <2>4. Busy' = Busy
    BY <1>0, <1>3, <2>1, <2>2 DEF Busy
  <2> QED
    BY <2>2, <2>3, <2>4, ServiceStutter DEF ServiceStep, SameService
<1> QED
  BY <1>2, <1>3

(* Of the main process a viewer notices that a session is hidden by the     *)
(* collector, and that links of hidden sessions go.                         *)
LEMMA ImplMain ==
  ASSUME LinkAll, LinkAll', Collector \/ MainRestart \/ Quiet
  PROVE  ServiceStep
<1> USE DEF LinkAll, LinkInv, IInv
<1>1. pc' = pc /\ ses' = ses /\ dir \in [Alias -> Daemons \cup {None}] /\ None \notin Serves
  BY MainFrame, View DEF TypeOK
<1>2. Serves' = Serves /\ \A e \in Daemons : WhoIs(e)' = WhoIs(e)
  BY <1>1, View, ViewNext
<1>3. lock' = lock \/ (lock \in {None, Gc} /\ lock' \in {None, Gc})
  BY DEF Collector, MainRestart, GcBegin, GcTest, GcTestAliases, GcTestSock, GcTestJail,
     GcUnlink, GcUnlock, GcEnd, Quiet, LockInv
<1>4. Busy' = Busy
  BY <1>1, <1>2, <1>3, NoneApart, ViewNext DEF Busy, Serves
<1>5. \A a \in Alias : dir'[a] = dir[a] \/ (a \in victims /\ dir[a] \notin sock /\ dir'[a] = None)
  BY MainDir DEF VictimInv
<1>6. \A a \in Alias : \/ LeadsTo(a)' = LeadsTo(a)
                       \/ a \in victims /\ LeadsTo(a) \in Hidden /\ LeadsTo(a)' = None
  BY <1>1, <1>2, <1>5, View, ViewNext DEF Hidden
<1>7. \A e \in Serves : e \in Daemons /\ pc[e] \in Serving
  BY View
<1>8. CASE Marked = {}
  <2>1. Hidden' = Hidden /\ Marked' = {}
    BY <1>2, <1>7, <1>8, MainSteps DEF Hidden, Marked, Sock
  <2>2. SameSessions
    BY <1>2, <1>8, <2>1 DEF SameSessions
  <2>3. Service!Next
    BY <1>4, <1>6, <2>2, View, ServiceLose
  <2> QED
    BY <2>3 DEF ServiceStep
<1>9. ASSUME NEW d \in Marked PROVE ServiceStep
  <2>1. d \in Serves /\ d \in sock /\ d \in Daemons /\ victims = {Sock(d)}
    BY <1>7 DEF Marked, MarkInv
  <2>2. \A a \in Alias : LeadsTo(a)' = LeadsTo(a)
    BY <1>6, <2>1, AliasTypes
  <2>3. Marked = {d}
    BY <2>1 DEF Marked, Sock
  <2>4. CASE UNCHANGED <<sock, victims>>
    <3>1. SameService
      BY <1>2, <1>4, <2>2, <2>4 DEF SameService, SameSessions, Marked, Hidden, Sock
    <3> QED
      BY <3>1, ServiceStutter DEF ServiceStep
  <2>5. CASE victims' = {} /\ (sock' = sock \/ sock' = {e \in sock : Sock(e) \notin victims})
    <3>1. Marked' = Marked \ {d}
      BY <2>3, <2>5 DEF Marked, Sock
    <3>2. Hidden' \in {Hidden, Hidden \cup {d}}
      <4>1. CASE sock' = sock
        BY <1>2, <4>1 DEF Hidden
      <4>2. CASE sock' = {e \in sock : Sock(e) \notin victims}
        <5>1. sock' = sock \ {d}
          BY <2>1, <4>2 DEF Sock
        <5>2. Hidden' = Hidden \cup {d}
          BY <1>2, <2>1, <5>1 DEF Hidden
        <5> QED
          BY <5>2
      <4> QED
        BY <2>5, <4>1, <4>2
    <3>3. Service!Next
      BY <1>2, <1>4, <2>1, <2>2, <3>1, <3>2, ServiceHide
    <3> QED
      BY <3>3 DEF ServiceStep
  <2> QED
    BY <2>1, <2>4, <2>5, MainSteps
<1> QED
  BY <1>8, <1>9

(* Every step keeps the invariants and is one of the service, or none.      *)
LEMMA ImplStep ==
  ASSUME MaxNames <= 1, LinkAll, [Next]_vars
  PROVE  LinkAll' /\ ServiceStep
<1>1. LinkAll'
  BY LinkStep, OneNameStep, MarkStep DEF LinkAll, LinkInv, IInv
<1>2. ASSUME NEW d \in Daemons, Daemon(d) PROVE ServiceStep
  BY <1>1, <1>2, ImplStartUp, ImplMessage, ImplIdentity, ImplName, ImplEnd
     DEF Daemon, IdentityStep
<1> QED
  BY <1>1, <1>2, ImplMain, Actors

(* The sessions directory implements the link service: to somebody who holds *)
(* a link, symbolic links, the lock and the collector look like one session  *)
(* after another rearranging its own links, and no link to a session that    *)
(* can be reached is ever moved to a stranger or taken away; a session can   *)
(* become hidden only by a mark from before it opened.                       *)
THEOREM Implementation ==
  ASSUME MaxNames <= 1
  PROVE  Spec => ImplementsService
<1>1. Init => LinkAll /\ Service!Init
  BY LinkInit, MarkInit, OneNameInit, ServiceInit DEF LinkAll
<1>2. LinkAll /\ [Next]_vars => LinkAll' /\ [Service!Next]_(Service!lvars)
  BY ImplStep DEF ServiceStep
<1> QED
  BY <1>1, <1>2, PTL DEF Spec, ImplementsService, Service!Spec

=============================================================================
