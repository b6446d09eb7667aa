--------------------------- MODULE SessionDirProps ---------------------------
(***************************************************************************)
(* What is claimed of SessionDir: its type, its safety and liveness        *)
(* properties, the abstract service it implements, and the inductive       *)
(* invariant the proofs in SessionDirProofs rest on.                       *)
(***************************************************************************)
EXTENDS SessionDir

TypeOK ==
  /\ pc \in [Daemons -> Phase]
  /\ ses \in [Daemons -> Session]
  /\ sock \in SUBSET Daemons
  /\ jail \in SUBSET Daemons
  /\ dir \in [Alias -> Daemons \cup {None}]
  /\ temps \in SUBSET Daemons
  /\ lock \in Daemons \cup {None, Gc}
  /\ gc \in {"idle", "scan", "jail"}
  /\ victims \in SUBSET Entry
  /\ restarts \in 0..MaxRestarts

(* The links a daemon has handed out: ro, name, rw name, identity rw and ro. *)
HandedOut(d) ==
  {ses[d].ro, ses[d].rw} \cup {Named(n) : n \in {ses[d].named} \cap Names}
  \cup {StableRw(h) : h \in {ses[d].ident} \cap Hosts}
  \cup {StableRo(h) : h \in {ses[d].ident} \cap Hosts}

(* d is the daemon its host is connected to: no later one took the identity. *)
Current(d) ==
  ses[d].ident = None \/ dir[StableRw(ses[d].ident)] = d

(* Every link that a running, current session has handed out leads to it,    *)
(* whatever other daemons, dying predecessors and the collector do meanwhile *)
(* (tmate-ssh-daemon.c: registration, identity handover and exit cleanup).   *)
AdvertisedLinksWork ==
  \A d \in Daemons : pc[d] = "up" /\ d \in sock /\ Current(d) =>
    \A a \in HandedOut(d) \ {None} : dir[a] = d

(* A session name that leads to a running daemon is only ever moved by that  *)
(* daemon itself or to a holder of the same private identity (the comment at *)
(* tmate-ssh-daemon.c:742).                                                  *)
LiveNameKept ==
  [][\A n \in Names :
       LET a == Named(n)
           t == dir[a]
       IN  Resolves(a) /\ dir'[a] # t =>
             \/ lock = t
             \/ /\ dir'[a] # None
                /\ ses[t].ident # None
                /\ ses[dir'[a]].ident = ses[t].ident]_vars

(* A name gets a number only if every form tried before it is really held by *)
(* another session, not by the host's own earlier connection.                *)
NoNeedlessNumber ==
  \A d \in Daemons : pc[d] \in Naming =>
    \A i \in 1..(ses[d].at - 1) :
      LET holder == dir[Named(NameAt[ses[d].base][i])]
      IN  /\ holder # None
          /\ ses[d].ident # None => holder \notin {ses[d].prev, d}

(* A daemon that exits regularly leaves no alias behind that points to it,   *)
(* if it registered one name (cleanup_session_files).                        *)
ExitLeavesNothing ==
  \A d \in Daemons : pc[d] = "gone" => \A a \in Alias : dir[a] # d

(* The socket, the jail link and the aliases that a finished daemon leaves   *)
(* behind are eventually collected or taken over (gc_stale_sessions and the  *)
(* reclamation of names), even if the main process dies in a scan.  The      *)
(* temporary link of a daemon that died before renameat() is another matter: *)
(* no scan looks at it.                                                      *)
NoTrace(d) == d \notin sock \cup jail /\ \A a \in Alias : dir[a] # d

LeftoversCollected ==
  \A d \in Daemons : pc[d] \in {"gone", "dead"} ~> NoTrace(d)

(* The comment at tmate-ssh-server.c:669-670, "try connect(); if             *)
(* ECONNREFUSED or ENOENT, the session is dead": so the collector never      *)
(* takes the socket away from a daemon that is starting or serving, which    *)
(* would hide it from all viewers.                                           *)
GcSparesLive ==
  \A d \in Daemons : pc[d] \in {"listening", "linked"} \cup Serving => d \in sock

-----------------------------------------------------------------------------
(* The inductive invariant behind LiveNameKept. *)

(* flock: whoever is inside a critical section holds the lock, and vice versa. *)
LockInv ==
  /\ \A d \in Daemons : pc[d] \in Critical <=> lock = d
  /\ gc = "scan" <=> lock = Gc

(* The loop over names is inside its list; an identity handover has one. *)
LoopInv ==
  \A d \in Daemons :
    /\ pc[d] \in Naming => /\ ses[d].base \in Names
                           /\ ses[d].at \in 1..Len(NameAt[ses[d].base])
    /\ pc[d] \in Handover => ses[d].ident \in Hosts

(* What the collector is about to unlink still dangles. *)
VictimInv ==
  \A a \in victims \cap Alias : gc = "scan" /\ dir[a] # None /\ dir[a] \notin sock

(* No link leads to a daemon that has not made its first one. *)
StartInv ==
  \A d \in Daemons : pc[d] \in {"new", "bound", "listening"} =>
    /\ dir[RandomRo(d)] = None
    /\ \A a \in Alias : dir[a] # d

(* The alias of an identity leads to a daemon of that identity, and so does  *)
(* what a daemon remembers as its predecessor.                               *)
IsHeir(t, h) == pc[t] \notin {"new", "bound", "listening", "linked"} /\
                (Running(t) => ses[t].ident = h)

IdentityInv ==
  /\ \A h \in Hosts : dir[StableRw(h)] # None => IsHeir(dir[StableRw(h)], h)
  /\ \A d \in Daemons : ses[d].prev # None =>
       ses[d].ident \in Hosts /\ IsHeir(ses[d].prev, ses[d].ident)

(* A daemon that has found a name holds it until it unlocks. *)
HolderInv ==
  \A d \in Daemons : pc[d] \in {"link_rw", "link_ro", "drop_ro"} =>
    dir[Named(Candidate(d))] = d

(* The cleanup unlinks what it has found to be its own. *)
CleanInv ==
  \A d \in Daemons :
    /\ pc[d] \in Leaving => ses[d].at >= 1
    /\ pc[d] = "unlink" => /\ ses[d].at <= Len(CleanupList(d))
                           /\ PointsTo(CleanupList(d)[ses[d].at], d)

IInv ==
  /\ TypeOK /\ LockInv /\ LoopInv /\ VictimInv /\ StartInv
  /\ IdentityInv /\ HolderInv /\ CleanInv

-----------------------------------------------------------------------------
(* What the other safety properties and the refinement rest on besides.     *)

(* A daemon remembers nothing before its first link, nor once it has ended. *)
FreshInv ==
  \A d \in Daemons :
    /\ pc[d] \in {"new", "bound", "listening", "gone", "dead"} => ses[d] = FreshSession
    /\ pc[d] = "linked" => ses[d] = [FreshSession EXCEPT !.ro = RandomRo(d)]

(* The read-only link that is advertised: the random one, the identity's or  *)
(* that of the name.                                                         *)
RoInv ==
  \A d \in Daemons :
    \/ ses[d].ro \in {None, RandomRo(d)}
    \/ ses[d].named \in Names /\ ses[d].ro = NamedRo(ses[d].named)
    \/ /\ ses[d].ident \in Hosts /\ pc[d] \notin Handover
       /\ ses[d].ro = StableRo(ses[d].ident)

(* The prefix of a read-write name is the identity, or of nobody.            *)
RwInv ==
  \A d \in Daemons : ses[d].rw # None =>
    \E p \in Hosts \cup Pins :
      /\ p \in Hosts => ses[d].ident = p
      /\ IF pc[d] \in {"link_ro", "drop_ro"}
           THEN ses[d].rw = NamedRw(p, Candidate(d))
           ELSE ses[d].named \in Names /\ ses[d].rw = NamedRw(p, ses[d].named)

(* An identity's aliases lead to those who took it over, read-only as well;  *)
(* whoever took it over has them until the next one does, and its            *)
(* predecessor does not get them back.                                       *)
SeatInv ==
  /\ \A h \in Hosts :
       /\ dir[StableRw(h)] # None => pc[dir[StableRw(h)]] # "id_rw"
       /\ dir[StableRo(h)] # None => IsHeir(dir[StableRo(h)], h)
  /\ \A d \in Daemons :
       /\ pc[d] \in {"id_ro", "id_old"} => dir[StableRw(ses[d].ident)] = d
       /\ pc[d] = "id_old" => dir[StableRo(ses[d].ident)] = d
       /\ ses[d].prev # None =>
            /\ pc[ses[d].prev] # "id_rw"
            /\ pc[d] # "id_rw" => dir[StableRw(ses[d].ident)] # ses[d].prev

(* The links of a name are installed one after the other.                    *)
ProgressInv ==
  \A d \in Daemons :
    /\ pc[d] \in {"link_ro", "drop_ro"} => ses[d].rw # None /\ dir[ses[d].rw] = d
    /\ pc[d] = "drop_ro" => dir[NamedRo(Candidate(d))] = d

LinkInv ==
  IInv /\ FreshInv /\ RoInv /\ RwInv /\ SeatInv /\ ProgressInv /\ NoNeedlessNumber

(* If a host asks for one name only: the name is outstanding, being          *)
(* registered, or had.                                                       *)
AskInv ==
  \A d \in Daemons :
    /\ ses[d].pending # None \/ ses[d].named # None \/ pc[d] \in Naming =>
         ses[d].asked >= MaxNames
    /\ ses[d].pending # None \/ pc[d] \in Naming => ses[d].named = None
    /\ pc[d] \in Naming => ses[d].pending = None
    /\ ses[d].rw # None => ses[d].named # None \/ pc[d] \in {"link_ro", "drop_ro"}

(* ... every alias that leads to a daemon is one it knows of, so that its     *)
(* cleanup finds it ...                                                      *)
InProgress(d) ==
  CASE pc[d] \in {"link_rw", "link_ro"} -> {Named(Candidate(d))}
    [] pc[d] = "drop_ro" -> {Named(Candidate(d)), NamedRo(Candidate(d))}
    [] OTHER -> {}

HeldInv ==
  \A d \in Daemons, a \in Alias : dir[a] = d =>
    /\ pc[d] \in {"linked", "exit"} \cup Serving => a \in HandedOut(d) \cup InProgress(d)
    /\ pc[d] \in Leaving => \E i \in ses[d].at..5 : a = CleanupList(d)[i]
    /\ pc[d] # "gone"

(* ... and what it has handed out leads to it, while it has a socket and no  *)
(* later daemon its identity.                                                *)
Seated(d) == pc[d] = "id_rw" \/ Current(d)

HasLinks(d) ==
  /\ ses[d].ro # None /\ dir[ses[d].ro] = d
  /\ ses[d].named # None =>
       dir[Named(ses[d].named)] = d /\ ses[d].rw # None /\ dir[ses[d].rw] = d
  /\ ses[d].ident # None /\ pc[d] \notin {"id_rw", "id_ro"} =>
       dir[StableRo(ses[d].ident)] = d

SeatedInv ==
  \A d \in Daemons :
    pc[d] \in {"linked"} \cup Serving /\ d \in sock /\ Seated(d) => HasLinks(d)

OneNameInv == AskInv /\ HeldInv /\ SeatedInv

(* The collector unlinks one socket at a time.                               *)
MarkInv == \A d \in Daemons : Sock(d) \in victims => victims = {Sock(d)}

-----------------------------------------------------------------------------
(* The directory implements the link service: a link leads to the running   *)
(* daemon it points to, a daemon without its socket is hidden, and one that *)
(* the collector has found refusing connections during start-up is marked.  *)

Serves == {d \in Daemons : Running(d)}
Hidden == {d \in Serves : d \notin sock}
Marked == {d \in Serves : d \in sock /\ Sock(d) \in victims}

Service == INSTANCE LinkService WITH
  Sessions <- Daemons,
  Links    <- Alias,
  Stable   <- StableRw,
  Nowhere  <- None,
  serving  <- Serves,
  marked   <- Marked,
  hidden   <- Hidden,
  who      <- [d \in Daemons |-> IF d \in Serves THEN ses[d].ident ELSE None],
  leads    <- [a \in Alias |-> IF dir[a] \in Serves THEN dir[a] ELSE None],
  busy     <- IF lock \in Serves THEN lock ELSE None

(* SessionDir refines LinkService. *)
ImplementsService == Service!Spec
=============================================================================
