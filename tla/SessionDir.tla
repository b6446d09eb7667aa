----------------------------- MODULE SessionDir -----------------------------
(***************************************************************************)
(* The relay's sessions directory (/tmp/tmtv/sessions): the one piece of   *)
(* state that the main server process and every session daemon share.      *)
(*                                                                         *)
(* A daemon owns a UNIX socket named after its random token.  Every other  *)
(* entry is an alias, a symbolic link to such a socket: the random         *)
(* read-only token, the two aliases of a host's private identity, and the  *)
(* three aliases of a session name.  Viewers reach a session by resolving  *)
(* an alias.  Daemons change aliases inside critical sections guarded by   *)
(* flock() on the directory, one file-system call at a time; binding the   *)
(* socket, creating the first read-only link and unlinking the socket on   *)
(* the way out take no lock.  The main process garbage-collects what dead  *)
(* daemons leave behind.                                                   *)
(*                                                                         *)
(* Abstractions.  A token identifies its daemon, so aliases point straight *)
(* at daemons; the HMAC that derives the identity aliases from a host's    *)
(* secret is injective; session names, their "ro-" forms and their         *)
(* prefixed forms are disjoint; file-system calls fail only in the ways    *)
(* the code branches on (EEXIST).  A dead process loses its memory, which  *)
(* is modelled by resetting it.                                            *)
(***************************************************************************)
EXTENDS Naturals, Sequences, FiniteSets

CONSTANTS
  Daemons,      \* the session daemons, each with its own random token
  Hosts,        \* the hosts' private identities (secrets)
  Names,        \* every session name that can be requested or numbered
  Pins,         \* the random five-digit prefixes of sessions without identity;
                \* {} bounds a run to hosts that give an identity before a name
  NameAt,       \* NameAt[n]: n and its numbered forms, in the order tried
  None,         \* no daemon, no alias, no name
  HasWebsocket, \* tmate_has_websocket(): are web viewers served?
  Gc,           \* the main process as holder of the directory lock
  MaxNames,     \* bound: session_name messages one host sends
  MaxRestarts   \* bound: how often the main process dies during a scan

ASSUME ConstantsAssumption ==
  /\ NameAt \in [Names -> Seq(Names)]
  /\ \A n \in Names : Len(NameAt[n]) >= 1
  /\ \A n \in Names : \A i, j \in DOMAIN NameAt[n] : NameAt[n][i] = NameAt[n][j] => i = j
  /\ None \notin Daemons \cup Hosts \cup Names \cup Pins
  /\ Gc \notin Daemons \cup {None}
  /\ Hosts \cap Pins = {}
  /\ HasWebsocket \in BOOLEAN
  /\ MaxNames \in Nat
  /\ MaxRestarts \in Nat

-----------------------------------------------------------------------------
(* Directory entries. *)

RandomRo(d)   == <<"random_ro", d>>
StableRw(h)   == <<"stable", h>>
StableRo(h)   == <<"stable_ro", h>>
Named(n)      == <<"name", n>>
NamedRo(n)    == <<"name_ro", n>>
NamedRw(p, n) == <<"name_rw", p, n>>

Alias ==
       {RandomRo(d) : d \in Daemons}
  \cup {StableRw(h) : h \in Hosts} \cup {StableRo(h) : h \in Hosts}
  \cup {Named(n) : n \in Names} \cup {NamedRo(n) : n \in Names}
  \cup {NamedRw(p, n) : p \in Hosts \cup Pins, n \in Names}

ASSUME NoneAssumption == None \notin Alias

Sock(d) == <<"sock", d>>      \* the socket file in sessions/
Jail(d) == <<"jail", d>>      \* its hard link in jail/

Entry == Alias \cup {Sock(d) : d \in Daemons} \cup {Jail(d) : d \in Daemons}

-----------------------------------------------------------------------------
VARIABLES
  pc,        \* pc[d]: where daemon d is
  ses,       \* ses[d]: the fields of d's struct tmate_session used here
  sock,      \* daemons whose socket file exists
  jail,      \* daemons whose socket has a hard link in the jail directory
  dir,       \* dir[a]: the daemon alias a points to, or None
  temps,     \* daemons with a temporary link in the directory, that is to be
             \* renamed over an alias; it points to the daemon that made it
  lock,      \* the process that holds flock(sessions), or None
  gc,        \* where the main process is in gc_stale_sessions
  victims,   \* the entries the scan is about to unlink
  restarts   \* how often the main process has died during a scan

vars == <<pc, ses, sock, jail, dir, temps, lock, gc, victims, restarts>>

(* What a daemon remembers.  "base" and "at" are the locals of the loop over *)
(* numbered names; "at" also counts the aliases of the exit cleanup.         *)
Session ==
  [ident: Hosts \cup {None}, awaiting: BOOLEAN, ready: BOOLEAN,
   asked: 0..MaxNames, pending: Names \cup {None},
   prev: Daemons \cup {None}, ro: Alias \cup {None},
   named: Names \cup {None}, rw: Alias \cup {None},
   base: Names \cup {None}, at: Nat]

FreshSession ==
  [ident |-> None, awaiting |-> FALSE, ready |-> FALSE,
   asked |-> 0, pending |-> None, prev |-> None, ro |-> None,
   named |-> None, rw |-> None, base |-> None, at |-> 1]

Naming == {"try", "link_rw", "link_ro", "drop_ro"}
Handover == {"id_rw", "id_ro", "id_old"}
Leaving == {"clean", "unlink"}
Critical == Naming \cup Handover \cup Leaving   \* phases that hold the lock
Serving == {"up"} \cup Naming \cup Handover
Phase == {"new", "bound", "listening", "linked", "exit", "gone", "dead"}
         \cup Serving \cup Leaving

(* connect() to d's socket is accepted: bound and listening, still running. *)
Listening(d) == pc[d] \notin {"new", "bound", "gone", "dead"}

(* A daemon in its event loop, after start-up and before its cleanup. *)
Running(d) == pc[d] \in Serving

(* Opening alias a reaches the socket of a running daemon. *)
Resolves(a) ==
  dir[a] # None /\ dir[a] \in sock /\ Running(dir[a])

Dangling(a) == dir[a] # None /\ dir[a] \notin sock

PointsToAnyone(a, d) == a # None /\ dir[a] # None
PointsTo(a, d) == a # None /\ dir[a] = d

Init ==
  /\ pc = [d \in Daemons |-> "new"]
  /\ ses = [d \in Daemons |-> FreshSession]
  /\ sock = {}
  /\ jail = {}
  /\ dir = [a \in Alias |-> None]
  /\ temps = {}
  /\ lock = None
  /\ gc = "idle"
  /\ victims = {}
  /\ restarts = 0

gcVars == <<gc, victims, restarts>>

-----------------------------------------------------------------------------
(* Start-up: tmate_spawn_daemon, before the daemon enters its event loop. *)

(* server_create_socket up to bind(): the socket file exists, but connect() *)
(* to it is still refused.                                                  *)
Bind(d) ==
  /\ pc[d] = "new"
  /\ pc' = [pc EXCEPT ![d] = "bound"]
  /\ sock' = sock \cup {d}
  /\ UNCHANGED <<ses, jail, dir, lock, temps, gcVars>>

(* listen() in server_create_socket. *)
Listen(d) ==
  /\ pc[d] = "bound"
  /\ pc' = [pc EXCEPT ![d] = "listening"]
  /\ UNCHANGED <<ses, sock, jail, dir, lock, temps, gcVars>>

(* create_session_ro_symlink: done without the directory lock. *)
LinkRandomRo(d) ==
  /\ pc[d] = "listening"
  /\ pc' = [pc EXCEPT ![d] = "linked"]
  /\ dir' = [dir EXCEPT ![RandomRo(d)] = d]
  /\ ses' = [ses EXCEPT ![d].ro = RandomRo(d)]
  /\ UNCHANGED <<sock, jail, lock, temps, gcVars>>

(* The rest of the start-up: hard-link the socket into the jail (which only *)
(* fails, with a log line, when the socket file is gone), open the sessions *)
(* directory, enter the jail, install the exit and crash handlers.          *)
EnterJail(d) ==
  /\ pc[d] = "linked"
  /\ pc' = [pc EXCEPT ![d] = "up"]
  /\ jail' = IF HasWebsocket /\ d \in sock THEN jail \cup {d} ELSE jail
  /\ UNCHANGED <<ses, sock, dir, lock, temps, gcVars>>

-----------------------------------------------------------------------------
(* Messages from the host. *)

(* session_identity=request-v1: ignored unless the session is still being   *)
(* set up and has no identity.                                              *)
RequestIdentity(d) ==
  /\ pc[d] = "up"
  /\ ~ses[d].ready /\ ~ses[d].awaiting /\ ses[d].ident = None
  /\ ses' = [ses EXCEPT ![d].awaiting = TRUE]
  /\ UNCHANGED <<pc, sock, jail, dir, lock, temps, gcVars>>

(* The ready message takes effect once no identity is outstanding.  It closes *)
(* the door to an identity, so it is only recorded while there is none.      *)
Ready(d) ==
  /\ pc[d] = "up"
  /\ ~ses[d].ready /\ ~ses[d].awaiting /\ ses[d].ident = None
  /\ ses' = [ses EXCEPT ![d].ready = TRUE]
  /\ UNCHANGED <<pc, sock, jail, dir, lock, temps, gcVars>>

(* session_name=n while the identity is outstanding: remembered. *)
DeferName(d, n) ==
  /\ pc[d] = "up" /\ ses[d].awaiting
  /\ ses[d].asked < MaxNames
  /\ ses' = [ses EXCEPT ![d].pending = n, ![d].asked = @ + 1]
  /\ UNCHANGED <<pc, sock, jail, dir, lock, temps, gcVars>>

(* session_name=n otherwise: take the lock and look for a name. *)
BeginName(d, n) ==
  /\ pc[d] = "up" /\ ~ses[d].awaiting
  /\ ses[d].asked < MaxNames
  /\ ses[d].ident # None \/ Pins # {}
  /\ lock = None
  /\ lock' = d
  /\ pc' = [pc EXCEPT ![d] = "try"]
  /\ ses' = [ses EXCEPT ![d].asked = @ + 1, ![d].base = n, ![d].at = 1]
  /\ UNCHANGED <<sock, jail, dir, temps, gcVars>>

(* The identity message: lock, remember who held the identity until now.    *)
(* An identity that was not asked for is fatal (see Exit).                  *)
BeginIdentity(d, h) ==
  /\ pc[d] = "up"
  /\ ses[d].awaiting /\ ses[d].ident = None /\ ~ses[d].ready
  /\ lock = None
  /\ lock' = d
  /\ pc' = [pc EXCEPT ![d] = "id_rw"]
  /\ ses' = [ses EXCEPT ![d].ident = h, ![d].prev = dir[StableRw(h)]]
  /\ UNCHANGED <<sock, jail, dir, temps, gcVars>>

(* tmtv_alias_replace ends with renameat(): the temporary link, which the    *)
(* daemon has made before (MakeTemp), takes the place of the alias, which    *)
(* never disappears in between.                                             *)
Replace(a, d) ==
  /\ d \in temps
  /\ temps' = temps \ {d}
  /\ dir' = [dir EXCEPT ![a] = d]

(* symlinkat() alone: the alias must not be there. *)
Symlink(a, d) ==
  /\ dir[a] = None
  /\ dir' = [dir EXCEPT ![a] = d]
  /\ UNCHANGED temps

(* tmtv_alias_remove_owned *)
RemoveOwned(a, d) ==
  dir' = IF PointsTo(a, d) THEN [dir EXCEPT ![a] = None] ELSE dir

InstallStableRw(d) ==
  /\ pc[d] = "id_rw"
  /\ pc' = [pc EXCEPT ![d] = "id_ro"]
  /\ Replace(StableRw(ses[d].ident), d)
  /\ UNCHANGED <<ses, sock, jail, lock, gcVars>>

InstallStableRo(d) ==
  /\ pc[d] = "id_ro"
  /\ pc' = [pc EXCEPT ![d] = "id_old"]
  /\ Replace(StableRo(ses[d].ident), d)
  /\ UNCHANGED <<ses, sock, jail, lock, gcVars>>

(* The random read-only link goes; a deferred name is registered inside the *)
(* same critical section.                                                   *)
FinishIdentity(d) ==
  /\ pc[d] = "id_old"
  /\ RemoveOwned(ses[d].ro, d)
  /\ LET named == ses[d].pending # None
     IN  /\ pc' = [pc EXCEPT ![d] = IF named THEN "try" ELSE "up"]
         /\ lock' = IF named THEN d ELSE None
         /\ ses' = [ses EXCEPT ![d].ro = StableRo(ses[d].ident),
                               ![d].awaiting = FALSE,
                               ![d].base = ses[d].pending,
                               ![d].pending = None,
                               ![d].at = 1]
  /\ UNCHANGED <<sock, jail, temps, gcVars>>

-----------------------------------------------------------------------------
(* register_session_name_locked *)

Candidates(d) == NameAt[ses[d].base]
Candidate(d)  == Candidates(d)[ses[d].at]

OwnsAnyName(d, n) == ses[d].ident # None /\ dir[Named(n)] # None

OwnsOnlyOwnName(d, n) == ses[d].ident # None /\ dir[Named(n)] = d

(* "Only a holder of the private identity may take over a live name": the   *)
(* name is held by the identity's previous daemon, or by this one.          *)
OwnsName(d, n) ==
  /\ ses[d].ident # None
  /\ dir[Named(n)] # None
  /\ dir[Named(n)] \in {ses[d].prev, d}

TakeOverName(d) ==
  /\ pc[d] = "try"
  /\ OwnsName(d, Candidate(d))
  /\ Replace(Named(Candidate(d)), d)
  /\ pc' = [pc EXCEPT ![d] = "link_rw"]
  /\ UNCHANGED <<ses, sock, jail, lock, gcVars>>

(* The name dangles: unlink it and its read-only form, then it is free. *)
ReclaimName(d) ==
  /\ pc[d] = "try"
  /\ ~OwnsName(d, Candidate(d))
  /\ Dangling(Named(Candidate(d)))
  /\ dir' = [dir EXCEPT ![Named(Candidate(d))] = None,
                        ![NamedRo(Candidate(d))] = None]
  /\ UNCHANGED <<pc, ses, sock, jail, lock, temps, gcVars>>

(* symlinkat() succeeds: the name was free. *)
ClaimName(d) ==
  /\ pc[d] = "try"
  /\ Symlink(Named(Candidate(d)), d)
  /\ pc' = [pc EXCEPT ![d] = "link_rw"]
  /\ UNCHANGED <<ses, sock, jail, lock, gcVars>>

(* Leave the critical section without a name. *)
GiveUpName(d) ==
  /\ pc' = [pc EXCEPT ![d] = "up"]
  /\ lock' = None
  /\ ses' = [ses EXCEPT ![d].base = None, ![d].at = 1]

(* EEXIST: someone else's live name.  Try the next numbered form; give up   *)
(* after the last one.                                                      *)
NextName(d) ==
  /\ pc[d] = "try"
  /\ ~OwnsName(d, Candidate(d))
  /\ dir[Named(Candidate(d))] # None /\ ~Dangling(Named(Candidate(d)))
  /\ IF ses[d].at < Len(Candidates(d))
       THEN ses' = [ses EXCEPT ![d].at = @ + 1] /\ UNCHANGED <<pc, lock>>
       ELSE GiveUpName(d)
  /\ UNCHANGED <<sock, jail, dir, temps, gcVars>>

(* The read-write name <prefix>-<name>: the prefix is the identity's stable *)
(* token, or a random PIN.  With an identity the link is replaced; without  *)
(* one it must be new, and a collision gives the name up again.             *)
LinkNamedRw(d, p) ==
  LET a == NamedRw(p, Candidate(d))
  IN  /\ pc[d] = "link_rw"
      /\ IF ses[d].ident # None THEN p = ses[d].ident ELSE p \in Pins
      /\ \/ /\ IF ses[d].ident # None THEN Replace(a, d) ELSE Symlink(a, d)
            /\ pc' = [pc EXCEPT ![d] = "link_ro"]
            /\ ses' = [ses EXCEPT ![d].rw = a]
            /\ UNCHANGED lock
         \/ /\ ses[d].ident = None /\ dir[a] # None
            /\ dir' = [dir EXCEPT ![Named(Candidate(d))] = None]
            /\ GiveUpName(d)
            /\ UNCHANGED temps
      /\ UNCHANGED <<sock, jail, gcVars>>

(* The read-only name ro-<name>. *)
LinkNamedRo(d) ==
  /\ pc[d] = "link_ro"
  /\ pc' = [pc EXCEPT ![d] = "drop_ro"]
  /\ Replace(NamedRo(Candidate(d)), d)
  /\ UNCHANGED <<ses, sock, jail, lock, gcVars>>

(* Every alias that may be there already is replaced, those of an identity,  *)
(* a name that is taken over, the read-write name of an identity and the     *)
(* read-only name: first with symlinkat() of a link that has a name of its   *)
(* own, .resume-<pid>-<n>.                                                   *)
AboutToReplace(d) ==
  \/ pc[d] \in {"id_rw", "id_ro", "link_ro"}
  \/ pc[d] = "try" /\ OwnsName(d, Candidate(d))
  \/ pc[d] = "link_rw" /\ ses[d].ident # None

MakeTemp(d) ==
  /\ AboutToReplace(d)
  /\ d \notin temps
  /\ temps' = temps \cup {d}
  /\ UNCHANGED <<pc, ses, sock, jail, dir, lock, gcVars>>

FinishNameDropsStable(d) ==
  /\ pc[d] = "drop_ro"
  /\ RemoveOwned(ses[d].ro, d)
  /\ pc' = [pc EXCEPT ![d] = "up"]
  /\ lock' = None
  /\ ses' = [ses EXCEPT ![d].named = Candidate(d),
                        ![d].ro = NamedRo(Candidate(d)),
                        ![d].base = None, ![d].at = 1]
  /\ UNCHANGED <<sock, jail, temps, gcVars>>

(* Remove the read-only link advertised so far, unless it is the identity's *)
(* own; record the new names; unlock.                                       *)
FinishName(d) ==
  /\ pc[d] = "drop_ro"
  /\ IF ses[d].ident # None /\ ses[d].ro = StableRo(ses[d].ident)
       THEN UNCHANGED dir
       ELSE RemoveOwned(ses[d].ro, d)
  /\ pc' = [pc EXCEPT ![d] = "up"]
  /\ lock' = None
  /\ ses' = [ses EXCEPT ![d].named = Candidate(d),
                        ![d].ro = NamedRo(Candidate(d)),
                        ![d].base = None, ![d].at = 1]
  /\ UNCHANGED <<sock, jail, temps, gcVars>>

-----------------------------------------------------------------------------
(* The ends of a daemon. *)

(* Regular exit (channel closed, SIGTERM, tmate_fatal): cleanup_session_files *)
(* unlinks the daemon's own socket first, without the lock.                   *)
Exit(d) ==
  /\ pc[d] = "up"
  /\ pc' = [pc EXCEPT ![d] = "exit"]
  /\ sock' = sock \ {d}
  /\ UNCHANGED <<ses, jail, dir, lock, temps, gcVars>>

ExitLock(d) ==
  /\ pc[d] = "exit"
  /\ lock = None
  /\ lock' = d
  /\ pc' = [pc EXCEPT ![d] = "clean"]
  /\ ses' = [ses EXCEPT ![d].at = 1]
  /\ UNCHANGED <<sock, jail, dir, temps, gcVars>>

CleanupListWithoutRw(d) ==
  <<ses[d].ro,
    IF ses[d].named # None THEN Named(ses[d].named) ELSE None,
    IF ses[d].ident # None THEN StableRw(ses[d].ident) ELSE None,
    IF ses[d].ident # None THEN StableRo(ses[d].ident) ELSE None>>

(* The aliases the cleanup goes through, in its order. *)
CleanupList(d) ==
  <<ses[d].ro,
    IF ses[d].named # None THEN Named(ses[d].named) ELSE None,
    IF ses[d].named # None THEN ses[d].rw ELSE None,
    IF ses[d].ident # None THEN StableRw(ses[d].ident) ELSE None,
    IF ses[d].ident # None THEN StableRo(ses[d].ident) ELSE None>>

(* tmtv_alias_remove_owned during cleanup: readlinkat() ... *)
CleanTest(d) ==
  /\ pc[d] = "clean"
  /\ ses[d].at <= Len(CleanupList(d))
  /\ IF PointsTo(CleanupList(d)[ses[d].at], d)
       THEN pc' = [pc EXCEPT ![d] = "unlink"] /\ UNCHANGED ses
       ELSE ses' = [ses EXCEPT ![d].at = @ + 1] /\ UNCHANGED pc
  /\ UNCHANGED <<sock, jail, dir, lock, temps, gcVars>>

(* ... then unlinkat() if the alias was ours. *)
CleanUnlink(d) ==
  /\ pc[d] = "unlink"
  /\ pc' = [pc EXCEPT ![d] = "clean"]
  /\ dir' = [dir EXCEPT ![CleanupList(d)[ses[d].at]] = None]
  /\ ses' = [ses EXCEPT ![d].at = @ + 1]
  /\ UNCHANGED <<sock, jail, lock, temps, gcVars>>

(* Unlock and end.  The unlink() of the jail's hard link names a path        *)
(* outside the chroot the daemon lives in, so it finds nothing.              *)
ExitDone(d) ==
  /\ pc[d] = "clean"
  /\ ses[d].at > Len(CleanupList(d))
  /\ pc' = [pc EXCEPT ![d] = "gone"]
  /\ ses' = [ses EXCEPT ![d] = FreshSession]
  /\ lock' = None
  /\ UNCHANGED <<sock, jail, dir, temps, gcVars>>

(* Process death releases the lock. *)
Die(d) ==
  /\ pc' = [pc EXCEPT ![d] = "dead"]
  /\ ses' = [ses EXCEPT ![d] = FreshSession]
  /\ lock' = IF lock = d THEN None ELSE lock
  /\ UNCHANGED <<jail, dir, temps, gcVars>>

(* SIGSEGV or SIGABRT at any point after the handlers are installed: the    *)
(* socket is unlinked, the aliases are left "for reclamation".              *)
Crash(d) ==
  /\ pc[d] \in Serving \cup Leaving \cup {"exit"}
  /\ sock' = sock \ {d}
  /\ Die(d)

(* SIGKILL at any point, or a fatal error before the handlers are there:    *)
(* everything is left.                                                      *)
Kill(d) ==
  /\ pc[d] \notin {"new", "gone", "dead"}
  /\ Die(d)
  /\ UNCHANGED sock

-----------------------------------------------------------------------------
(* gc_stale_sessions in the main process. *)

daemonVars == <<pc, ses, temps>>

(* opendir and a non-blocking flock; a busy lock means no scan this time. *)
GcBegin ==
  /\ gc = "idle"
  /\ lock = None
  /\ lock' = Gc
  /\ gc' = "scan"
  /\ UNCHANGED <<daemonVars, sock, jail, dir, victims, restarts>>

(* stat() of an alias: the links of dead sessions.  All of them are found    *)
(* and unlinked together: nobody else may change an alias under the lock.    *)
(* Names that start with a dot, as those of temporary links, are skipped.    *)
GcTestAliases ==
  /\ gc = "scan" /\ victims = {}
  /\ victims' = {a \in Alias : Dangling(a)}
  /\ victims' # {}
  /\ UNCHANGED <<daemonVars, sock, jail, dir, lock, gc, restarts>>

GcTestAnySock(d) ==
  /\ gc = "scan" /\ victims = {}
  /\ d \in sock
  /\ victims' = {Sock(d)}
  /\ UNCHANGED <<daemonVars, sock, jail, dir, lock, gc, restarts>>

(* connect() to a socket is refused: the session counts as dead.  Entries    *)
(* come in directory order, which is arbitrary: here a scan may look at      *)
(* sockets and aliases in any order, and more than once.                     *)
GcTestSock(d) ==
  /\ gc = "scan" /\ victims = {}
  /\ d \in sock /\ ~Listening(d)
  /\ victims' = {Sock(d)}
  /\ UNCHANGED <<daemonVars, sock, jail, dir, lock, gc, restarts>>

GcTestJail(d) ==
  /\ gc = "jail" /\ victims = {}
  /\ d \in jail /\ ~Listening(d)
  /\ victims' = {Jail(d)}
  /\ UNCHANGED <<daemonVars, sock, jail, dir, lock, gc, restarts>>

(* The unlink() that follows the test. *)
GcUnlink ==
  /\ victims # {}
  /\ victims' = {}
  /\ dir' = [a \in Alias |-> IF a \in victims THEN None ELSE dir[a]]
  /\ sock' = {d \in sock : Sock(d) \notin victims}
  /\ jail' = {d \in jail : Jail(d) \notin victims}
  /\ UNCHANGED <<daemonVars, lock, gc, restarts>>

GcUnlockForgotten ==
  /\ gc = "scan" /\ victims = {}
  /\ gc' = IF jail = {} THEN "idle" ELSE "jail"
  /\ UNCHANGED <<daemonVars, sock, jail, dir, lock, victims, restarts>>

(* Unlock, then scan the jail directory without the lock. *)
GcUnlock ==
  /\ gc = "scan" /\ victims = {}
  /\ gc' = IF jail = {} THEN "idle" ELSE "jail"
  /\ lock' = None
  /\ UNCHANGED <<daemonVars, sock, jail, dir, victims, restarts>>

GcEnd ==
  /\ gc = "jail" /\ victims = {}
  /\ gc' = "idle"
  /\ UNCHANGED <<daemonVars, sock, jail, dir, lock, victims, restarts>>

(* The main process dies during a scan and is started again.  Daemons live  *)
(* on in their own process groups, and nothing is wiped at start-up.        *)
MainRestart ==
  /\ gc # "idle" /\ restarts < MaxRestarts
  /\ restarts' = restarts + 1
  /\ gc' = "idle"
  /\ victims' = {}
  /\ lock' = IF lock = Gc THEN None ELSE lock
  /\ UNCHANGED <<daemonVars, sock, jail, dir>>

-----------------------------------------------------------------------------
StartUp(d) == Bind(d) \/ Listen(d) \/ LinkRandomRo(d) \/ EnterJail(d)

Message(d) ==
  \/ RequestIdentity(d) \/ Ready(d)
  \/ \E n \in Names : DeferName(d, n) \/ BeginName(d, n)
  \/ \E h \in Hosts : BeginIdentity(d, h)

IdentityStep(d) == InstallStableRw(d) \/ InstallStableRo(d) \/ FinishIdentity(d)

NameStep(d) ==
  \/ TakeOverName(d) \/ ReclaimName(d) \/ ClaimName(d) \/ NextName(d)
  \/ \E p \in Hosts \cup Pins : LinkNamedRw(d, p)
  \/ LinkNamedRo(d) \/ FinishName(d)

ExitStep(d) == ExitLock(d) \/ CleanTest(d) \/ CleanUnlink(d) \/ ExitDone(d)

Daemon(d) ==
  \/ StartUp(d) \/ Message(d) \/ IdentityStep(d) \/ NameStep(d)
  \/ Exit(d) \/ ExitStep(d) \/ Crash(d) \/ Kill(d)

GcTest ==
  GcTestAliases \/ \E d \in Daemons : GcTestSock(d) \/ GcTestJail(d)

Collector ==
  GcBegin \/ GcTest \/ GcUnlink \/ GcUnlock \/ GcEnd

Next == (\E d \in Daemons : MakeTemp(d) \/ Daemon(d)) \/ Collector \/ MainRestart

Spec == Init /\ [][Next]_vars

(* A daemon inside a critical section or its cleanup keeps running, and its  *)
(* blocking flock() is granted sometimes.  The collector is started again    *)
(* and again, by each dead child and by each quiet minute of the accept      *)
(* loop; its non-blocking flock succeeds sometimes, scans come to the        *)
(* entries that look dead, and they end.                                     *)
Fairness ==
  /\ \A d \in Daemons : SF_vars(MakeTemp(d) \/ IdentityStep(d) \/ NameStep(d) \/ ExitStep(d))
  /\ SF_vars(GcBegin)
  /\ SF_vars(GcTest)
  /\ WF_vars(GcUnlink \/ GcUnlock \/ GcEnd)

FairSpec == Spec /\ Fairness
=============================================================================
