---------------------------- MODULE LinkService -----------------------------
(***************************************************************************)
(* What the sessions directory promises to people who hold a link.         *)
(*                                                                         *)
(* A link leads to a session or nowhere.  Only a session that is           *)
(* rearranging its links points a link at itself, and the only links it    *)
(* may take away from another session are those of the same host, those of *)
(* a connection that its host has already replaced, and those of a session *)
(* that nobody can reach.  A link that somebody's current session has      *)
(* handed out is never silently moved to a stranger, and it goes away only *)
(* when that session withdraws it or stops.                                *)
(*                                                                         *)
(* The promise has one gap, which a session has from its first moment or   *)
(* never: a session may open while it is marked as dead by mistake, and    *)
(* be hidden later, or open hidden.  Its links may then go at any time.    *)
(*                                                                         *)
(* SessionDir implements this with symbolic links, flock() and a garbage   *)
(* collector; none of them appear here.                                    *)
(***************************************************************************)
CONSTANTS
  Sessions,     \* the sessions
  Hosts,        \* the identities of their hosts
  Links,        \* everything a viewer can hold
  Stable(_),    \* the link that stands for a host's identity
  Nowhere       \* what a dead link leads to, a session without identity

VARIABLES
  serving,      \* sessions that are up
  marked,       \* those that were marked as dead while they opened
  hidden,       \* those that no viewer can reach any more
  who,          \* the identity of a session, or Nowhere
  leads,        \* where a link leads
  busy          \* the session that is rearranging its links, or Nowhere

lvars == <<serving, marked, hidden, who, leads, busy>>

Init ==
  /\ serving = {}
  /\ marked = {}
  /\ hidden = {}
  /\ who = [s \in Sessions |-> Nowhere]
  /\ leads = [l \in Links |-> Nowhere]
  /\ busy = Nowhere

(* The session is the one its host is connected to. *)
Current(s) == who[s] = Nowhere \/ leads[Stable(who[s])] = s

(* s may point link l, which leads to session t, at itself. *)
MayTake(s, l) ==
  LET t == leads[l]
  IN  \/ t \in {Nowhere, s} \cup hidden
      \/ who[t] # Nowhere /\ who[t] = who[s]
      \/ ~Current(t)

(* A session starts, with a first link that nobody else uses. *)
Open(s) ==
  /\ s \notin serving
  /\ serving' = serving \cup {s}
  /\ \E l \in Links : leads[l] = Nowhere /\ leads' = [leads EXCEPT ![l] = s]
  /\ marked' \in {marked, marked \cup {s}}
  /\ UNCHANGED <<hidden, who, busy>>

(* A session starts that was taken for dead before; its first link may be   *)
(* gone already.                                                            *)
OpenHidden(s) ==
  /\ s \notin serving
  /\ serving' = serving \cup {s}
  /\ hidden' = hidden \cup {s}
  /\ \/ UNCHANGED leads
     \/ \E l \in Links : leads[l] = Nowhere /\ leads' = [leads EXCEPT ![l] = s]
  /\ UNCHANGED <<marked, who, busy>>

(* A marked session is hidden, or the mark is forgotten. *)
Hide(s) ==
  /\ s \in marked
  /\ marked' = marked \ {s}
  /\ hidden' \in {hidden, hidden \cup {s}}
  /\ UNCHANGED <<serving, who, leads, busy>>

(* Some of the links in L go, all others stay as they are. *)
Clear(L) ==
  /\ leads' \in [Links -> Sessions \cup {Nowhere}]
  /\ \A l \in Links : leads'[l] = leads[l] \/ (l \in L /\ leads'[l] = Nowhere)

(* Links of hidden sessions get lost, at any time. *)
Lose ==
  /\ UNCHANGED <<serving, marked, hidden, who, busy>>
  /\ Clear({l \in Links : leads[l] \in hidden})

(* One session at a time rearranges its links; it may learn who its host is. *)
Begin(s) ==
  /\ busy = Nowhere /\ s \in serving
  /\ busy' = s
  /\ \/ UNCHANGED who
     \/ who[s] = Nowhere /\ \E h \in Hosts : who' = [who EXCEPT ![s] = h]
  /\ UNCHANGED <<serving, marked, hidden, leads>>

Take(s) ==
  /\ busy = s /\ s \in serving
  /\ \E l \in Links : MayTake(s, l) /\ leads' = [leads EXCEPT ![l] = s]
  /\ UNCHANGED <<serving, marked, hidden, who, busy>>

(* The busy session drops links of its own, or clears those of a replaced   *)
(* connection or of a hidden session; with this, or without it, it may be   *)
(* done.                                                                    *)
Drop(s) ==
  /\ busy = s
  /\ Clear({l \in Links : leads[l] \in {Nowhere, s} \cup hidden \/ ~Current(leads[l])})
  /\ busy' \in {s, Nowhere}
  /\ UNCHANGED <<serving, marked, hidden, who>>

(* A session stops, at any time: its links lead nowhere. *)
Stop(s) ==
  /\ s \in serving
  /\ serving' = serving \ {s}
  /\ marked' = marked \ {s}
  /\ hidden' = hidden \ {s}
  /\ who' = [who EXCEPT ![s] = Nowhere]
  /\ leads' = [l \in Links |-> IF leads[l] = s THEN Nowhere ELSE leads[l]]
  /\ busy' = IF busy = s THEN Nowhere ELSE busy

Next ==
  \/ Lose
  \/ \E s \in Sessions : \/ Open(s) \/ OpenHidden(s) \/ Hide(s) \/ Stop(s)
                         \/ Begin(s) \/ Take(s) \/ Drop(s)

Spec == Init /\ [][Next]_lvars
=============================================================================
