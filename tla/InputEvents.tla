---------------------------- MODULE InputEvents -----------------------------
(***************************************************************************)
(* The input socket of a host (InputSocket), the viewers of its session    *)
(* daemon (WebViewers), and the SSH connection between the two, which may  *)
(* be lost: then there is another daemon, which knows nothing.             *)
(***************************************************************************)
EXTENDS WebViewers, InputSocket

CONSTANTS
  MaxConns,     \* bound: connections to the relay
  MaxQueue      \* bound: messages on the way, in each direction

VARIABLES
  up,           \* the host is connected
  conns         \* how often it has been

ASSUME BoundsAssumption == MaxConns \in Nat \ {0} /\ MaxQueue \in Nat \ {0}

linkVars == <<up, conns>>
vars == <<viewerVars, socketVars, linkVars>>

Init == ViewersInit /\ SocketInit /\ up = TRUE /\ conns = 1

(* The viewers act while they have a daemon.                                 *)
ViewersStep ==
  /\ up /\ Len(toHost) < MaxQueue
  /\ Viewers
  /\ UNCHANGED <<socketVars, linkVars>>

AppsStep ==
  /\ ~freedUsed /\ Len(toDaemon) < MaxQueue
  /\ Applications(up)
  /\ UNCHANGED <<viewerVars, linkVars>>

(* handle_user_join, handle_user_leave                                       *)
HostReads ==
  /\ ~freedUsed /\ up /\ toHost # <<>>
  /\ toHost' = Tail(toHost)
  /\ UserChange(Head(toHost), up)
  /\ UNCHANGED <<conn, ssh, nextId, webSharing, inputMode, counts, disowned, linkVars>>

(* The daemon reads a mode, and answers with whom it knows.                  *)
DaemonReads ==
  /\ up /\ toDaemon # <<>> /\ Len(toHost) < MaxQueue
  /\ toDaemon' = Tail(toDaemon)
  /\ InputMode(Head(toDaemon))
  /\ UNCHANGED <<app, users, freedUsed, linkVars>>

(* kill_ssh_client on the host; the daemon ends, with all its viewers.       *)
Lost ==
  /\ up /\ conns < MaxConns /\ up' = FALSE
  /\ NewDaemon /\ toDaemon' = <<>>
  /\ UNCHANGED <<app, users, freedUsed, conns>>

(* SSH_BOOTSTRAP: nothing is sent again for the input socket.                *)
Connect ==
  /\ ~up /\ up' = TRUE /\ conns' = conns + 1
  /\ UNCHANGED <<viewerVars, socketVars>>

Next == ViewersStep \/ AppsStep \/ HostReads \/ DaemonReads \/ Lost \/ Connect

Spec == Init /\ [][Next]_vars

(* Both ends read what arrives.                                              *)
FairSpec == Spec /\ WF_vars(HostReads) /\ WF_vars(DaemonReads)
=============================================================================
