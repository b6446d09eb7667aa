-------------------------- MODULE HostTunnelProofs --------------------------
(***************************************************************************)
(* Theorems of HostTunnel, for any addresses, genuine or not.  IInv is     *)
(* inductive: SingleWinner is what makes the loss of a tunnel the loss of  *)
(* the last client, OneActivity what lets that loss arm the only timer.    *)
(***************************************************************************)
EXTENDS HostTunnelProps, TLAPS

LEMMA Initially == Init => IInv
<1> SUFFICES ASSUME Init PROVE IInv
  OBVIOUS
<1> USE AddressAssumption DEF Init
<1>1. TypeOK
  <2>1. up \in SUBSET Ips
    OBVIOUS
  <2>2. st \in [Ips -> States \cup {"none"}]
    BY DEF States
  <2>3. attempts \in 0..MaxAttempts
    BY DEF MaxAttempts
  <2>4. QED  BY <2>1, <2>2, <2>3, Zenon DEF TypeOK
<1>2. OneActivity /\ SingleWinner /\ NoDangling /\ LastIpFresh
  BY DEF OneActivity, SingleWinner, NoDangling, LastIpFresh, Trying, Clients, Verified, States
<1>3. QED  BY <1>1, <1>2 DEF IInv

(* Nothing but hostSet, up and capTimer changed, and the latter was cleared. *)
LEMMA Harmless ==
  ASSUME IInv, UNCHANGED <<st, sessionVars, writer, layoutFailed, freedUsed>>,
         hostSet' \in BOOLEAN, up' \in SUBSET Ips, capTimer' \in {FALSE, capTimer}
  PROVE  IInv'
<1>1. TypeOK'
  BY DEF IInv, TypeOK, sessionVars
<1>2. OneActivity' /\ LastIpFresh'
  BY DEF IInv, OneActivity, LastIpFresh, Busy, Trying, Clients, sessionVars
<1>3. SingleWinner' /\ NoDangling'
  <2>1. SingleWinner'
    BY DEF IInv, SingleWinner, Clients, Verified, States
  <2>2. capTimer' => capTimer
    BY DEF IInv, TypeOK
  <2>3. QED  BY <2>1, <2>2 DEF IInv, NoDangling
<1>4. QED  BY <1>1, <1>2, <1>3 DEF IInv

(* A remembered address has its client up, unless a retry is due or sharing  *)
(* was refused.                                                              *)
LEMMA Idle ==
  ASSUME IInv, resolving \/ dnsRetry \/ \E i \in Ips : st[i] \in States \ {"ready"}
  PROVE  lastIp = NoIp
  BY AddressAssumption
  DEF IInv, TypeOK, OneActivity, SingleWinner, NoDangling, LastIpFresh, Trying, Busy, Clients,
      Verified, States

(* What a kill leaves behind.                                                *)
LEMMA Killed ==
  ASSUME IInv, NEW s \in [Ips -> States \cup {"none"}], KillTo(s),
         UNCHANGED <<dnsRetry, lastIp, layoutFailed, envVars, freedUsed>>,
         resolving' = FALSE,
         ~dnsRetry, ~waiting,
         \A i \in Ips : s[i] = "ready" => st[i] = "ready",
         \A i \in Ips : s[i] \in Verified => Clients(s) = {i},
         writer # NoIp => Clients(s) = {} \/ s = st,
         lastIp = NoIp \/ writer # NoIp
  PROVE  IInv'
<1> USE AddressAssumption
<1>1. CASE Clients(s) = {}
  <2>1. /\ st' = s /\ \A i \in Ips : s[i] = "none"
        /\ attempts' = (IF layoutFailed THEN attempts ELSE AtMost(attempts + 1, MaxAttempts))
        /\ waiting' = ~layoutFailed
    BY <1>1 DEF KillTo, ReconnectSession, Clients, IInv, TypeOK
  <2>2. writer' = NoIp /\ capTimer' = FALSE
    BY <2>1 DEF KillTo, IInv, TypeOK
  <2>3. attempts' \in 0..MaxAttempts /\ (attempts = 0 /\ ~layoutFailed => attempts' = 1)
    BY <2>1 DEF IInv, TypeOK, AtMost, MaxAttempts
  <2>4. writer # NoIp => lastIp = NoIp \/ attempts = 0 \/ layoutFailed
    BY DEF IInv, LastIpFresh
  <2>5. TypeOK'
    BY <2>1, <2>2, <2>3 DEF IInv, TypeOK, envVars
  <2>6. OneActivity' /\ SingleWinner' /\ NoDangling'
    BY <2>1, <2>2 DEF OneActivity, SingleWinner, NoDangling, Trying, Clients, Verified, States
  <2>7. LastIpFresh'
    BY <2>1, <2>2, <2>3, <2>4 DEF LastIpFresh, Busy, Trying, Clients
  <2>8. QED  BY <2>5, <2>6, <2>7 DEF IInv
<1>2. CASE Clients(s) # {}
  <2>1. st' = s /\ UNCHANGED <<waiting, attempts>>
    BY <1>2 DEF KillTo
  <2>2. CASE writer = NoIp
    <3>1. writer' = NoIp /\ lastIp' = NoIp /\ capTimer' = FALSE
      BY <2>1, <2>2 DEF KillTo, IInv, TypeOK, NoDangling
    <3>2. \A i \in Ips : s[i] # "ready"
      BY <2>2 DEF IInv, NoDangling
    <3>3. QED
      BY <2>1, <3>1, <3>2
      DEF IInv, TypeOK, OneActivity, SingleWinner, NoDangling, LastIpFresh, Trying, Clients, envVars
  <2>3. CASE writer # NoIp
    <3>1. s = st
      BY <1>2, <2>3
    <3>2. writer' = writer /\ capTimer' \in {FALSE, capTimer}
      BY <2>3, <3>1 DEF KillTo, IInv, TypeOK, NoDangling
    <3>3. CASE resolving
      BY <1>2, <3>1, <3>3 DEF IInv, OneActivity, Trying
    <3>4. CASE ~resolving
      BY <2>1, <3>1, <3>2, <3>4, Harmless DEF IInv, TypeOK, sessionVars, envVars
    <3>5. QED  BY <3>3, <3>4
  <2>4. QED  BY <2>2, <2>3
<1>3. QED  BY <1>1, <1>2

-----------------------------------------------------------------------------
(* One lemma for each callback that disturbs more than Harmless allows.      *)

LEMMA LookupStep ==
  ASSUME IInv, OnDnsRetry \/ DnsFails \/ (OnReconnectRetry(FALSE) /\ lastIp = NoIp)
                 \/ (OnReconnectRetry(TRUE) /\ lastIp = NoIp)
  PROVE  IInv'
<1>1. /\ UNCHANGED <<st, attempts, lastIp, tunnelVars, envVars, freedUsed>>
      /\ resolving' \in BOOLEAN /\ dnsRetry' \in BOOLEAN /\ waiting' = FALSE
      /\ ~(resolving' /\ dnsRetry')
      /\ dnsRetry \/ resolving \/ waiting
  <2>1. CASE OnDnsRetry
    BY <2>1 DEF IInv, TypeOK, OneActivity, OnDnsRetry, LookupAndConnect
  <2>2. CASE DnsFails
    BY <2>2 DEF IInv, TypeOK, OneActivity, DnsFails
  <2>3. ASSUME NEW b \in BOOLEAN, OnReconnectRetry(b), lastIp = NoIp
        PROVE  /\ UNCHANGED <<st, attempts, lastIp, dnsRetry, tunnelVars, envVars, freedUsed>>
               /\ waiting' = FALSE /\ waiting /\ resolving' = (resolving \/ hostSet)
    BY <2>3 DEF OnReconnectRetry, LookupAndConnect
  <2>4. QED  BY <2>1, <2>2, <2>3 DEF IInv, TypeOK, OneActivity
<1>2. lastIp = NoIp
  BY Idle DEF OnDnsRetry, DnsFails
<1>3. ~Trying
  BY <1>1 DEF IInv, OneActivity
<1>4. TypeOK'
  BY <1>1 DEF IInv, TypeOK, tunnelVars, envVars
<1>5. OneActivity' /\ SingleWinner' /\ NoDangling' /\ LastIpFresh'
  <2>1. ~Trying' /\ lastIp' = NoIp
    BY <1>1, <1>2, <1>3 DEF Trying, Clients
  <2>2. OneActivity' /\ LastIpFresh'
    BY <1>1, <2>1 DEF OneActivity, LastIpFresh
  <2>3. SingleWinner'
    BY <1>1 DEF IInv, SingleWinner, Clients, Verified, States
  <2>4. NoDangling'
    BY <1>1 DEF IInv, NoDangling, tunnelVars
  <2>5. QED  BY <2>2, <2>3, <2>4
<1>6. QED  BY <1>4, <1>5 DEF IInv

LEMMA AnswerStep ==
  ASSUME IInv, NEW found \in SUBSET Ips, NEW refused \in SUBSET found, DnsAnswers(found, refused)
  PROVE  IInv'
<1> DEFINE s == [i \in Ips |-> IF i \notin found THEN st[i]
                              ELSE IF i \in refused THEN "none" ELSE "connect"]
<1>1. ~dnsRetry /\ ~waiting /\ \A i \in Ips : st[i] = "none"
  BY DEF IInv, OneActivity, Trying, Clients, DnsAnswers
<1>2. lastIp = NoIp /\ writer = NoIp
  BY <1>1, Idle DEF DnsAnswers, IInv, TypeOK, NoDangling
<1>3. s \in [Ips -> States \cup {"none"}]
  BY <1>1 DEF States
<1>4. \A i \in Ips : s[i] \notin Verified
  BY <1>1 DEF Verified, States
<1>5. \A i \in Ips : s[i] # "ready"
  BY <1>4 DEF Verified, States
<1>6. /\ KillTo(s) /\ resolving' = FALSE
      /\ UNCHANGED <<dnsRetry, lastIp, layoutFailed, envVars, freedUsed>>
  BY DEF DnsAnswers
<1> HIDE DEF s
<1>7. QED  BY <1>1, <1>2, <1>3, <1>4, <1>5, <1>6, Killed

(* The address that worked last is tried again.                              *)
LEMMA DirectStep ==
  ASSUME IInv, NEW b \in BOOLEAN, OnReconnectRetry(b), lastIp # NoIp
  PROVE  IInv'
<1>1. ~resolving /\ ~dnsRetry /\ writer = NoIp /\ \A i \in Ips : st[i] = "none"
  BY DEF IInv, TypeOK, OneActivity, NoDangling, Trying, Clients, OnReconnectRetry
<1>2. /\ UNCHANGED <<resolving, dnsRetry, tunnelVars, envVars, freedUsed>>
      /\ lastIp' = NoIp /\ waiting
  BY DEF OnReconnectRetry
<1>3. CASE b
  <2>1. ReconnectSession(attempts, FALSE) /\ UNCHANGED st
    BY <1>3 DEF OnReconnectRetry
  <2>2. attempts' \in 0..MaxAttempts /\ waiting' \in BOOLEAN
    <3>1. waiting' \in BOOLEAN
      BY <2>1, Zenon DEF ReconnectSession
    <3>2. attempts' \in 0..MaxAttempts
      BY <2>1 DEF ReconnectSession, IInv, TypeOK, AtMost, MaxAttempts
    <3>3. QED  BY <3>1, <3>2
  <2>3. TypeOK'
    BY <1>2, <2>1, <2>2 DEF IInv, TypeOK, tunnelVars, envVars
  <2>4. OneActivity' /\ LastIpFresh'
    BY <1>1, <1>2, <2>1 DEF OneActivity, LastIpFresh, Trying, Clients
  <2>5. SingleWinner' /\ NoDangling'
    BY <1>1, <1>2, <2>1 DEF IInv, SingleWinner, NoDangling, Clients, Verified, States, tunnelVars
  <2>6. QED  BY <2>3, <2>4, <2>5 DEF IInv
<1>4. CASE ~b
  <2>1. st' = [st EXCEPT ![lastIp] = "connect"] /\ waiting' = FALSE /\ UNCHANGED attempts
    BY <1>4 DEF OnReconnectRetry
  <2>2. \A i \in Ips : st'[i] \in {"none", "connect"}
    BY <1>1, <2>1 DEF IInv, TypeOK
  <2>3. TypeOK'
    BY <1>2, <2>1 DEF IInv, TypeOK, States, tunnelVars, envVars
  <2>4. OneActivity' /\ LastIpFresh'
    BY <1>1, <1>2, <2>1 DEF OneActivity, LastIpFresh
  <2>5. SingleWinner'
    BY <2>2 DEF SingleWinner, Verified, States
  <2>6. NoDangling'
    BY <1>1, <1>2, <2>2, AddressAssumption DEF IInv, NoDangling, tunnelVars
  <2>7. QED  BY <2>3, <2>4, <2>5, <2>6 DEF IInv
<1>5. QED  BY <1>3, <1>4

(* A client whose server was recognized moves on.                            *)
LEMMA MoveStep ==
  ASSUME IInv, NEW i \in Ips, NEW from \in Verified \ {"ready"}, NEW to \in Verified \ {"ready"},
         Move(i, from, to)
  PROVE  IInv'
<1>1. /\ st[i] = from /\ st' = [st EXCEPT ![i] = to]
      /\ UNCHANGED <<sessionVars, tunnelVars, envVars, freedUsed>>
  BY DEF Move
<1>2. TypeOK'
  BY <1>1 DEF IInv, TypeOK, sessionVars, tunnelVars, envVars, Verified
<1>3. Clients(st') = Clients(st)
  BY <1>1 DEF IInv, TypeOK, Clients, Verified, States
<1>4. OneActivity' /\ LastIpFresh'
  BY <1>1, <1>3 DEF IInv, OneActivity, LastIpFresh, Busy, Trying, sessionVars, tunnelVars
<1>5. SingleWinner'
  <2>1. Clients(st) = {i}
    BY <1>1 DEF IInv, SingleWinner
  <2>2. \A j \in Ips : st'[j] \in Verified => j = i
    BY <1>1, <1>3, <2>1 DEF Clients, Verified, States
  <2>3. QED  BY <1>3, <2>1, <2>2 DEF SingleWinner
<1>6. NoDangling'
  BY <1>1 DEF IInv, TypeOK, NoDangling, tunnelVars
<1>7. QED  BY <1>2, <1>4, <1>5, <1>6 DEF IInv

LEMMA ConnectedStep ==
  ASSUME IInv, NEW i \in Ips, Connected(i)
  PROVE  IInv'
<1>1. /\ st[i] = "connect" /\ i \in Clients(st)
      /\ UNCHANGED <<resolving, dnsRetry, lastIp, layoutFailed, envVars, freedUsed>>
  BY DEF Connected, Clients
<1>2. resolving' = FALSE /\ ~dnsRetry /\ ~waiting
  <2>1. ~resolving /\ ~dnsRetry /\ ~waiting
    BY <1>1 DEF IInv, OneActivity, Trying
  <2>2. QED  BY <1>1, <2>1 DEF IInv, TypeOK
<1>3. lastIp = NoIp /\ writer = NoIp
  <2>1. lastIp = NoIp
    BY <1>1, Idle DEF States
  <2>2. ASSUME writer # NoIp PROVE FALSE
    <3>1. st[writer] = "ready" /\ writer \in Ips
      BY <2>2 DEF IInv, TypeOK, NoDangling
    <3>2. Clients(st) = {writer}
      BY <3>1 DEF IInv, SingleWinner, Verified, States
    <3>3. QED  BY <1>1, <3>1, <3>2
  <2>3. QED  BY <2>1, <2>2
<1>4. CASE i \in Genuine
  <2> DEFINE s == [j \in Ips |-> IF j = i THEN "auth_none" ELSE "none"]
  <2>1. KillTo(s)
    BY <1>4 DEF Connected
  <2>2. s \in [Ips -> States \cup {"none"}]
    BY DEF States
  <2>3. \A j \in Ips : s[j] # "ready" /\ (s[j] \in Verified => Clients(s) = {j})
    BY DEF Clients, Verified, States
  <2> HIDE DEF s
  <2>4. QED  BY <1>1, <1>2, <1>3, <2>1, <2>2, <2>3, Killed
<1>5. CASE i \notin Genuine
  <2> DEFINE s == [st EXCEPT ![i] = "none"]
  <2>1. KillTo(s)
    BY <1>5 DEF Connected, Kill
  <2>2. s \in [Ips -> States \cup {"none"}]
    BY DEF IInv, TypeOK
  <2>3. \A j \in Ips : s[j] \notin Verified
    <3>1. \A j \in Ips : st[j] \notin Verified
      BY <1>1 DEF IInv, SingleWinner, Verified, States
    <3>2. QED  BY <3>1 DEF IInv, TypeOK, Verified, States
  <2>4. \A j \in Ips : s[j] # "ready"
    BY <2>3 DEF Verified, States
  <2> HIDE DEF s
  <2>5. QED  BY <1>1, <1>2, <1>3, <2>1, <2>2, <2>3, <2>4, Killed
<1>6. QED  BY <1>4, <1>5

(* A client that is not ready yet goes; others may be left.                  *)
LEMMA FailsStep ==
  ASSUME IInv, NEW i \in Ips, Fails(i)
  PROVE  IInv'
<1> DEFINE s == [st EXCEPT ![i] = "none"]
<1>1. /\ st[i] \in States \ {"ready"} /\ i \in Clients(st) /\ KillTo(s)
      /\ UNCHANGED <<resolving, dnsRetry, lastIp, layoutFailed, envVars, freedUsed>>
  BY DEF Fails, Kill, Clients, States
<1>2. resolving' = FALSE /\ ~dnsRetry /\ ~waiting
  <2>1. ~resolving /\ ~dnsRetry /\ ~waiting
    BY <1>1 DEF IInv, OneActivity, Trying
  <2>2. QED  BY <1>1, <2>1 DEF IInv, TypeOK
<1>3. lastIp = NoIp
  BY <1>1, Idle
<1>4. writer = NoIp
  <2>1. ASSUME writer # NoIp PROVE FALSE
    <3>1. st[writer] = "ready" /\ writer \in Ips
      BY <2>1 DEF IInv, TypeOK, NoDangling
    <3>2. Clients(st) = {writer}
      BY <3>1 DEF IInv, SingleWinner, Verified, States
    <3>3. QED  BY <1>1, <3>1, <3>2
  <2>2. QED  BY <2>1
<1>5. s \in [Ips -> States \cup {"none"}]
  BY DEF IInv, TypeOK
<1>6. \A j \in Ips : s[j] = "ready" => st[j] = "ready"
  BY DEF IInv, TypeOK
<1>7. ASSUME NEW j \in Ips, s[j] \in Verified PROVE Clients(s) = {j}
  <2>1. j # i /\ st[j] \in Verified
    BY <1>7 DEF IInv, TypeOK, Verified, States
  <2>2. Clients(st) = {j}
    BY <2>1 DEF IInv, SingleWinner
  <2>3. QED  BY <1>1, <2>1, <2>2
<1> HIDE DEF s
<1>8. QED  BY <1>1, <1>2, <1>3, <1>4, <1>5, <1>6, <1>7, Killed

(* The tunnel is lost: its client was the only one.                          *)
LEMMA LostStep ==
  ASSUME IInv, NEW i \in Ips, Lost(i)
  PROVE  IInv'
<1> DEFINE s == [st EXCEPT ![i] = "none"]
<1>1. /\ st[i] = "ready" /\ writer = i /\ KillTo(s)
      /\ UNCHANGED <<resolving, dnsRetry, lastIp, layoutFailed, envVars, freedUsed>>
  BY DEF Lost, Kill, IInv, NoDangling
<1>2. Clients(st) = {i}
  BY <1>1 DEF IInv, SingleWinner, Verified, States
<1>3. resolving' = FALSE /\ ~dnsRetry /\ ~waiting
  <2>1. ~resolving /\ ~dnsRetry /\ ~waiting
    BY <1>2 DEF IInv, OneActivity, Trying
  <2>2. QED  BY <1>1, <2>1 DEF IInv, TypeOK
<1>4. s \in [Ips -> States \cup {"none"}]
  BY DEF IInv, TypeOK
<1>5. \A j \in Ips : s[j] = "none"
  BY <1>2 DEF IInv, TypeOK, Clients
<1>6. Clients(s) = {}
  BY <1>5 DEF Clients
<1>7. \A j \in Ips : s[j] # "ready" /\ s[j] \notin Verified
  BY <1>5 DEF Verified, States
<1>8. writer # NoIp
  BY <1>1, AddressAssumption
<1> HIDE DEF s
<1>9. QED  BY <1>1, <1>3, <1>4, <1>6, <1>7, <1>8, Killed

(* The tunnel is up, or breaks while it starts.                              *)
LEMMA BootstrapStep ==
  ASSUME IInv, NEW i \in Ips, Bootstrapped(i) \/ BootstrapLost(i)
  PROVE  IInv'
<1>1. st[i] = "bootstrap" /\ st' \in {[st EXCEPT ![i] = "ready"], [st EXCEPT ![i] = "none"]}
  BY DEF Bootstrapped, BootstrapLost
<1>2. Clients(st) = {i}
  BY <1>1 DEF IInv, SingleWinner, Verified, States
<1>3. ~resolving /\ ~dnsRetry /\ ~waiting
  BY <1>2 DEF IInv, OneActivity, Trying
<1>4. \A j \in Ips : j # i => st'[j] = "none"
  BY <1>1, <1>2 DEF IInv, TypeOK, Clients
<1>5. CASE Bootstrapped(i)
  <2>1. /\ st' = [st EXCEPT ![i] = "ready"]
        /\ attempts' = 0 /\ writer' = i /\ capTimer' = TRUE /\ lastIp' = i
        /\ UNCHANGED <<resolving, dnsRetry, waiting, layoutFailed, envVars, freedUsed>>
    BY <1>5 DEF Bootstrapped
  <2>2. st'[i] = "ready"
    BY <2>1 DEF IInv, TypeOK
  <2>3. TypeOK'
    <3>1. st' \in [Ips -> States \cup {"none"}]
      BY <2>1 DEF IInv, TypeOK, States
    <3>2. attempts' \in 0..MaxAttempts
      BY <2>1 DEF MaxAttempts
    <3>3. QED  BY <2>1, <3>1, <3>2, Zenon DEF IInv, TypeOK, envVars
  <2>4. OneActivity' /\ LastIpFresh'
    BY <1>3, <2>1, AddressAssumption DEF OneActivity, LastIpFresh
  <2>5. SingleWinner'
    BY <1>4, <2>2 DEF SingleWinner, Clients, Verified, States
  <2>6. NoDangling'
    BY <1>4, <2>1, <2>2, AddressAssumption DEF NoDangling
  <2>7. QED  BY <2>3, <2>4, <2>5, <2>6 DEF IInv
<1>6. CASE BootstrapLost(i)
  <2>1. /\ st' = [st EXCEPT ![i] = "none"]
        /\ ReconnectSession(0, waiting)
        /\ writer' = NoIp /\ capTimer' = FALSE /\ lastIp' = i /\ freedUsed' = TRUE
        /\ UNCHANGED <<resolving, dnsRetry, layoutFailed, envVars>>
    BY <1>6 DEF BootstrapLost
  <2>2. \A j \in Ips : st'[j] = "none"
    BY <1>4, <2>1 DEF IInv, TypeOK
  <2>3. /\ attempts' = (IF layoutFailed THEN 0 ELSE 1)
        /\ waiting' = ~layoutFailed
    <3>1. CASE layoutFailed
      BY <1>3, <2>1, <3>1 DEF ReconnectSession, IInv, TypeOK
    <3>2. CASE ~layoutFailed
      <4>1. attempts' = AtMost(0 + 1, MaxAttempts) /\ waiting' = TRUE
        BY <1>3, <2>1, <3>2 DEF ReconnectSession
      <4>2. attempts' = 1
        BY <4>1 DEF AtMost, MaxAttempts
      <4>3. QED  BY <3>2, <4>1, <4>2
    <3>3. QED  BY <3>1, <3>2
  <2>4. TypeOK'
    <3>1. st' \in [Ips -> States \cup {"none"}]
      BY <2>1 DEF IInv, TypeOK
    <3>2. attempts' \in 0..MaxAttempts
      BY <2>3 DEF MaxAttempts
    <3>3. QED  BY <2>1, <2>3, <3>1, <3>2, Zenon DEF IInv, TypeOK, envVars
  <2>5. ~Trying'
    BY <2>2 DEF Trying, Clients
  <2>6. OneActivity' /\ LastIpFresh'
    BY <1>3, <2>1, <2>3, <2>5 DEF OneActivity, LastIpFresh, Busy
  <2>7. SingleWinner' /\ NoDangling'
    BY <2>1, <2>2, AddressAssumption DEF SingleWinner, NoDangling, Verified, States
  <2>8. QED  BY <2>4, <2>6, <2>7 DEF IInv
<1>7. QED  BY <1>5, <1>6

LEMMA RefusedStep ==
  ASSUME IInv, Refused
  PROVE  IInv'
<1>1. /\ UNCHANGED <<st, sessionVars, writer, capTimer, envVars, freedUsed>>
      /\ layoutFailed' = TRUE
      /\ \E i \in Ips : st[i] = "ready"
  BY DEF Refused
<1>2. writer # NoIp
  BY <1>1, AddressAssumption DEF IInv, NoDangling
<1>3. ~waiting
  BY <1>1 DEF IInv, OneActivity, Trying, Clients
<1>4. TypeOK'
  BY <1>1 DEF IInv, TypeOK, sessionVars, envVars
<1>5. OneActivity' /\ SingleWinner' /\ NoDangling'
  BY <1>1 DEF IInv, OneActivity, SingleWinner, NoDangling, Trying, Clients, Verified, States,
              sessionVars
<1>6. LastIpFresh'
  <2>1. lastIp # NoIp => attempts = 0 \/ ~Busy
    BY <1>3 DEF IInv, LastIpFresh
  <2>2. Busy
    BY <1>1 DEF Busy, Trying, Clients
  <2>3. QED  BY <1>1, <1>2, <2>1, <2>2 DEF LastIpFresh, sessionVars
<1>7. QED  BY <1>4, <1>5, <1>6 DEF IInv

-----------------------------------------------------------------------------
LEMMA Step == IInv /\ [Next]_vars => IInv'
<1> SUFFICES ASSUME IInv, [Next]_vars PROVE IInv'
  OBVIOUS
<1>1. CASE Timers
  <2>1. CASE OnDnsRetry
    BY <2>1, LookupStep
  <2>2. ASSUME NEW b \in BOOLEAN, OnReconnectRetry(b) PROVE IInv'
    BY <2>2, LookupStep, DirectStep
  <2>3. QED  BY <1>1, <2>1, <2>2 DEF Timers
<1>2. CASE Resolver
  BY <1>2, LookupStep, AnswerStep DEF Resolver
<1>3. CASE Refused
  BY <1>3, RefusedStep
<1>4. CASE Negotiated
  BY <1>4, Harmless DEF Negotiated, IInv, TypeOK, envVars
<1>5. ASSUME NEW i \in Ips, Progress(i) PROVE IInv'
  <2>1. CASE NoneAccepted(i) \/ NoneDenied(i) \/ KeyAccepted(i) \/ ChannelOpened(i)
    BY <2>1, MoveStep DEF NoneAccepted, NoneDenied, KeyAccepted, ChannelOpened, Verified, States
  <2>2. QED  BY <1>5, <2>1, ConnectedStep, BootstrapStep DEF Progress
<1>6. ASSUME NEW i \in Ips, Fails(i) \/ Lost(i) PROVE IInv'
  BY <1>6, FailsStep, LostStep
<1>7. CASE World
  <2>1. /\ UNCHANGED <<st, sessionVars, writer, capTimer, layoutFailed, freedUsed>>
        /\ hostSet' \in BOOLEAN /\ up' \in SUBSET Ips
    BY <1>7 DEF World, SetHost, GoesDown, ComesUp, tunnelVars, IInv, TypeOK
  <2>2. QED  BY <2>1, Harmless
<1>8. CASE UNCHANGED vars
  BY <1>8, Harmless DEF vars, tunnelVars, envVars, IInv, TypeOK
<1>9. QED  BY <1>1, <1>2, <1>3, <1>4, <1>5, <1>6, <1>7, <1>8 DEF Next, Program

(* The inductive invariant of the host's tunnel.                             *)
THEOREM Invariance == Spec => []IInv
<1>1. QED  BY Initially, Step, PTL DEF Spec

(* Every variable has its type.                                              *)
THEOREM TypeCorrect == Spec => []TypeOK
<1>1. IInv => TypeOK
  BY DEF IInv
<1>2. QED  BY <1>1, Invariance, PTL

(* One activity at a time, one winner of the race, nothing that refers to a  *)
(* client that was freed, and one chance for the server that worked last,    *)
(* whatever fails and in whatever order.                                     *)
THEOREM TunnelIsSafe == Spec => []TunnelSafe
<1>1. IInv => LastServerOnce
  <2> SUFFICES ASSUME IInv, waiting, lastIp # NoIp PROVE attempts = 1
    BY DEF LastServerOnce
  <2>1. writer = NoIp
    BY DEF IInv, TypeOK, OneActivity, NoDangling, Trying, Clients
  <2>2. QED  BY <2>1 DEF IInv, LastIpFresh, Busy
<1>2. IInv => TunnelSafe
  BY <1>1 DEF IInv, TunnelSafe
<1>3. QED  BY <1>2, Invariance, PTL

-----------------------------------------------------------------------------
(* A kill leaves clients or arms the timer.                                  *)
LEMMA KillGoesOn ==
  ASSUME NEW s, KillTo(s), ~layoutFailed
  PROVE  Busy'
  BY DEF KillTo, ReconnectSession, Busy, Trying

LEMMA GoesOn ==
  IInv /\ [Next]_vars => (Busy => Busy' \/ layoutFailed \/ ~hostSet)
<1> SUFFICES ASSUME IInv, [Next]_vars, Busy, ~layoutFailed, hostSet PROVE Busy'
  OBVIOUS
<1>1. CASE Timers
  <2>1. CASE OnDnsRetry
    BY <2>1 DEF OnDnsRetry, LookupAndConnect, Busy
  <2>2. ASSUME NEW b \in BOOLEAN, OnReconnectRetry(b) PROVE Busy'
    <3>1. CASE lastIp = NoIp
      BY <2>2, <3>1 DEF OnReconnectRetry, LookupAndConnect, Busy
    <3>2. CASE lastIp # NoIp /\ b
      BY <2>2, <3>2 DEF OnReconnectRetry, ReconnectSession, Busy
    <3>3. CASE lastIp # NoIp /\ ~b
      <4>1. lastIp \in Ips /\ st' = [st EXCEPT ![lastIp] = "connect"]
        BY <2>2, <3>3 DEF OnReconnectRetry, IInv, TypeOK
      <4>2. lastIp \in Clients(st')
        BY <4>1 DEF IInv, TypeOK, Clients
      <4>3. QED  BY <4>2 DEF Busy, Trying
    <3>4. QED  BY <3>1, <3>2, <3>3
  <2>3. QED  BY <1>1, <2>1, <2>2 DEF Timers
<1>2. CASE Resolver
  <2>1. CASE DnsFails
    BY <2>1 DEF DnsFails, Busy
  <2>2. ASSUME NEW found, NEW refused, DnsAnswers(found, refused) PROVE Busy'
    BY <2>2, KillGoesOn DEF DnsAnswers
  <2>3. QED  BY <1>2, <2>1, <2>2 DEF Resolver
<1>3. ASSUME NEW i \in Ips, Progress(i) PROVE Busy'
  <2>1. CASE Connected(i)
    BY <2>1, KillGoesOn DEF Connected, Kill
  <2>2. ASSUME NEW from, NEW to \in States, Move(i, from, to) PROVE Busy'
    <3>1. st' = [st EXCEPT ![i] = to]
      BY <2>2 DEF Move
    <3>2. i \in Clients(st')
      BY <3>1 DEF IInv, TypeOK, Clients, States
    <3>3. QED  BY <3>2 DEF Busy, Trying
  <2>3. CASE NoneAccepted(i) \/ NoneDenied(i) \/ KeyAccepted(i) \/ ChannelOpened(i)
    BY <2>2, <2>3 DEF NoneAccepted, NoneDenied, KeyAccepted, ChannelOpened, States
  <2>4. CASE Bootstrapped(i)
    <3>1. i \in Clients(st')
      BY <2>4 DEF Bootstrapped, IInv, TypeOK, Clients
    <3>2. QED  BY <3>1 DEF Busy, Trying
  <2>5. CASE BootstrapLost(i)
    BY <2>5 DEF BootstrapLost, ReconnectSession, Busy
  <2>6. QED  BY <1>3, <2>1, <2>3, <2>4, <2>5 DEF Progress
<1>4. ASSUME NEW i \in Ips, Fails(i) \/ Lost(i) PROVE Busy'
  BY <1>4, KillGoesOn DEF Fails, Lost, Kill
<1>5. CASE Refused \/ Negotiated \/ World \/ UNCHANGED vars
  <2>1. UNCHANGED <<st, sessionVars>>
    BY <1>5 DEF Refused, Negotiated, World, SetHost, GoesDown, ComesUp, vars
  <2>2. QED  BY <2>1 DEF Busy, Trying, sessionVars
<1>6. QED  BY <1>1, <1>2, <1>3, <1>4, <1>5 DEF Next, Program

(* The host never gives up by itself.                                        *)
THEOREM KeepsTrying == Spec => NeverGivesUp
<1>1. IInv /\ [Next]_vars => [Busy => Busy' \/ layoutFailed \/ ~hostSet]_vars
  BY GoesOn
<1>2. QED  BY <1>1, Invariance, PTL DEF Spec, NeverGivesUp
=============================================================================
