--------------------------- MODULE CommandsProofs ---------------------------
(***************************************************************************)
(* Proofs about Commands, for any clients, channels, command lines and     *)
(* hooks.                                                                  *)
(***************************************************************************)
EXTENDS CommandsProps, SequenceTheorems, TLAPS

Queues == [Owners -> Seq(ItemSet)]

\* Only the first item of a queue was fired (cmdq_next).
OnlyFirst(q) ==
  \A o \in Owners : \A i \in 2..Len(q[o]) : q[o][i].state = "new"

Injective(s) == \A i, j \in DOMAIN s : s[i] = s[j] => i = j

-----------------------------------------------------------------------------
(* Sequences *)

LEMMA ConsIs ==
  ASSUME NEW S, NEW x \in S, NEW s \in Seq(S)
  PROVE  /\ <<x>> \o s \in Seq(S) /\ <<x>> \o s # <<>>
         /\ Head(<<x>> \o s) = x /\ Tail(<<x>> \o s) = s
         /\ Len(<<x>> \o s) = Len(s) + 1
         /\ \A i \in 2..Len(s) + 1 : (<<x>> \o s)[i] = s[i - 1]
  OBVIOUS

LEMMA HeadTail ==
  ASSUME NEW S, NEW s \in Seq(S), s # <<>>
  PROVE  /\ Head(s) \in S /\ Head(s) = s[1] /\ Tail(s) \in Seq(S)
         /\ Len(s) \in Nat \ {0} /\ Len(Tail(s)) = Len(s) - 1
         /\ \A i \in 1..Len(s) - 1 : Tail(s)[i] = s[i + 1]
  OBVIOUS

LEMMA RangeIs ==
  ASSUME NEW S, NEW s \in Seq(S)
  PROVE  /\ Range(s) = {s[i] : i \in 1..Len(s)} /\ Range(s) \subseteq S
         /\ DOMAIN s = 1..Len(s) /\ Len(s) \in Nat
  BY DEF Range

LEMMA RangeTail ==
  ASSUME NEW S, NEW s \in Seq(S), s # <<>>
  PROVE  Range(s) = {Head(s)} \cup Range(Tail(s))
<1>1. /\ Head(s) = s[1] /\ Tail(s) \in Seq(S) /\ Len(Tail(s)) = Len(s) - 1
      /\ Len(s) \in Nat \ {0} /\ \A i \in 1..Len(s) - 1 : Tail(s)[i] = s[i + 1]
  BY HeadTail
<1>2. Range(Tail(s)) = {Tail(s)[i] : i \in 1..Len(s) - 1}
  BY <1>1, RangeIs
<1>3. Range(s) = {s[i] : i \in 1..Len(s)}
  BY RangeIs
<1>4. Range(s) \subseteq {Head(s)} \cup Range(Tail(s))
  <2> SUFFICES ASSUME NEW i \in 1..Len(s), i # 1 PROVE s[i] \in Range(Tail(s))
    BY <1>1, <1>3
  <2>1. i - 1 \in 1..Len(s) - 1 /\ (i - 1) + 1 = i
    BY <1>1
  <2>2. s[i] = Tail(s)[i - 1]
    BY <2>1, <1>1
  <2> QED
    BY <2>1, <2>2, <1>2
<1>5. {Head(s)} \cup Range(Tail(s)) \subseteq Range(s)
  <2>1. \A i \in 1..Len(s) - 1 : i + 1 \in 1..Len(s) /\ Tail(s)[i] = s[i + 1]
    BY <1>1
  <2>2. 1 \in 1..Len(s)
    BY <1>1
  <2> QED
    BY <2>1, <2>2, <1>1, <1>2, <1>3
<1> QED
  BY <1>4, <1>5

LEMMA RangeAppend ==
  ASSUME NEW S, NEW s \in Seq(S), NEW e \in S
  PROVE  Range(Append(s, e)) = Range(s) \cup {e}
<1> DEFINE t == Append(s, e)
<1>1. /\ t \in Seq(S) /\ Len(t) = Len(s) + 1 /\ t[Len(s) + 1] = e
      /\ \A i \in 1..Len(s) : t[i] = s[i]
  BY AppendProperties
<1>2. Len(s) \in Nat /\ Range(s) = {s[i] : i \in 1..Len(s)}
  BY RangeIs
<1>3. Range(t) = {t[i] : i \in 1..Len(s) + 1}
  BY <1>1, RangeIs
<1> HIDE DEF t
<1>4. \A i \in 1..Len(s) + 1 : i \in 1..Len(s) \/ i = Len(s) + 1
  BY <1>2
<1>5. \A i \in 1..Len(s) : i \in 1..Len(s) + 1
  BY <1>2
<1>6. Len(s) + 1 \in 1..Len(s) + 1
  BY <1>2
<1>7. Range(t) = Range(s) \cup {e}
  BY <1>1, <1>2, <1>3, <1>4, <1>5, <1>6
<1> QED
  BY <1>7 DEF t

LEMMA InjectiveAppend ==
  ASSUME NEW S, NEW s \in Seq(S), NEW e \in S, Injective(s), e \notin Range(s)
  PROVE  Injective(Append(s, e))
  BY RangeIs, AppendProperties DEF Injective

LEMMA InjectiveTail ==
  ASSUME NEW S, NEW s \in Seq(S), s # <<>>, Injective(s)
  PROVE  Injective(Tail(s)) /\ Head(s) \notin Range(Tail(s))
<1>1. /\ Head(s) = s[1] /\ Tail(s) \in Seq(S) /\ Len(Tail(s)) = Len(s) - 1
      /\ Len(s) \in Nat \ {0} /\ \A i \in 1..Len(s) - 1 : Tail(s)[i] = s[i + 1]
  BY HeadTail
<1>2. DOMAIN s = 1..Len(s) /\ DOMAIN Tail(s) = 1..Len(s) - 1
      /\ Range(Tail(s)) = {Tail(s)[i] : i \in 1..Len(s) - 1}
  BY <1>1, RangeIs
<1>3. \A i, j \in 1..Len(s) - 1 : Tail(s)[i] = Tail(s)[j] => i = j
  <2> SUFFICES ASSUME NEW i \in 1..Len(s) - 1, NEW j \in 1..Len(s) - 1, Tail(s)[i] = Tail(s)[j]
               PROVE  i = j
    OBVIOUS
  <2>1. i + 1 \in 1..Len(s) /\ j + 1 \in 1..Len(s) /\ s[i + 1] = s[j + 1]
    BY <1>1
  <2>2. i + 1 = j + 1
    BY <2>1, <1>2 DEF Injective
  <2> QED
    BY <2>2
<1>4. \A i \in 1..Len(s) - 1 : Tail(s)[i] # s[1]
  <2> SUFFICES ASSUME NEW i \in 1..Len(s) - 1, Tail(s)[i] = s[1]
               PROVE  FALSE
    OBVIOUS
  <2>1. i + 1 \in 1..Len(s) /\ s[i + 1] = s[1] /\ 1 \in 1..Len(s) /\ i + 1 # 1
    BY <1>1
  <2> QED
    BY <2>1, <1>2 DEF Injective
<1> QED
  BY <1>1, <1>2, <1>3, <1>4 DEF Injective

LEMMA WithoutIs ==
  ASSUME NEW S, NEW s \in Seq(S), NEW e, Injective(s)
  PROVE  /\ Without(s, e) \in Seq(S) /\ Injective(Without(s, e))
         /\ Range(Without(s, e)) = Range(s) \ {e}
<1>0. /\ Range(s) = {s[i] : i \in 1..Len(s)} /\ DOMAIN s = 1..Len(s) /\ Len(s) \in Nat
  BY RangeIs
<1>1. CASE e \notin Range(s)
  BY <1>1 DEF Without
<1>2. CASE e \in Range(s)
  <2> DEFINE k == CHOOSE i \in DOMAIN s : s[i] = e
             t == Without(s, e)
  <2>1. k \in 1..Len(s) /\ s[k] = e
    BY <1>0, <1>2
  <2>2. t = SubSeq(s, 1, k - 1) \o SubSeq(s, k + 1, Len(s))
    BY <1>2 DEF Without, RemoveAt
  <2>3. /\ SubSeq(s, 1, k - 1) \in Seq(S) /\ Len(SubSeq(s, 1, k - 1)) = k - 1
        /\ SubSeq(s, k + 1, Len(s)) \in Seq(S)
        /\ Len(SubSeq(s, k + 1, Len(s))) = Len(s) - k
        /\ \A i \in 1..k - 1 : SubSeq(s, 1, k - 1)[i] = s[i]
        /\ \A i \in 1..Len(s) - k : SubSeq(s, k + 1, Len(s))[i] = s[i + k]
    BY <2>1, <1>0
  <2> HIDE DEF k
  <2>4. /\ t \in Seq(S) /\ Len(t) = Len(s) - 1
        /\ \A i \in 1..Len(s) - 1 : t[i] = IF i < k THEN s[i] ELSE s[i + 1]
    <3>1. /\ t \in Seq(S) /\ Len(t) = (k - 1) + (Len(s) - k)
          /\ \A i \in 1..(k - 1) + (Len(s) - k) : t[i] =
               IF i <= k - 1 THEN SubSeq(s, 1, k - 1)[i]
               ELSE SubSeq(s, k + 1, Len(s))[i - (k - 1)]
      BY <2>2, <2>3, ConcatProperties
    <3>2. (k - 1) + (Len(s) - k) = Len(s) - 1
      BY <2>1, <1>0
    <3>3. \A i \in 1..Len(s) - 1 : t[i] = IF i < k THEN s[i] ELSE s[i + 1]
      <4> SUFFICES ASSUME NEW i \in 1..Len(s) - 1 PROVE t[i] = IF i < k THEN s[i] ELSE s[i + 1]
        OBVIOUS
      <4>1. CASE i < k
        <5>1. i \in 1..k - 1 /\ i <= k - 1
          BY <4>1, <2>1, <1>0
        <5> QED
          BY <4>1, <5>1, <3>1, <3>2, <2>3
      <4>2. CASE ~(i < k)
        <5>1. i - (k - 1) \in 1..Len(s) - k /\ (i - (k - 1)) + k = i + 1 /\ ~(i <= k - 1)
          BY <4>2, <2>1, <1>0
        <5>2. SubSeq(s, k + 1, Len(s))[i - (k - 1)] = s[i + 1]
          BY <5>1, <2>3
        <5> QED
          BY <4>2, <5>1, <5>2, <3>1, <3>2
      <4> QED
        BY <4>1, <4>2
    <3> QED
      BY <3>1, <3>2, <3>3
  <2> HIDE DEF t
  <2>5. DOMAIN t = 1..Len(s) - 1 /\ Range(t) = {t[i] : i \in 1..Len(s) - 1}
    BY <2>4, <1>0, RangeIs
  <2>6. Injective(t)
    <3> SUFFICES ASSUME NEW i \in 1..Len(s) - 1, NEW j \in 1..Len(s) - 1, t[i] = t[j] PROVE i = j
      BY <2>5 DEF Injective
    <3> DEFINE m(n) == IF n < k THEN n ELSE n + 1
    <3>1. m(i) \in 1..Len(s) /\ m(j) \in 1..Len(s) /\ t[i] = s[m(i)] /\ t[j] = s[m(j)]
      BY <2>4, <2>1, <1>0
    <3>2. m(i) = m(j)
      BY <3>1, <1>0 DEF Injective
    <3> QED
      BY <3>2, <2>1, <1>0
  <2>7. Range(t) = Range(s) \ {e}
    <3>1. \A i \in 1..Len(s) - 1 : t[i] \in Range(s) /\ t[i] # e
      <4> SUFFICES ASSUME NEW i \in 1..Len(s) - 1 PROVE t[i] \in Range(s) /\ t[i] # e
        OBVIOUS
      <4> DEFINE m == IF i < k THEN i ELSE i + 1
      <4>1. m \in 1..Len(s) /\ t[i] = s[m] /\ m # k
        BY <2>4, <2>1, <1>0
      <4> QED
        BY <4>1, <2>1, <1>0 DEF Injective
    <3>2. \A i \in 1..Len(s) : s[i] = e \/ \E j \in 1..Len(s) - 1 : t[j] = s[i]
      <4> SUFFICES ASSUME NEW i \in 1..Len(s), s[i] # e PROVE \E j \in 1..Len(s) - 1 : t[j] = s[i]
        OBVIOUS
      <4>1. i # k
        BY <2>1
      <4>2. CASE i < k
        BY <4>2, <2>4, <2>1, <1>0
      <4>3. CASE i > k
        <5>1. i - 1 \in 1..Len(s) - 1 /\ ~(i - 1 < k) /\ (i - 1) + 1 = i
          BY <4>3, <2>1, <1>0
        <5>2. t[i - 1] = s[i]
          BY <5>1, <2>4
        <5> QED
          BY <5>1, <5>2
      <4> QED
        BY <4>1, <4>2, <4>3, <2>1, <1>0
    <3> QED
      BY <3>1, <3>2, <2>5, <1>0
  <2> QED
    BY <2>4, <2>6, <2>7 DEF t
<1> QED
  BY <1>1, <1>2

-----------------------------------------------------------------------------
(* Items and queues *)

AllNew(s) == \A i \in 1..Len(s) : s[i].state = "new"

LEMMA Constants ==
  /\ Lines \subseteq Seq(Commands) /\ Then \in Seq(Commands)
  /\ Hooks \in [Events -> Seq(Commands)]
  /\ Global \notin Clients /\ Attached \subseteq Clients
  BY CommandsAssumption DEF CommandsAssumption

LEMMA ItemsAreNew ==
  ASSUME NEW cmds \in Seq(Commands), NEW group \in Nat, NEW line \in Nat,
         NEW nohooks \in BOOLEAN
  PROVE  /\ Items(cmds, group, line, nohooks) \in Seq(ItemSet)
         /\ AllNew(Items(cmds, group, line, nohooks))
<1>1. \A i \in 1..Len(cmds) : cmds[i] \in Commands
  OBVIOUS
<1>2. DOMAIN cmds = 1..Len(cmds) /\ Len(cmds) \in Nat
  OBVIOUS
<1> DEFINE s == [i \in 1..Len(cmds) |-> Item(cmds[i], group, line, nohooks)]
<1>3. \A i \in 1..Len(cmds) : s[i] \in ItemSet /\ s[i].state = "new"
  BY <1>1 DEF Item, ItemSet
<1>4. s \in [1..Len(cmds) -> ItemSet]
  BY <1>3
<1>5. s \in Seq(ItemSet) /\ Len(s) = Len(cmds)
  BY <1>4, <1>2, SeqDef
<1>6. s = Items(cmds, group, line, nohooks)
  BY <1>2 DEF Items
<1> HIDE DEF s
<1> QED
  BY <1>3, <1>5, <1>6 DEF AllNew

LEMMA ConcatNew ==
  ASSUME NEW s \in Seq(ItemSet), NEW t \in Seq(ItemSet), AllNew(s), AllNew(t)
  PROVE  s \o t \in Seq(ItemSet) /\ AllNew(s \o t)
<1>1. /\ s \o t \in Seq(ItemSet) /\ Len(s \o t) = Len(s) + Len(t)
      /\ \A i \in 1..Len(s) + Len(t) : (s \o t)[i] =
           IF i <= Len(s) THEN s[i] ELSE t[i - Len(s)]
  BY ConcatProperties
<1>2. Len(s) \in Nat /\ Len(t) \in Nat
  OBVIOUS
<1>3. ASSUME NEW i \in 1..Len(s) + Len(t) PROVE (s \o t)[i].state = "new"
  <2>1. CASE i <= Len(s)
    BY <2>1, <1>1, <1>2 DEF AllNew
  <2>2. CASE ~(i <= Len(s))
    <3>1. i - Len(s) \in 1..Len(t)
      BY <2>2, <1>2
    <3> QED
      BY <3>1, <2>2, <1>1 DEF AllNew
  <2> QED
    BY <2>1, <2>2
<1> QED
  BY <1>1, <1>3 DEF AllNew

LEMMA TailNew ==
  ASSUME NEW q \in Queues, OnlyFirst(q), NEW o \in Owners, q[o] # <<>>
  PROVE  Tail(q[o]) \in Seq(ItemSet) /\ AllNew(Tail(q[o])) /\ Head(q[o]) \in ItemSet
<1>1. q[o] \in Seq(ItemSet)
  BY DEF Queues
<1>2. /\ Tail(q[o]) \in Seq(ItemSet) /\ Len(Tail(q[o])) = Len(q[o]) - 1
      /\ \A i \in 1..Len(q[o]) - 1 : Tail(q[o])[i] = q[o][i + 1]
      /\ Len(q[o]) \in Nat \ {0} /\ Head(q[o]) \in ItemSet
  BY <1>1, HeadTail
<1>3. ASSUME NEW i \in 1..Len(q[o]) - 1 PROVE Tail(q[o])[i].state = "new"
  <2>1. i + 1 \in 2..Len(q[o])
    BY <1>2
  <2> QED
    BY <2>1, <1>2 DEF OnlyFirst
<1> QED
  BY <1>2, <1>3 DEF AllNew

LEMMA OnlyFirstIs ==
  ASSUME NEW q \in Queues
  PROVE  OnlyFirst(q) <=> \A o \in Owners : q[o] = <<>> \/ AllNew(Tail(q[o]))
<1>1. ASSUME NEW o \in Owners, q[o] # <<>>
      PROVE  AllNew(Tail(q[o])) <=> \A i \in 2..Len(q[o]) : q[o][i].state = "new"
  <2>1. q[o] \in Seq(ItemSet)
    BY DEF Queues
  <2>2. /\ Len(Tail(q[o])) = Len(q[o]) - 1
        /\ \A i \in 1..Len(q[o]) - 1 : Tail(q[o])[i] = q[o][i + 1]
        /\ Len(q[o]) \in Nat \ {0}
    BY <2>1, <1>1, HeadTail
  <2>3. \A i \in 2..Len(q[o]) : i - 1 \in 1..Len(q[o]) - 1 /\ q[o][i] = Tail(q[o])[i - 1]
    <3> SUFFICES ASSUME NEW i \in 2..Len(q[o])
                 PROVE  i - 1 \in 1..Len(q[o]) - 1 /\ q[o][i] = Tail(q[o])[i - 1]
      OBVIOUS
    <3>1. i - 1 \in 1..Len(q[o]) - 1 /\ (i - 1) + 1 = i
      BY <2>2
    <3> QED
      BY <3>1, <2>2
  <2>4. \A i \in 1..Len(q[o]) - 1 : i + 1 \in 2..Len(q[o])
    BY <2>2
  <2>5. ASSUME AllNew(Tail(q[o])), NEW i \in 2..Len(q[o]) PROVE q[o][i].state = "new"
    BY <2>2, <2>3, <2>5 DEF AllNew
  <2>6. ASSUME \A i \in 2..Len(q[o]) : q[o][i].state = "new", NEW i \in 1..Len(q[o]) - 1
        PROVE  Tail(q[o])[i].state = "new"
    BY <2>2, <2>4, <2>6
  <2> QED
    BY <2>2, <2>5, <2>6 DEF AllNew
<1>2. ASSUME NEW o \in Owners, q[o] = <<>>
      PROVE  \A i \in 2..Len(q[o]) : q[o][i].state = "new"
  BY <1>2
<1> QED
  BY <1>1, <1>2 DEF OnlyFirst

LEMMA WokenIs ==
  ASSUME NEW q \in Queues, OnlyFirst(q), NEW who
  PROVE  /\ Woken(q, who) \in Queues /\ OnlyFirst(Woken(q, who))
         /\ \A w \in Owners :
              /\ w \notin who \/ q[w] = <<>> => Woken(q, who)[w] = q[w]
              /\ w \in who /\ q[w] # <<>> =>
                   /\ Woken(q, who)[w] # <<>>
                   /\ Head(Woken(q, who)[w]) = [Head(q[w]) EXCEPT !.state = "woken"]
                   /\ Tail(Woken(q, who)[w]) = Tail(q[w])
<1> DEFINE r == Woken(q, who)
<1>1. ASSUME NEW w \in Owners
      PROVE  /\ r[w] \in Seq(ItemSet)
             /\ w \notin who \/ q[w] = <<>> => r[w] = q[w]
             /\ w \in who /\ q[w] # <<>> =>
                  /\ r[w] # <<>>
                  /\ Head(r[w]) = [Head(q[w]) EXCEPT !.state = "woken"]
                  /\ Tail(r[w]) = Tail(q[w])
  <2>1. q[w] \in Seq(ItemSet)
    BY DEF Queues
  <2>2. CASE w \notin who \/ q[w] = <<>>
    BY <2>1, <2>2 DEF Woken
  <2>3. CASE w \in who /\ q[w] # <<>>
    <3> DEFINE x == [Head(q[w]) EXCEPT !.state = "woken"]
    <3>1. x \in ItemSet /\ Tail(q[w]) \in Seq(ItemSet)
      BY <2>3, TailNew DEF ItemSet
    <3>2. r[w] = <<x>> \o Tail(q[w])
      BY <2>3 DEF Woken
    <3> HIDE DEF x, r
    <3>3. r[w] \in Seq(ItemSet) /\ r[w] # <<>> /\ Head(r[w]) = x /\ Tail(r[w]) = Tail(q[w])
      BY <3>1, <3>2, ConsIs
    <3> QED
      BY <3>3, <2>3 DEF x
  <2> QED
    BY <2>2, <2>3
<1>2. r \in Queues
  <2>1. r = [o \in Owners |-> r[o]]
    BY DEF Woken
  <2> HIDE DEF r
  <2> QED
    BY <1>1, <2>1 DEF Queues
<1> HIDE DEF r
<1>3. OnlyFirst(r)
  BY <1>1, <1>2, OnlyFirstIs
<1> QED
  BY <1>1, <1>2, <1>3 DEF r

-----------------------------------------------------------------------------
(* What a step does to the queues: the queues of "who" may change beyond   *)
(* recognition, those of "woken" go on, the others stay.                   *)
Moves(who, woken) ==
  /\ queue' \in Queues /\ OnlyFirst(queue')
  /\ \A w \in Owners :
       /\ Waiting(w)' <=> Waiting(w) /\ w \notin woken
       /\ Waiting(w)' => First(w)'.cmd = First(w).cmd
       /\ w \notin who => /\ queue'[w] = <<>> <=> queue[w] = <<>>
                          /\ queue[w] # <<>> => First(w)'.cmd = First(w).cmd
       /\ w \notin who \cup woken => queue'[w] = queue[w]

LEMMA SetMoves ==
  ASSUME queue \in Queues, OnlyFirst(queue), NEW o \in Owners, ~Waiting(o),
         NEW items \in Seq(ItemSet), AllNew(items),
         NEW woken, \A w \in Owners : w \in woken => Waiting(w),
         queue' = Woken([queue EXCEPT ![o] = items], woken)
  PROVE  Moves({o}, woken)
<1> DEFINE q == [queue EXCEPT ![o] = items]
<1>1. q \in Queues /\ q[o] = items /\ \A w \in Owners : w # o => q[w] = queue[w]
  BY DEF Queues
<1>2. items # <<>> => AllNew(Tail(items)) /\ Head(items).state = "new"
  <2> SUFFICES ASSUME items # <<>> PROVE AllNew(Tail(items)) /\ Head(items).state = "new"
    OBVIOUS
  <2>1. /\ Head(items) = items[1] /\ Len(Tail(items)) = Len(items) - 1 /\ Len(items) \in Nat \ {0}
        /\ \A i \in 1..Len(items) - 1 : Tail(items)[i] = items[i + 1]
    BY HeadTail
  <2>2. \A i \in 1..Len(items) - 1 : i + 1 \in 1..Len(items)
    BY <2>1
  <2>3. 1 \in 1..Len(items)
    BY <2>1
  <2> QED
    BY <2>1, <2>2, <2>3 DEF AllNew
<1>3. OnlyFirst(q)
  BY <1>1, <1>2, OnlyFirstIs
<1> HIDE DEF q
<1>4. /\ queue' \in Queues /\ OnlyFirst(queue')
      /\ \A w \in Owners :
           /\ w \notin woken \/ q[w] = <<>> => queue'[w] = q[w]
           /\ w \in woken /\ q[w] # <<>> =>
                /\ queue'[w] # <<>>
                /\ Head(queue'[w]) = [Head(q[w]) EXCEPT !.state = "woken"]
  <2>1. queue' = Woken(q, woken)
    BY DEF q
  <2> DEFINE r == Woken(q, woken)
  <2>2. /\ r \in Queues /\ OnlyFirst(r)
        /\ \A w \in Owners :
             /\ w \notin woken \/ q[w] = <<>> => r[w] = q[w]
             /\ w \in woken /\ q[w] # <<>> =>
                  r[w] # <<>> /\ Head(r[w]) = [Head(q[w]) EXCEPT !.state = "woken"]
    <3>1. q \in Queues /\ OnlyFirst(q)
      BY <1>1, <1>3
    <3> HIDE DEF q
    <3> QED
      BY <3>1, WokenIs
  <2> QED
    BY <2>1, <2>2
<1>5. o \notin woken
  OBVIOUS
<1>6. ASSUME NEW w \in Owners, w # o
      PROVE  /\ Waiting(w)' <=> Waiting(w) /\ w \notin woken
             /\ queue'[w] = <<>> <=> queue[w] = <<>>
             /\ queue[w] # <<>> => First(w)'.cmd = First(w).cmd
             /\ w \notin woken => queue'[w] = queue[w]
  <2>1. CASE w \in woken
    <3>1. Waiting(w) /\ queue[w] # <<>> /\ q[w] = queue[w]
      BY <2>1, <1>6, <1>1 DEF Waiting
    <3>2. queue'[w] # <<>> /\ Head(queue'[w]) = [Head(queue[w]) EXCEPT !.state = "woken"]
      BY <2>1, <3>1, <1>4
    <3>3. Head(queue[w]) \in ItemSet
      BY <3>1, TailNew
    <3>4. Head(queue'[w]).state = "woken" /\ Head(queue'[w]).cmd = Head(queue[w]).cmd
      BY <3>2, <3>3 DEF ItemSet
    <3> QED
      BY <2>1, <3>1, <3>2, <3>4 DEF Waiting, First
  <2>2. CASE w \notin woken
    BY <2>2, <1>4, <1>1, <1>6 DEF Waiting, First
  <2> QED
    BY <2>1, <2>2
<1>7. ~Waiting(o)'
  BY <1>1, <1>2, <1>4, <1>5 DEF Waiting, First
<1>8. ~Waiting(o)
  OBVIOUS
<1>9. ASSUME NEW w \in Owners
      PROVE  /\ Waiting(w)' <=> Waiting(w) /\ w \notin woken
             /\ Waiting(w)' => First(w)'.cmd = First(w).cmd
             /\ w \notin {o} => /\ queue'[w] = <<>> <=> queue[w] = <<>>
                                /\ queue[w] # <<>> => First(w)'.cmd = First(w).cmd
             /\ w \notin {o} \cup woken => queue'[w] = queue[w]
  <2>1. CASE w = o
    BY <2>1, <1>7, <1>8
  <2>2. CASE w # o
    <3>1. Waiting(w)' => queue[w] # <<>>
      BY <2>2, <1>6 DEF Waiting
    <3> QED
      BY <2>2, <3>1, <1>6
  <2> QED
    BY <2>1, <2>2
<1> QED
  BY <1>4, <1>9 DEF Moves

LEMMA WokenFunction ==
  ASSUME NEW q, NEW who
  PROVE  Woken(q, who) = [w \in Owners |-> Woken(q, who)[w]]
  BY DEF Woken

LEMMA ReplaceMoves ==
  ASSUME queue \in Queues, OnlyFirst(queue), NEW o \in Owners, queue[o] # <<>>, ~Waiting(o),
         NEW items \in Seq(ItemSet), AllNew(items),
         NEW woken, \A w \in Owners : w \in woken => Waiting(w),
         queue' = Replace(Woken(queue, woken), o, items)
  PROVE  Moves({o}, woken)
<1> DEFINE r == Woken(queue, woken)
           t == items \o Tail(queue[o])
           q == [queue EXCEPT ![o] = t]
           u == Woken(q, woken)
<1>1. t \in Seq(ItemSet) /\ AllNew(t)
  BY TailNew, ConcatNew
<1>2. o \notin woken
  OBVIOUS
<1>3. q \in Queues /\ q[o] = t /\ \A w \in Owners : w # o => q[w] = queue[w]
  BY <1>1 DEF Queues
<1>4. r \in Queues /\ r[o] = queue[o]
  BY <1>2, WokenIs
<1>5. queue' = [r EXCEPT ![o] = t]
  BY <1>4 DEF Replace
<1>6. u[o] = t
  BY <1>2, <1>3 DEF Woken
<1>7. ASSUME NEW w \in Owners, w # o PROVE u[w] = r[w]
  BY <1>3, <1>7 DEF Woken
<1> HIDE DEF t, q
<1>8. u = [w \in Owners |-> u[w]] /\ r = [w \in Owners |-> r[w]]
  BY WokenFunction
<1> HIDE DEF r, u
<1>9. [r EXCEPT ![o] = t] = [w \in Owners |-> IF w = o THEN t ELSE r[w]]
  BY <1>8
<1>10. queue' = u
  BY <1>5, <1>6, <1>7, <1>8, <1>9
<1>11. queue' = Woken([queue EXCEPT ![o] = t], woken)
  BY <1>10 DEF u, q
<1> QED
  BY <1>1, <1>11, SetMoves

LEMMA FiresIs ==
  ASSUME TypeOK, NEW o \in Owners, NEW op, Fires(o, op)
  PROVE  /\ queue[o] # <<>> /\ ~Waiting(o) /\ First(o) \in ItemSet
         /\ First(o).cmd \in Commands /\ First(o).cmd.op = op
         /\ First(o).group \in Nat /\ First(o).line \in Nat /\ First(o).nohooks \in BOOLEAN
<1>1. queue[o] \in Seq(ItemSet) /\ queue[o] # <<>>
  BY DEF TypeOK, Fires
<1>2. First(o) \in ItemSet
  BY <1>1, HeadTail DEF First
<1> QED
  BY <1>1, <1>2 DEF ItemSet, Fires, Waiting

LEMMA QueueTypes ==
  ASSUME TypeOK
  PROVE  queue \in Queues
  BY DEF TypeOK, Queues

LEMMA NormalMoves ==
  ASSUME TypeOK, OnlyFirst(queue), NEW o \in Owners, queue[o] # <<>>, ~Waiting(o),
         NEW woken, \A w \in Owners : w \in woken => Waiting(w),
         Normal(o, woken)
  PROVE  Moves({o}, woken)
<1>1. <<>> \in Seq(ItemSet) /\ AllNew(<<>>)
  BY DEF AllNew
<1>2. queue' = Replace(Woken(queue, woken), o, <<>>)
  BY DEF Normal
<1> QED
  BY <1>1, <1>2, QueueTypes, ReplaceMoves

LEMMA HookItemsNew ==
  ASSUME NEW e \in Events, NEW item \in ItemSet
  PROVE  HookItems(e, item) \in Seq(ItemSet) /\ AllNew(HookItems(e, item))
<1>1. Hooks[e] \in Seq(Commands) /\ HookGroup[e] \in Nat /\ item.line \in Nat
  BY Constants DEF HookGroup, Events, ItemSet
<1> QED
  BY <1>1, ItemsAreNew DEF HookItems

LEMMA ErrorsMoves ==
  ASSUME TypeOK, OnlyFirst(queue), NEW o \in Owners, queue[o] # <<>>, ~Waiting(o),
         \A w \in Owners : w \in watching["error"] => Waiting(w),
         Errors(o)
  PROVE  \E woken \in SUBSET watching["error"] :
           Moves({o}, woken) /\ watching' = [watching EXCEPT !["error"] = @ \ woken]
<1> DEFINE all == IF ~First(o).nohooks THEN watching["error"] ELSE {}
           hook == IF ~First(o).nohooks THEN HookItems("error", First(o)) ELSE <<>>
<1>1. First(o) \in ItemSet /\ queue[o] \in Seq(ItemSet)
  BY QueueTypes, TailNew DEF First, Queues
<1>2. hook \in Seq(ItemSet) /\ AllNew(hook)
  <2>1. "error" \in Events
    BY DEF Events
  <2>2. HookItems("error", First(o)) \in Seq(ItemSet) /\ AllNew(HookItems("error", First(o)))
    BY <1>1, <2>1, HookItemsNew
  <2>3. <<>> \in Seq(ItemSet) /\ AllNew(<<>>)
    BY DEF AllNew
  <2> QED
    BY <2>2, <2>3
<1>3. PICK n \in 0..Len(queue[o]) : \E kept \in [1..n -> Others(o)] :
        LET q == [queue EXCEPT ![o] = hook \o [i \in 1..n |-> @[kept[i]]]]
        IN  \E seen \in SUBSET all :
              queue' = Woken(q, seen) /\ watching' = [watching EXCEPT !["error"] = @ \ seen]
  BY DEF Errors
<1>4. PICK kept \in [1..n -> Others(o)] :
        LET q == [queue EXCEPT ![o] = hook \o [i \in 1..n |-> queue[o][kept[i]]]]
        IN  \E seen \in SUBSET all :
              queue' = Woken(q, seen) /\ watching' = [watching EXCEPT !["error"] = @ \ seen]
  BY <1>3 DEF Queues, TypeOK
<1> DEFINE rest == [i \in 1..n |-> queue[o][kept[i]]]
<1>5. rest \in Seq(ItemSet) /\ AllNew(rest)
  <2>1. \A i \in 1..n : kept[i] \in 2..Len(queue[o])
    BY DEF Others
  <2>2. Len(queue[o]) \in Nat /\ n \in Nat
    BY <1>1
  <2>3. \A i \in 2..Len(queue[o]) : queue[o][i] \in ItemSet /\ queue[o][i].state = "new"
    BY <1>1 DEF OnlyFirst
  <2>4. rest \in [1..n -> ItemSet] /\ \A i \in 1..n : rest[i].state = "new"
    BY <2>1, <2>3
  <2>5. rest \in Seq(ItemSet) /\ Len(rest) = n
    BY <2>2, <2>4, SeqDef
  <2> HIDE DEF rest
  <2> QED
    BY <2>4, <2>5 DEF AllNew
<1> DEFINE items == hook \o rest
           q == [queue EXCEPT ![o] = items]
<1>6. items \in Seq(ItemSet) /\ AllNew(items)
  BY <1>2, <1>5, ConcatNew
<1>7. PICK woken \in SUBSET all :
        queue' = Woken(q, woken) /\ watching' = [watching EXCEPT !["error"] = @ \ woken]
  BY <1>4
<1>8. woken \in SUBSET watching["error"]
  BY <1>7
<1>9. \A w \in Owners : w \in woken => Waiting(w)
  BY <1>8
<1> HIDE DEF items
<1>10. Moves({o}, woken)
  BY <1>6, <1>7, <1>9, QueueTypes, SetMoves
<1> QED
  BY <1>7, <1>8, <1>10

\* A queue starts to wait.
Stops(o) ==
  /\ queue' \in Queues /\ OnlyFirst(queue')
  /\ Waiting(o)' /\ First(o)'.cmd = First(o).cmd
  /\ \A w \in Owners : w # o => queue'[w] = queue[w]

LEMMA WaitsStops ==
  ASSUME TypeOK, OnlyFirst(queue), NEW o \in Owners, queue[o] # <<>>, Waits(o)
  PROVE  Stops(o)
<1> DEFINE s == queue[o]
           x == [s[1] EXCEPT !.state = "waiting"]
           t == [s EXCEPT ![1] = x]
<1>1. s \in Seq(ItemSet) /\ Len(s) \in Nat \ {0} /\ s[1] \in ItemSet /\ Head(s) = s[1]
  BY HeadTail, QueueTypes DEF Queues
<1>2. queue' = [queue EXCEPT ![o] = t]
  BY DEF Waits
<1>3. x \in ItemSet /\ x.state = "waiting" /\ x.cmd = s[1].cmd
  BY <1>1 DEF ItemSet
<1>4. /\ t \in Seq(ItemSet) /\ Len(t) = Len(s) /\ t[1] = x
      /\ \A i \in 2..Len(s) : t[i] = s[i]
  BY <1>1, <1>3, ExceptSeq
<1> HIDE DEF t, x
<1>5. queue' \in Queues /\ queue'[o] = t /\ \A w \in Owners : w # o => queue'[w] = queue[w]
  BY <1>2, <1>4, QueueTypes DEF Queues
<1>6. t # <<>> /\ Head(t) = x
  BY <1>1, <1>4, HeadTail
<1>7. OnlyFirst(queue')
  BY <1>4, <1>5 DEF OnlyFirst
<1> QED
  BY <1>1, <1>3, <1>5, <1>6, <1>7 DEF Stops, Waiting, First

LEMMA AppendedQueue ==
  ASSUME NEW s \in Seq(ItemSet), s # <<>> => AllNew(Tail(s)),
         NEW t \in Seq(ItemSet), AllNew(t)
  PROVE  /\ s \o t \in Seq(ItemSet)
         /\ s \o t # <<>> => AllNew(Tail(s \o t))
         /\ s # <<>> => s \o t # <<>> /\ Head(s \o t) = Head(s)
         /\ s = <<>> /\ s \o t # <<>> => Head(s \o t).state = "new"
<1>1. CASE s = <<>>
  <2>1. s \o t = t
    BY <1>1
  <2>2. CASE t # <<>>
    <3>1. /\ Head(t) = t[1] /\ Len(Tail(t)) = Len(t) - 1 /\ Len(t) \in Nat \ {0}
          /\ \A i \in 1..Len(t) - 1 : Tail(t)[i] = t[i + 1]
      BY <2>2, HeadTail
    <3>2. 1 \in 1..Len(t) /\ \A i \in 1..Len(t) - 1 : i + 1 \in 1..Len(t)
      BY <3>1
    <3> QED
      BY <1>1, <2>1, <3>1, <3>2 DEF AllNew
  <2> QED
    BY <1>1, <2>1, <2>2
<1>2. CASE s # <<>>
  <2>1. Tail(s) \in Seq(ItemSet) /\ Head(s) \in ItemSet /\ s = <<Head(s)>> \o Tail(s)
    BY <1>2
  <2>2. Tail(s) \o t \in Seq(ItemSet) /\ AllNew(Tail(s) \o t)
    BY <1>2, <2>1, ConcatNew
  <2>3. s \o t = <<Head(s)>> \o (Tail(s) \o t)
    <3>1. <<Head(s)>> \in Seq(ItemSet)
      BY <2>1
    <3> QED
      BY <2>1, <3>1, ConcatAssociative
  <2>4. /\ s \o t \in Seq(ItemSet) /\ s \o t # <<>> /\ Head(s \o t) = Head(s)
        /\ Tail(s \o t) = Tail(s) \o t
    BY <2>1, <2>2, <2>3, ConsIs
  <2> QED
    BY <1>2, <2>2, <2>4
<1> QED
  BY <1>1, <1>2

LEMMA NextLineType ==
  ASSUME NEW s \in Seq(ItemSet)
  PROVE  NextLine(s) \in Nat
<1>1. CASE s # <<>>
  <2>1. Len(s) \in 1..Len(s) /\ s[Len(s)] \in ItemSet
    BY <1>1
  <2> QED
    BY <2>1 DEF NextLine, Last, ItemSet
<1> QED
  BY <1>1 DEF NextLine

LEMMA OneItem ==
  ASSUME NEW x \in ItemSet
  PROVE  /\ <<x>> \in Seq(ItemSet)
         /\ x.state = "new" => AllNew(<<x>>)
  BY DEF AllNew

LEMMA RequestMoves ==
  ASSUME TypeOK, OnlyFirst(queue), NEW c \in Clients, NEW cmds \in Lines, Request(c, cmds)
  PROVE  Moves({c}, {})
<1> DEFINE s == queue[c]
           line == NextLine(s)
           done == IF c \in Attached THEN <<>> ELSE <<Item(Done, NoGroup, line, FALSE)>>
           new == Items(cmds, line, line, FALSE) \o done
<1>1. c \in Owners /\ s \in Seq(ItemSet) /\ line \in Nat /\ cmds \in Seq(Commands)
  BY QueueTypes, NextLineType, Constants DEF Queues, Owners
<1>2. Items(cmds, line, line, FALSE) \in Seq(ItemSet) /\ AllNew(Items(cmds, line, line, FALSE))
  BY <1>1, ItemsAreNew
<1>3. done \in Seq(ItemSet) /\ AllNew(done)
  <2>1. Item(Done, NoGroup, line, FALSE) \in ItemSet
    BY <1>1 DEF Item, Done, NoGroup, ItemSet, Commands
  <2>2. Item(Done, NoGroup, line, FALSE).state = "new"
    BY DEF Item
  <2>3. <<>> \in Seq(ItemSet) /\ AllNew(<<>>)
    BY DEF AllNew
  <2> QED
    BY <2>1, <2>2, <2>3, OneItem
<1>4. new \in Seq(ItemSet) /\ AllNew(new)
  BY <1>2, <1>3, ConcatNew
<1>5. s # <<>> => AllNew(Tail(s))
  BY <1>1, QueueTypes, TailNew
<1>6. queue' = [queue EXCEPT ![c] = s \o Items(cmds, line, line, FALSE) \o done]
  BY DEF Request
<1>7. s \o Items(cmds, line, line, FALSE) \o done = s \o new
  <2> DEFINE typed == Items(cmds, line, line, FALSE)
  <2>1. s \in Seq(ItemSet) /\ typed \in Seq(ItemSet) /\ done \in Seq(ItemSet)
    BY <1>1, <1>2, <1>3
  <2> HIDE DEF typed, done, s
  <2>2. (s \o typed) \o done = s \o (typed \o done)
    BY <2>1, ConcatAssociative
  <2> QED
    BY <2>2 DEF typed
<1> DEFINE t == s \o new
<1>8. queue' = [queue EXCEPT ![c] = t]
  BY <1>6, <1>7
<1> HIDE DEF new, done, line
<1>9. /\ t \in Seq(ItemSet)
      /\ t # <<>> => AllNew(Tail(t))
      /\ s # <<>> => t # <<>> /\ Head(t) = Head(s)
      /\ s = <<>> /\ t # <<>> => Head(t).state = "new"
  BY <1>1, <1>4, <1>5, AppendedQueue
<1> HIDE DEF t
<1>10. queue' \in Queues /\ queue'[c] = t /\ \A w \in Owners : w # c => queue'[w] = queue[w]
  BY <1>8, <1>9, <1>1, QueueTypes DEF Queues
<1>11. OnlyFirst(queue')
  <2>1. \A w \in Owners : queue'[w] = <<>> \/ AllNew(Tail(queue'[w]))
    BY <1>9, <1>10, QueueTypes, OnlyFirstIs
  <2> QED
    BY <2>1, <1>10, OnlyFirstIs
<1>12. /\ Waiting(c)' <=> Waiting(c)
       /\ Waiting(c)' => First(c)'.cmd = First(c).cmd
  BY <1>9, <1>10 DEF Waiting, First
<1>13. ASSUME NEW w \in Owners, w # c
       PROVE  queue'[w] = queue[w] /\ (Waiting(w)' <=> Waiting(w)) /\ First(w)' = First(w)
  BY <1>10, <1>13 DEF Waiting, First
<1> QED
  BY <1>10, <1>11, <1>12, <1>13 DEF Moves

LEMMA JobMoves ==
  ASSUME TypeOK, OnlyFirst(queue), NEW o \in Owners, Waiting(o), NEW succeeded,
         JobDone(o, succeeded)
  PROVE  Moves({}, {o})
<1> DEFINE then == IF succeeded /\ First(o).cmd.op = "if"
                     THEN Items(Then, ThenGroup, First(o).line, First(o).nohooks)
                     ELSE <<>>
           t == <<Head(queue[o])>> \o then \o Tail(queue[o])
           q == [queue EXCEPT ![o] = t]
<1>1. queue[o] # <<>> /\ queue[o] \in Seq(ItemSet) /\ First(o) = Head(queue[o])
      /\ Head(queue[o]) \in ItemSet /\ Tail(queue[o]) \in Seq(ItemSet) /\ AllNew(Tail(queue[o]))
  BY QueueTypes, TailNew DEF Waiting, Queues, First
<1>2. then \in Seq(ItemSet) /\ AllNew(then)
  <2>1. Items(Then, ThenGroup, First(o).line, First(o).nohooks) \in Seq(ItemSet)
        /\ AllNew(Items(Then, ThenGroup, First(o).line, First(o).nohooks))
    <3>1. ThenGroup \in Nat /\ First(o).line \in Nat /\ First(o).nohooks \in BOOLEAN
      BY <1>1 DEF ThenGroup, ItemSet
    <3> QED
      BY <3>1, Constants, ItemsAreNew
  <2> QED
    BY <2>1 DEF AllNew
<1> HIDE DEF then
<1>3. then \o Tail(queue[o]) \in Seq(ItemSet) /\ AllNew(then \o Tail(queue[o]))
  BY <1>1, <1>2, ConcatNew
<1>4. t = <<Head(queue[o])>> \o (then \o Tail(queue[o]))
  <2> DEFINE front == <<Head(queue[o])>>
             rest == Tail(queue[o])
  <2>1. front \in Seq(ItemSet) /\ rest \in Seq(ItemSet)
    BY <1>1, OneItem
  <2> HIDE DEF front, rest
  <2>2. (front \o then) \o rest = front \o (then \o rest)
    BY <2>1, <1>2, ConcatAssociative
  <2> QED
    BY <2>2 DEF front, rest
<1>6. queue' = Woken(q, {o})
  BY DEF JobDone, then
<1> HIDE DEF t
<1>5. /\ t \in Seq(ItemSet) /\ t # <<>> /\ Head(t) = Head(queue[o])
      /\ AllNew(Tail(t))
  <2> DEFINE more == then \o Tail(queue[o])
             x == Head(queue[o])
  <2>1. more \in Seq(ItemSet) /\ AllNew(more) /\ x \in ItemSet /\ t = <<x>> \o more
    BY <1>1, <1>3, <1>4
  <2> HIDE DEF more, x
  <2>2. t \in Seq(ItemSet) /\ t # <<>> /\ Head(t) = x /\ Tail(t) = more
    BY <2>1, ConsIs
  <2> QED
    BY <2>1, <2>2 DEF x
<1>7. q \in Queues /\ q[o] = t /\ \A w \in Owners : w # o => q[w] = queue[w]
  BY <1>5, QueueTypes DEF Queues
<1> HIDE DEF q
<1>8. OnlyFirst(q)
  <2>1. \A w \in Owners : q[w] = <<>> \/ AllNew(Tail(q[w]))
    BY <1>5, <1>7, QueueTypes, OnlyFirstIs
  <2> QED
    BY <2>1, <1>7, OnlyFirstIs
<1>9. /\ queue' \in Queues /\ OnlyFirst(queue')
      /\ \A w \in Owners : w # o => queue'[w] = q[w]
      /\ queue'[o] # <<>> /\ Head(queue'[o]) = [Head(q[o]) EXCEPT !.state = "woken"]
  <2>1. \A who : /\ Woken(q, who) \in Queues /\ OnlyFirst(Woken(q, who))
                 /\ \A w \in Owners :
                      /\ w \notin who \/ q[w] = <<>> => Woken(q, who)[w] = q[w]
                      /\ w \in who /\ q[w] # <<>> =>
                           /\ Woken(q, who)[w] # <<>>
                           /\ Head(Woken(q, who)[w]) = [Head(q[w]) EXCEPT !.state = "woken"]
    BY <1>7, <1>8, WokenIs
  <2>2. o \in {o} /\ q[o] # <<>> /\ \A w : w # o => w \notin {o}
    BY <1>5, <1>7
  <2> QED
    BY <2>1, <2>2, <1>6
<1>10. Head(queue'[o]).state = "woken" /\ Head(queue'[o]).cmd = Head(queue[o]).cmd
  BY <1>1, <1>5, <1>7, <1>9 DEF ItemSet
<1>11. ASSUME NEW w \in Owners, w # o
       PROVE  queue'[w] = queue[w] /\ (Waiting(w)' <=> Waiting(w)) /\ First(w)' = First(w)
  BY <1>7, <1>9, <1>11 DEF Waiting, First
<1>12. /\ ~Waiting(o)' /\ queue'[o] # <<>> /\ queue[o] # <<>>
       /\ First(o)'.cmd = First(o).cmd
  BY <1>1, <1>9, <1>10 DEF Waiting, First
<1> QED
  BY <1>9, <1>11, <1>12 DEF Moves

-----------------------------------------------------------------------------
(* Lists of those that wait *)

\* Those that go on leave the lists, and nobody else does.
Unlisted(woken) ==
  /\ \A ch \in Channels, o \in Owners :
       /\ o \in channels'[ch].waiters <=> o \in channels[ch].waiters /\ o \notin woken
       /\ o \in Range(channels'[ch].lockers) <=>
            o \in Range(channels[ch].lockers) /\ o \notin woken
  /\ \A e \in Events, o \in Owners :
       o \in watching'[e] <=> o \in watching[e] /\ o \notin woken
  /\ \A o \in Owners : o \in jobs' <=> o \in jobs /\ o \notin woken

\* A queue that stops is put on the list of its first item.
ListedToo(o) ==
  /\ \A ch \in Channels, w \in Owners :
       /\ w \in channels'[ch].waiters <=>
            \/ w \in channels[ch].waiters
            \/ w = o /\ First(o).cmd = [op |-> "wait", ch |-> ch]
       /\ w \in Range(channels'[ch].lockers) <=>
            \/ w \in Range(channels[ch].lockers)
            \/ w = o /\ First(o).cmd = [op |-> "lock", ch |-> ch]
  /\ \A e \in Events, w \in Owners :
       w \in watching'[e] <=>
         \/ w \in watching[e]
         \/ w = o /\ First(o).cmd = [op |-> "event", on |-> e]
  /\ \A w \in Owners :
       w \in jobs' <=> \/ w \in jobs
                       \/ w = o /\ First(o).cmd.op \in {"job", "if"}

LEMMA ListsFollow ==
  ASSUME WaitersListed, NEW who, NEW woken, Moves(who, woken), Unlisted(woken)
  PROVE  WaitersListed'
<1>1. ASSUME NEW o \in Owners
      PROVE  /\ Waiting(o)' <=> Waiting(o) /\ o \notin woken
             /\ Waiting(o)' => First(o)'.cmd = First(o).cmd
  BY DEF Moves
<1>2. ASSUME NEW ch \in Channels, NEW o \in Owners
      PROVE  /\ o \in channels'[ch].waiters <=>
                  Waiting(o)' /\ First(o)'.cmd = [op |-> "wait", ch |-> ch]
             /\ o \in Range(channels'[ch].lockers) <=>
                  Waiting(o)' /\ First(o)'.cmd = [op |-> "lock", ch |-> ch]
  BY <1>1 DEF WaitersListed, Unlisted
<1>3. ASSUME NEW e \in Events, NEW o \in Owners
      PROVE  o \in watching'[e] <=>
               Waiting(o)' /\ First(o)'.cmd = [op |-> "event", on |-> e]
  BY <1>1 DEF WaitersListed, Unlisted
<1>4. ASSUME NEW o \in Owners
      PROVE  o \in jobs' <=> Waiting(o)' /\ First(o)'.cmd.op \in {"job", "if"}
  BY <1>1 DEF WaitersListed, Unlisted
<1> QED
  BY <1>2, <1>3, <1>4 DEF WaitersListed

LEMMA ListsGrow ==
  ASSUME WaitersListed, NEW o \in Owners, ~Waiting(o), Stops(o), ListedToo(o)
  PROVE  WaitersListed'
<1>1. ASSUME NEW w \in Owners
      PROVE  /\ w # o => (Waiting(w)' <=> Waiting(w)) /\ First(w)' = First(w)
             /\ w = o => Waiting(w)' /\ First(w)'.cmd = First(o).cmd /\ ~Waiting(w)
  BY DEF Stops, Waiting, First
<1>2. ASSUME NEW ch \in Channels, NEW w \in Owners
      PROVE  /\ w \in channels'[ch].waiters <=>
                  Waiting(w)' /\ First(w)'.cmd = [op |-> "wait", ch |-> ch]
             /\ w \in Range(channels'[ch].lockers) <=>
                  Waiting(w)' /\ First(w)'.cmd = [op |-> "lock", ch |-> ch]
  BY <1>1 DEF WaitersListed, ListedToo
<1>3. ASSUME NEW e \in Events, NEW w \in Owners
      PROVE  w \in watching'[e] <=>
               Waiting(w)' /\ First(w)'.cmd = [op |-> "event", on |-> e]
  BY <1>1 DEF WaitersListed, ListedToo
<1>4. ASSUME NEW w \in Owners
      PROVE  w \in jobs' <=> Waiting(w)' /\ First(w)'.cmd.op \in {"job", "if"}
  BY <1>1 DEF WaitersListed, ListedToo
<1> QED
  BY <1>2, <1>3, <1>4 DEF WaitersListed

\* Nobody is on two lists.
LEMMA OneList ==
  ASSUME WaitersListed, NEW o \in Owners
  PROVE  /\ \A ch \in Channels :
              /\ o \in channels[ch].waiters =>
                   Waiting(o) /\ First(o).cmd.op = "wait" /\ First(o).cmd.ch = ch
              /\ o \in Range(channels[ch].lockers) =>
                   Waiting(o) /\ First(o).cmd.op = "lock" /\ First(o).cmd.ch = ch
         /\ \A e \in Events : o \in watching[e] =>
              Waiting(o) /\ First(o).cmd.op = "event" /\ First(o).cmd.on = e
         /\ o \in jobs => Waiting(o) /\ First(o).cmd.op \in {"job", "if"}
<1> DEFINE cmd == First(o).cmd
<1>1. /\ \A ch \in Channels :
           /\ o \in channels[ch].waiters => Waiting(o) /\ cmd = [op |-> "wait", ch |-> ch]
           /\ o \in Range(channels[ch].lockers) =>
                Waiting(o) /\ cmd = [op |-> "lock", ch |-> ch]
      /\ \A e \in Events : o \in watching[e] => Waiting(o) /\ cmd = [op |-> "event", on |-> e]
      /\ o \in jobs => Waiting(o) /\ cmd.op \in {"job", "if"}
  BY DEF WaitersListed
<1> HIDE DEF cmd
<1>2. /\ \A ch \in Channels :
           /\ o \in channels[ch].waiters => Waiting(o) /\ cmd.op = "wait" /\ cmd.ch = ch
           /\ o \in Range(channels[ch].lockers) => Waiting(o) /\ cmd.op = "lock" /\ cmd.ch = ch
      /\ \A e \in Events : o \in watching[e] => Waiting(o) /\ cmd.op = "event" /\ cmd.on = e
      /\ o \in jobs => Waiting(o) /\ cmd.op \in {"job", "if"}
  BY <1>1
<1> QED
  BY <1>2 DEF cmd

LEMMA CommandIs ==
  ASSUME NEW cmd \in Commands
  PROVE  /\ cmd.op = "wait" => cmd.ch \in Channels /\ cmd = [op |-> "wait", ch |-> cmd.ch]
         /\ cmd.op = "lock" => cmd.ch \in Channels /\ cmd = [op |-> "lock", ch |-> cmd.ch]
         /\ cmd.op \in {"signal", "unlock", "wake"} => cmd.ch \in Channels
         /\ cmd.op = "event" => cmd.on \in Events /\ cmd = [op |-> "event", on |-> cmd.on]
         /\ cmd.op = "rouse" => cmd.on \in Events
  BY DEF Commands

-----------------------------------------------------------------------------
(* Channels *)

Good(w) ==
  /\ w \in [here : BOOLEAN, locked : BOOLEAN, woken : BOOLEAN,
            waiters : SUBSET Owners, lockers : Seq(Owners)]
  /\ Injective(w.lockers)
  /\ w.lockers # <<>> => w.locked
  /\ ~w.here => w = NoChannel

ChannelsGood ==
  /\ channels = [ch \in Channels |-> channels[ch]]
  /\ \A ch \in Channels : Good(channels[ch])

LEMMA NoChannelGood ==
  Good(NoChannel) /\ Range(NoChannel.lockers) = {} /\ NoChannel.waiters = {}
  BY DEF Good, NoChannel, Injective, Range

LEMMA AddedGood ==
  ASSUME NEW w, Good(w)
  PROVE  /\ Good(Added(w)) /\ Added(w).here /\ Added(w).waiters = w.waiters
         /\ Added(w).lockers = w.lockers /\ Added(w).locked = w.locked
         /\ Added(w).woken = w.woken
  BY DEF Good, Added

LEMMA RemovedGood ==
  ASSUME NEW w, Good(w)
  PROVE  /\ Good(Removed(w)) /\ Removed(w).waiters = w.waiters
         /\ Removed(w).lockers = w.lockers
         /\ Good(RemovedEmpty(w)) /\ RemovedEmpty(w).waiters = w.waiters
         /\ RemovedEmpty(w).lockers = w.lockers
<1>1. NoChannel.lockers = <<>> /\ NoChannel.waiters = {}
  BY DEF NoChannel
<1>2. w.lockers = <<>> \/ w.locked
  BY DEF Good
<1> QED
  BY <1>1, <1>2, NoChannelGood DEF Removed, RemovedEmpty

LEMMA OneChannel ==
  ASSUME ChannelsGood, NEW ch \in Channels, NEW w, Good(w),
         channels' = [channels EXCEPT ![ch] = w]
  PROVE  /\ ChannelsGood' /\ channels'[ch] = w
         /\ \A other \in Channels : other # ch => channels'[other] = channels[other]
  BY DEF ChannelsGood

-----------------------------------------------------------------------------
(* The inductive invariant.                                                *)

People ==
  /\ clients \in Seq(Clients) /\ Injective(clients)
  /\ exiting \subseteq Live /\ dead \subseteq Clients \ Live

Queued == queue \in Queues /\ OnlyFirst(queue)

Watched == watching \in [Events -> SUBSET Owners] /\ jobs \subseteq Owners

Counted == inside \in [Channels -> Nat] /\ forced \in [Channels -> BOOLEAN]

\* server_loop only visits queues of clients that are there.
Looping ==
  /\ turn \in Seq(Owners) /\ running \in BOOLEAN /\ ran \in BOOLEAN
  /\ Range(turn) \subseteq Live \cup {Global}
  /\ ~running => turn = <<>>

\* As long as a pass fired nothing, the queues it has visited have nothing to
\* run: no item of one of them was let go on since.
PassedIdle ==
  running /\ ~ran => \A o \in (Live \cup {Global}) \ Range(turn) : ~Ready(o)

IInv ==
  /\ People /\ Queued /\ ChannelsGood /\ Watched /\ Counted /\ Looping
  /\ PassedIdle /\ WaitersListed /\ DeadOnlyForJobs

LEMMA TypesHold ==
  ASSUME IInv
  PROVE  TypeOK /\ NoLockersLost
<1>1. channels \in [Channels ->
        [here : BOOLEAN, locked : BOOLEAN, woken : BOOLEAN,
         waiters : SUBSET Owners, lockers : Seq(Owners)]]
  BY DEF IInv, ChannelsGood, Good
<1>2. TypeOK
  BY <1>1 DEF IInv, TypeOK, People, Queued, Queues, Watched, Counted, Looping
<1>3. NoLockersLost
  BY DEF IInv, ChannelsGood, Good, NoLockersLost
<1> QED
  BY <1>2, <1>3

LEMMA InitHolds == Init => IInv
<1> SUFFICES ASSUME Init PROVE IInv
  OBVIOUS
<1> USE DEF Init
<1>1. People
  BY DEF People, Injective, Live, Range
<1>2. Queued
  BY DEF Queued, Queues, OnlyFirst
<1>3. ChannelsGood
  BY NoChannelGood DEF ChannelsGood
<1>4. Watched /\ Counted
  BY DEF Watched, Counted
<1>5. Looping /\ PassedIdle
  <2>1. turn \in Seq(Owners) /\ Range(turn) = {}
    BY DEF Range
  <2> QED
    BY <2>1 DEF Looping, PassedIdle
<1>6. WaitersListed
  BY NoChannelGood DEF WaitersListed, Waiting
<1>7. DeadOnlyForJobs
  BY DEF DeadOnlyForJobs
<1> QED
  BY <1>1, <1>2, <1>3, <1>4, <1>5, <1>6, <1>7 DEF IInv

LEMMA KeepPeople ==
  ASSUME People, UNCHANGED people
  PROVE  People' /\ Live' = Live /\ dead' = dead
  BY DEF People, people, Live

LEMMA AfterMoves ==
  ASSUME IInv, NEW who, NEW woken, Moves(who, woken), Unlisted(woken),
         dead' = dead, \A c \in dead : c \notin who
  PROVE  Queued' /\ WaitersListed' /\ DeadOnlyForJobs'
<1>1. WaitersListed'
  BY ListsFollow DEF IInv
<1>2. Queued'
  BY DEF Moves, Queued
<1>3. dead \subseteq Owners
  BY DEF IInv, People, Owners
<1>4. ASSUME NEW c \in dead
      PROVE  queue'[c] # <<>> /\ First(c)'.cmd.op \in {"job", "if"}
  <2>1. queue[c] # <<>> /\ First(c).cmd.op \in {"job", "if"}
    BY DEF IInv, DeadOnlyForJobs
  <2>2. c \in Owners /\ c \notin who
    BY <1>3
  <2> QED
    BY <2>1, <2>2 DEF Moves
<1>5. DeadOnlyForJobs'
  BY <1>4 DEF DeadOnlyForJobs
<1> QED
  BY <1>1, <1>2, <1>5

LEMMA AfterStops ==
  ASSUME IInv, NEW o \in Owners, ~Waiting(o), Stops(o), ListedToo(o),
         dead' = dead, o \notin dead
  PROVE  Queued' /\ WaitersListed' /\ DeadOnlyForJobs'
<1>1. WaitersListed'
  BY ListsGrow DEF IInv
<1>2. Queued'
  BY DEF Stops, Queued
<1>3. \A c \in dead : c \in Owners /\ c # o
  BY DEF IInv, People, Owners
<1>4. ASSUME NEW c \in dead
      PROVE  queue'[c] # <<>> /\ First(c)'.cmd.op \in {"job", "if"}
  <2>1. queue'[c] = queue[c]
    BY <1>3 DEF Stops
  <2>2. queue[c] # <<>> /\ First(c).cmd.op \in {"job", "if"}
    BY DEF IInv, DeadOnlyForJobs
  <2> QED
    BY <2>1, <2>2 DEF First
<1>5. DeadOnlyForJobs'
  BY <1>4 DEF DeadOnlyForJobs
<1> QED
  BY <1>1, <1>2, <1>5

LEMMA AtTurn ==
  ASSUME IInv, turn # <<>>
  PROVE  /\ Head(turn) \in Owners /\ Head(turn) \in Live \cup {Global}
         /\ Head(turn) \notin dead /\ running
         /\ Tail(turn) \in Seq(Owners) /\ Range(turn) = {Head(turn)} \cup Range(Tail(turn))
<1>1. turn \in Seq(Owners) /\ Range(turn) \subseteq Live \cup {Global} /\ running
  BY DEF IInv, Looping
<1>2. Head(turn) \in Owners /\ Tail(turn) \in Seq(Owners)
      /\ Range(turn) = {Head(turn)} \cup Range(Tail(turn))
  BY <1>1, RangeTail, HeadTail
<1>3. \A c \in dead : c \notin Live \cup {Global}
  BY Constants DEF IInv, People
<1> QED
  BY <1>1, <1>2, <1>3

LEMMA AfterRan ==
  ASSUME IInv, ran' = TRUE, UNCHANGED <<turn, running>>, Live' = Live
  PROVE  Looping' /\ PassedIdle'
  BY DEF IInv, Looping, PassedIdle

LEMMA AfterTurn ==
  ASSUME IInv, turn # <<>>, NEW first, first = Head(turn), turn' = Tail(turn),
         UNCHANGED <<running, ran>>, Live' = Live,
         ~Ready(first)', \A w \in Owners : w # first => queue'[w] = queue[w]
  PROVE  Looping' /\ PassedIdle'
<1>1. /\ Tail(turn) \in Seq(Owners) /\ Range(turn) = {first} \cup Range(Tail(turn))
      /\ running
  BY AtTurn
<1>2. Range(turn') \subseteq Range(turn) /\ turn' \in Seq(Owners)
  BY <1>1
<1>3. Looping'
  BY <1>1, <1>2 DEF IInv, Looping
<1>4. ASSUME ~ran, NEW o \in (Live \cup {Global}) \ Range(turn')
      PROVE  ~Ready(o)'
  <2>1. CASE o = first
    BY <2>1
  <2>2. CASE o # first
    <3>1. o \in (Live \cup {Global}) \ Range(turn)
      BY <2>2, <1>1, <1>4
    <3>2. ~Ready(o)
      BY <3>1, <1>1, <1>4 DEF IInv, PassedIdle
    <3>3. o \in Owners
      <4>1. clients \in Seq(Clients)
        BY DEF IInv, People
      <4>2. Live \subseteq Clients
        BY <4>1, RangeIs DEF Live
      <4> QED
        BY <3>1, <4>2 DEF Owners
    <3>4. queue'[o] = queue[o]
      BY <3>3, <2>2
    <3> QED
      BY <3>2, <3>4 DEF Ready, First
  <2> QED
    BY <2>1, <2>2
<1> QED
  BY <1>3, <1>4 DEF PassedIdle

LEMMA NobodyUnlisted ==
  ASSUME UNCHANGED <<channels, watching, jobs>>
  PROVE  Unlisted({})
  BY DEF Unlisted

\* A channel lets some of those that wait for it go on.
LEMMA ChannelUnlisted ==
  ASSUME IInv, NEW ch \in Channels, NEW w, Good(w), channels' = [channels EXCEPT ![ch] = w],
         NEW woken, woken \subseteq channels[ch].waiters \cup Range(channels[ch].lockers),
         w.waiters = channels[ch].waiters \ woken,
         Range(w.lockers) = Range(channels[ch].lockers) \ woken,
         UNCHANGED <<watching, jobs>>
  PROVE  /\ ChannelsGood' /\ Watched' /\ Unlisted(woken)
         /\ \A o \in Owners : o \in woken => Waiting(o)
<1>1. ChannelsGood' /\ channels'[ch] = w
      /\ \A other \in Channels : other # ch => channels'[other] = channels[other]
  BY OneChannel DEF IInv
<1>2. Watched'
  BY DEF IInv, Watched
<1>3. ASSUME NEW o \in Owners, o \in woken
      PROVE  /\ Waiting(o) /\ First(o).cmd.op \in {"wait", "lock"} /\ First(o).cmd.ch = ch
  BY <1>3, OneList DEF IInv
<1>4. ASSUME NEW other \in Channels, NEW o \in Owners
      PROVE  /\ o \in channels'[other].waiters <=> o \in channels[other].waiters /\ o \notin woken
             /\ o \in Range(channels'[other].lockers) <=>
                  o \in Range(channels[other].lockers) /\ o \notin woken
  <2>1. CASE other = ch
    BY <2>1, <1>1
  <2>2. CASE other # ch
    <3>1. channels'[other] = channels[other]
      BY <2>2, <1>1
    <3>2. o \in channels[other].waiters \/ o \in Range(channels[other].lockers) =>
            First(o).cmd.ch = other
      BY OneList DEF IInv
    <3> QED
      BY <3>1, <3>2, <2>2, <1>3
  <2> QED
    BY <2>1, <2>2
<1>5. ASSUME NEW o \in Owners
      PROVE  /\ \A e \in Events : o \in watching[e] => o \notin woken
             /\ o \in jobs => o \notin woken
  BY <1>3, OneList DEF IInv
<1>6. Unlisted(woken)
  BY <1>4, <1>5 DEF Unlisted
<1> QED
  BY <1>1, <1>2, <1>3, <1>6

-----------------------------------------------------------------------------
(* Every item that fires keeps the invariant.                              *)

LEMMA NormalStep ==
  ASSUME IInv, NEW o \in Owners, turn # <<>>, o = Head(turn), queue[o] # <<>>, ~Waiting(o),
         NEW woken, \A w \in Owners : w \in woken => Waiting(w),
         Normal(o, woken), Unlisted(woken), UNCHANGED <<clients, dead>>
  PROVE  Queued' /\ WaitersListed' /\ DeadOnlyForJobs' /\ Looping' /\ PassedIdle'
<1>1. Moves({o}, woken)
  BY TypesHold, NormalMoves DEF IInv, Queued
<1>2. o \notin dead
  BY AtTurn
<1>3. Queued' /\ WaitersListed' /\ DeadOnlyForJobs'
  BY <1>1, <1>2, AfterMoves
<1>4. Live' = Live
  BY DEF Live
<1> QED
  BY <1>3, <1>4, AfterRan DEF Normal

LEMMA WaitsStep ==
  ASSUME IInv, NEW o \in Owners, turn # <<>>, o = Head(turn), queue[o] # <<>>, ~Waiting(o),
         Waits(o), ListedToo(o), UNCHANGED <<clients, dead>>
  PROVE  Queued' /\ WaitersListed' /\ DeadOnlyForJobs' /\ Looping' /\ PassedIdle'
<1>1. Stops(o)
  BY TypesHold, WaitsStops DEF IInv, Queued
<1>2. o \notin dead
  BY AtTurn
<1>3. Queued' /\ WaitersListed' /\ DeadOnlyForJobs'
  BY <1>1, <1>2, AfterStops
<1>4. Live' = Live
  BY DEF Live
<1>5. ~Ready(o)'
  BY <1>1 DEF Stops, Waiting, Ready, First
<1> QED
  BY <1>1, <1>3, <1>4, <1>5, AfterTurn DEF Waits, Stops

LEMMA EnterCounted ==
  ASSUME Counted, NEW ch \in Channels
  PROVE  /\ Enter(inside, ch) \in [Channels -> Nat]
         /\ Leave(inside, ch) \in [Channels -> Nat]
  BY DEF Counted, Enter, Leave

LEMMA SignalStep ==
  ASSUME IInv, NEW o \in Owners, Signal(o)
  PROVE  IInv'
<1> DEFINE ch == First(o).cmd.ch
           w == Added(channels[ch])
           woken == channels[ch].waiters
           x == IF w.waiters = {} /\ ~w.woken THEN [w EXCEPT !.woken = TRUE]
                ELSE Removed([w EXCEPT !.waiters = {}])
<1>1. /\ turn # <<>> /\ o = Head(turn) /\ queue[o] # <<>> /\ ~Waiting(o)
      /\ First(o).cmd \in Commands /\ First(o).cmd.op = "signal"
  BY TypesHold, FiresIs DEF Signal, Fires
<1>2. ch \in Channels
  BY <1>1, CommandIs
<1>3. Good(channels[ch])
  BY <1>2 DEF IInv, ChannelsGood
<1>4. /\ Good(w) /\ w.here /\ w.waiters = woken /\ w.lockers = channels[ch].lockers
  BY <1>3, AddedGood
<1>5. channels' = [channels EXCEPT ![ch] = x] /\ Normal(o, woken)
  BY <1>4 DEF Signal
<1> HIDE DEF w
<1>6. Good([w EXCEPT !.woken = TRUE]) /\ Good([w EXCEPT !.waiters = {}])
  BY <1>4 DEF Good
<1>7. /\ [w EXCEPT !.waiters = {}].waiters = {} /\ [w EXCEPT !.waiters = {}].lockers = w.lockers
      /\ [w EXCEPT !.woken = TRUE].waiters = w.waiters
      /\ [w EXCEPT !.woken = TRUE].lockers = w.lockers
  BY <1>4 DEF Good
<1>8. Good(x) /\ x.waiters = {} /\ x.lockers = w.lockers
  BY <1>4, <1>6, <1>7, RemovedGood
<1>9. \A l \in Owners : l \in Range(channels[ch].lockers) => l \notin woken
  BY <1>2, OneList DEF IInv
<1>10. Range(channels[ch].lockers) \subseteq Owners
  BY <1>3, RangeIs DEF Good
<1>11. /\ woken \subseteq channels[ch].waiters \cup Range(channels[ch].lockers)
       /\ x.waiters = channels[ch].waiters \ woken
       /\ Range(x.lockers) = Range(channels[ch].lockers) \ woken
  BY <1>4, <1>8, <1>9, <1>10
<1>12. UNCHANGED people /\ UNCHANGED <<watching, jobs>> /\ UNCHANGED history
  BY DEF Signal
<1> HIDE DEF x, woken
<1>13. /\ ChannelsGood' /\ Watched' /\ Unlisted(woken)
       /\ \A l \in Owners : l \in woken => Waiting(l)
  BY <1>2, <1>5, <1>8, <1>11, <1>12, ChannelUnlisted
<1>14. Queued' /\ WaitersListed' /\ DeadOnlyForJobs' /\ Looping' /\ PassedIdle'
  BY <1>1, <1>5, <1>12, <1>13, NormalStep DEF people
<1>15. People' /\ Counted'
  BY <1>12, KeepPeople DEF IInv, Counted, history
<1> QED
  BY <1>13, <1>14, <1>15 DEF IInv

\* A queue starts to wait for a channel.
LEMMA ChannelListed ==
  ASSUME IInv, NEW o \in Owners, NEW ch \in Channels, NEW w, Good(w),
         channels' = [channels EXCEPT ![ch] = w],
         \/ /\ First(o).cmd = [op |-> "wait", ch |-> ch]
            /\ w.waiters = channels[ch].waiters \cup {o}
            /\ w.lockers = channels[ch].lockers
         \/ /\ First(o).cmd = [op |-> "lock", ch |-> ch]
            /\ w.waiters = channels[ch].waiters
            /\ Range(w.lockers) = Range(channels[ch].lockers) \cup {o},
         UNCHANGED <<watching, jobs>>
  PROVE  ChannelsGood' /\ Watched' /\ ListedToo(o)
<1> DEFINE cmd == First(o).cmd
<1>1. ChannelsGood' /\ channels'[ch] = w
      /\ \A other \in Channels : other # ch => channels'[other] = channels[other]
  BY OneChannel DEF IInv
<1>2. Watched'
  BY DEF IInv, Watched
<1>3. CASE /\ cmd = [op |-> "wait", ch |-> ch]
           /\ w.waiters = channels[ch].waiters \cup {o}
           /\ w.lockers = channels[ch].lockers
  <2>1. /\ \A other : cmd = [op |-> "wait", ch |-> other] <=> other = ch
        /\ \A other : cmd # [op |-> "lock", ch |-> other]
        /\ \A e : cmd # [op |-> "event", on |-> e]
        /\ cmd.op \notin {"job", "if"}
    <3> HIDE DEF cmd
    <3>1. /\ \A other : cmd = [op |-> "wait", ch |-> other] => cmd.ch = other
          /\ \A other : cmd = [op |-> "lock", ch |-> other] => cmd.op = "lock"
          /\ \A e : cmd = [op |-> "event", on |-> e] => cmd.op = "event"
      OBVIOUS
    <3>2. cmd.op = "wait" /\ cmd.ch = ch /\ cmd = [op |-> "wait", ch |-> ch]
      BY <1>3
    <3> QED
      BY <3>1, <3>2
  <2>2. ASSUME NEW other \in Channels, NEW v \in Owners
        PROVE  /\ v \in channels'[other].waiters <=>
                    \/ v \in channels[other].waiters
                    \/ v = o /\ cmd = [op |-> "wait", ch |-> other]
               /\ v \in Range(channels'[other].lockers) <=>
                    \/ v \in Range(channels[other].lockers)
                    \/ v = o /\ cmd = [op |-> "lock", ch |-> other]
    <3> HIDE DEF cmd
    <3>1. CASE other = ch
      BY <1>1, <1>3, <2>1, <3>1
    <3>2. CASE other # ch
      BY <1>1, <2>1, <3>2
    <3> QED
      BY <3>1, <3>2
  <2> QED
    BY <1>1, <1>2, <2>1, <2>2 DEF ListedToo
<1>4. CASE /\ cmd = [op |-> "lock", ch |-> ch]
           /\ w.waiters = channels[ch].waiters
           /\ Range(w.lockers) = Range(channels[ch].lockers) \cup {o}
  <2>1. /\ \A other : cmd = [op |-> "lock", ch |-> other] <=> other = ch
        /\ \A other : cmd # [op |-> "wait", ch |-> other]
        /\ \A e : cmd # [op |-> "event", on |-> e]
        /\ cmd.op \notin {"job", "if"}
    <3> HIDE DEF cmd
    <3>1. /\ \A other : cmd = [op |-> "wait", ch |-> other] => cmd.op = "wait"
          /\ \A other : cmd = [op |-> "lock", ch |-> other] => cmd.ch = other
          /\ \A e : cmd = [op |-> "event", on |-> e] => cmd.op = "event"
      OBVIOUS
    <3>2. cmd.op = "lock" /\ cmd.ch = ch /\ cmd = [op |-> "lock", ch |-> ch]
      BY <1>4
    <3> QED
      BY <3>1, <3>2
  <2>2. ASSUME NEW other \in Channels, NEW v \in Owners
        PROVE  /\ v \in channels'[other].waiters <=>
                    \/ v \in channels[other].waiters
                    \/ v = o /\ cmd = [op |-> "wait", ch |-> other]
               /\ v \in Range(channels'[other].lockers) <=>
                    \/ v \in Range(channels[other].lockers)
                    \/ v = o /\ cmd = [op |-> "lock", ch |-> other]
    <3> HIDE DEF cmd
    <3>1. CASE other = ch
      BY <1>1, <1>4, <2>1, <3>1
    <3>2. CASE other # ch
      BY <1>1, <2>1, <3>2
    <3> QED
      BY <3>1, <3>2
  <2> QED
    BY <1>1, <1>2, <2>1, <2>2 DEF ListedToo
<1> QED
  BY <1>3, <1>4

LEMMA WaitStep ==
  ASSUME IInv, NEW o \in Owners, Wait(o)
  PROVE  IInv'
<1> DEFINE ch == First(o).cmd.ch
           w == Added(channels[ch])
<1>1. /\ turn # <<>> /\ o = Head(turn) /\ queue[o] # <<>> /\ ~Waiting(o)
      /\ First(o).cmd \in Commands /\ First(o).cmd.op = "wait"
  BY TypesHold, FiresIs DEF Wait, Fires
<1>2. ch \in Channels /\ First(o).cmd = [op |-> "wait", ch |-> ch]
  BY <1>1, CommandIs
<1>3. Good(channels[ch])
  BY <1>2 DEF IInv, ChannelsGood
<1>4. /\ Good(w) /\ w.here /\ w.waiters = channels[ch].waiters
      /\ w.lockers = channels[ch].lockers
  BY <1>3, AddedGood
<1>5. UNCHANGED people /\ UNCHANGED <<watching, jobs>> /\ UNCHANGED history
  BY DEF Wait
<1>6. People' /\ Counted'
  BY <1>5, KeepPeople DEF IInv, Counted, history
<1>7. CASE w.woken
  <2>1. channels' = [channels EXCEPT ![ch] = Removed(w)] /\ Normal(o, {})
    BY <1>7 DEF Wait
  <2> HIDE DEF w
  <2>2. /\ Good(Removed(w)) /\ Removed(w).waiters = channels[ch].waiters \ {}
        /\ Range(Removed(w).lockers) = Range(channels[ch].lockers) \ {}
    BY <1>4, RemovedGood
  <2>3. ChannelsGood' /\ Watched' /\ Unlisted({})
    BY <1>2, <1>5, <2>1, <2>2, ChannelUnlisted
  <2>4. Queued' /\ WaitersListed' /\ DeadOnlyForJobs' /\ Looping' /\ PassedIdle'
    BY <1>1, <1>5, <2>1, <2>3, NormalStep DEF people
  <2> QED
    BY <1>6, <2>3, <2>4 DEF IInv
<1>8. CASE ~w.woken
  <2> DEFINE x == [w EXCEPT !.waiters = @ \cup {o}]
  <2>1. channels' = [channels EXCEPT ![ch] = x] /\ Waits(o)
    BY <1>8 DEF Wait
  <2> HIDE DEF w
  <2>2. Good(x) /\ x.waiters = channels[ch].waiters \cup {o} /\ x.lockers = channels[ch].lockers
    BY <1>4 DEF Good
  <2> HIDE DEF x
  <2>3. ChannelsGood' /\ Watched' /\ ListedToo(o)
    BY <1>2, <1>5, <2>1, <2>2, ChannelListed
  <2>4. Queued' /\ WaitersListed' /\ DeadOnlyForJobs' /\ Looping' /\ PassedIdle'
    BY <1>1, <1>5, <2>1, <2>3, WaitsStep DEF people
  <2> QED
    BY <1>6, <2>3, <2>4 DEF IInv
<1> QED
  BY <1>7, <1>8

LEMMA LockStep ==
  ASSUME IInv, NEW o \in Owners, Lock(o)
  PROVE  IInv'
<1> DEFINE ch == First(o).cmd.ch
           w == Added(channels[ch])
<1>1. /\ turn # <<>> /\ o = Head(turn) /\ queue[o] # <<>> /\ ~Waiting(o)
      /\ First(o).cmd \in Commands /\ First(o).cmd.op = "lock"
  BY TypesHold, FiresIs DEF Lock, Fires
<1>2. ch \in Channels /\ First(o).cmd = [op |-> "lock", ch |-> ch]
  BY <1>1, CommandIs
<1>3. Good(channels[ch])
  BY <1>2 DEF IInv, ChannelsGood
<1>4. /\ Good(w) /\ w.here /\ w.waiters = channels[ch].waiters
      /\ w.lockers = channels[ch].lockers
  BY <1>3, AddedGood
<1>5. UNCHANGED people /\ UNCHANGED <<watching, jobs>> /\ UNCHANGED forced
  BY DEF Lock
<1>6. People'
  BY <1>5, KeepPeople DEF IInv
<1>7. Counted'
  BY <1>2, EnterCounted DEF Lock, IInv, Counted
<1>8. CASE ~w.locked
  <2> DEFINE x == [w EXCEPT !.locked = TRUE]
  <2>1. channels' = [channels EXCEPT ![ch] = x] /\ Normal(o, {})
    BY <1>8 DEF Lock
  <2> HIDE DEF w
  <2>2. /\ Good(x) /\ x.waiters = channels[ch].waiters \ {}
        /\ Range(x.lockers) = Range(channels[ch].lockers) \ {}
    BY <1>4 DEF Good
  <2> HIDE DEF x
  <2>3. ChannelsGood' /\ Watched' /\ Unlisted({})
    BY <1>2, <1>5, <2>1, <2>2, ChannelUnlisted
  <2>4. Queued' /\ WaitersListed' /\ DeadOnlyForJobs' /\ Looping' /\ PassedIdle'
    BY <1>1, <1>5, <2>1, <2>3, NormalStep DEF people
  <2> QED
    BY <1>6, <1>7, <2>3, <2>4 DEF IInv
<1>9. CASE w.locked
  <2> DEFINE x == [w EXCEPT !.lockers = Append(@, o)]
  <2>1. channels' = [channels EXCEPT ![ch] = x] /\ Waits(o)
    BY <1>9 DEF Lock
  <2> HIDE DEF w
  <2>2. o \notin Range(w.lockers)
    BY <1>1, <1>2, <1>4, OneList DEF IInv
  <2>3. w.lockers \in Seq(Owners) /\ Injective(w.lockers)
    BY <1>4 DEF Good
  <2>4. /\ Append(w.lockers, o) \in Seq(Owners) /\ Injective(Append(w.lockers, o))
        /\ Range(Append(w.lockers, o)) = Range(w.lockers) \cup {o}
    BY <2>2, <2>3, RangeAppend, InjectiveAppend
  <2>5. x.lockers = Append(w.lockers, o) /\ x.waiters = w.waiters /\ x.locked /\ x.here
    BY <1>4, <1>9 DEF Good
  <2>6. Good(x)
    BY <1>4, <2>4, <2>5 DEF Good
  <2> HIDE DEF x
  <2>7. ChannelsGood' /\ Watched' /\ ListedToo(o)
    BY <1>2, <1>4, <1>5, <2>1, <2>4, <2>5, <2>6, ChannelListed
  <2>8. Queued' /\ WaitersListed' /\ DeadOnlyForJobs' /\ Looping' /\ PassedIdle'
    BY <1>1, <1>5, <2>1, <2>7, WaitsStep DEF people
  <2> QED
    BY <1>6, <1>7, <2>7, <2>8 DEF IInv
<1> QED
  BY <1>8, <1>9

LEMMA UnlockStep ==
  ASSUME IInv, NEW o \in Owners, Unlock(o)
  PROVE  IInv'
<1> DEFINE ch == First(o).cmd.ch
           w == channels[ch]
<1>1. /\ turn # <<>> /\ o = Head(turn) /\ queue[o] # <<>> /\ ~Waiting(o)
      /\ First(o).cmd \in Commands /\ First(o).cmd.op = "unlock"
  BY TypesHold, FiresIs DEF Unlock, Fires
<1>2. ch \in Channels
  BY <1>1, CommandIs
<1>3. Good(w) /\ w.locked /\ w.here
  BY <1>2 DEF IInv, ChannelsGood, Unlock, Good, NoChannel
<1>4. UNCHANGED people /\ UNCHANGED <<watching, jobs>> /\ UNCHANGED forced
  BY DEF Unlock
<1>5. People'
  BY <1>4, KeepPeople DEF IInv
<1>6. Counted'
  BY <1>2, EnterCounted DEF Unlock, IInv, Counted
<1>7. CASE w.lockers # <<>>
  <2> DEFINE x == [w EXCEPT !.lockers = Tail(@)]
             woken == {Head(w.lockers)}
  <2>1. channels' = [channels EXCEPT ![ch].lockers = Tail(@)] /\ Normal(o, woken)
    BY <1>7 DEF Unlock
  <2>2. channels' = [channels EXCEPT ![ch] = x]
    BY <2>1
  <2> HIDE DEF w
  <2>3. w.lockers \in Seq(Owners) /\ Injective(w.lockers)
    BY <1>3 DEF Good
  <2>4. /\ Tail(w.lockers) \in Seq(Owners) /\ Injective(Tail(w.lockers))
        /\ Range(w.lockers) = {Head(w.lockers)} \cup Range(Tail(w.lockers))
        /\ Head(w.lockers) \notin Range(Tail(w.lockers)) /\ Head(w.lockers) \in Owners
    BY <1>7, <2>3, InjectiveTail, RangeTail, HeadTail
  <2>5. x.lockers = Tail(w.lockers) /\ x.waiters = w.waiters /\ x.locked /\ x.here
    BY <1>3 DEF Good
  <2>6. Good(x)
    BY <1>3, <2>4, <2>5 DEF Good
  <2>7. Head(w.lockers) \notin channels[ch].waiters
    BY <1>2, <2>4, OneList DEF IInv, w
  <2>8. /\ woken \subseteq channels[ch].waiters \cup Range(channels[ch].lockers)
        /\ x.waiters = channels[ch].waiters \ woken
        /\ Range(x.lockers) = Range(channels[ch].lockers) \ woken
    BY <2>4, <2>5, <2>7 DEF w
  <2> HIDE DEF x, woken
  <2>9. /\ ChannelsGood' /\ Watched' /\ Unlisted(woken)
        /\ \A l \in Owners : l \in woken => Waiting(l)
    BY <1>2, <1>4, <2>2, <2>6, <2>8, ChannelUnlisted
  <2>10. Queued' /\ WaitersListed' /\ DeadOnlyForJobs' /\ Looping' /\ PassedIdle'
    BY <1>1, <1>4, <2>1, <2>9, NormalStep DEF people
  <2> QED
    BY <1>5, <1>6, <2>9, <2>10 DEF IInv
<1>8. CASE w.lockers = <<>>
  <2> DEFINE y == [w EXCEPT !.locked = FALSE]
  <2>1. channels' = [channels EXCEPT ![ch] = Removed(y)] /\ Normal(o, {})
    BY <1>8 DEF Unlock
  <2>2. Good(y) /\ y.waiters = w.waiters /\ y.lockers = w.lockers
    BY <1>3, <1>8 DEF Good
  <2> HIDE DEF y
  <2>3. /\ Good(Removed(y)) /\ Removed(y).waiters = channels[ch].waiters \ {}
        /\ Range(Removed(y).lockers) = Range(channels[ch].lockers) \ {}
    BY <2>2, RemovedGood
  <2>4. ChannelsGood' /\ Watched' /\ Unlisted({})
    BY <1>2, <1>4, <2>1, <2>3, ChannelUnlisted
  <2>5. Queued' /\ WaitersListed' /\ DeadOnlyForJobs' /\ Looping' /\ PassedIdle'
    BY <1>1, <1>4, <2>1, <2>4, NormalStep DEF people
  <2> QED
    BY <1>5, <1>6, <2>4, <2>5 DEF IInv
<1> QED
  BY <1>7, <1>8

LEMMA WakeStep ==
  ASSUME IInv, NEW o \in Owners, Wake(o)
  PROVE  IInv'
<1> DEFINE ch == First(o).cmd.ch
           who == First(o).cmd.who
           w == channels[ch]
<1>1. /\ turn # <<>> /\ o = Head(turn) /\ queue[o] # <<>> /\ ~Waiting(o)
      /\ First(o).cmd \in Commands /\ First(o).cmd.op = "wake"
  BY TypesHold, FiresIs DEF Wake, Fires
<1>2. ch \in Channels
  BY <1>1, CommandIs
<1>3. Good(w)
  BY <1>2 DEF IInv, ChannelsGood
<1>4. UNCHANGED people /\ UNCHANGED <<watching, jobs>>
  BY DEF Wake
<1>5. People'
  BY <1>4, KeepPeople DEF IInv
<1>6. w.waiters \subseteq Owners /\ w.lockers \in Seq(Owners) /\ Injective(w.lockers)
  BY <1>3 DEF Good
<1>7. CASE who \in w.waiters
  <2> DEFINE y == [w EXCEPT !.waiters = @ \ {who}]
  <2>1. channels' = [channels EXCEPT ![ch] = RemovedEmpty(y)] /\ Normal(o, {who})
        /\ UNCHANGED history
    BY <1>7 DEF Wake
  <2>2. Good(y) /\ y.waiters = w.waiters \ {who} /\ y.lockers = w.lockers
    BY <1>3, <1>7 DEF Good, NoChannel
  <2>3. who \notin Range(w.lockers)
    BY <1>2, <1>6, <1>7, OneList DEF IInv
  <2> HIDE DEF y
  <2>4. /\ Good(RemovedEmpty(y)) /\ RemovedEmpty(y).waiters = channels[ch].waiters \ {who}
        /\ Range(RemovedEmpty(y).lockers) = Range(channels[ch].lockers) \ {who}
    BY <2>2, <2>3, RemovedGood
  <2>5. {who} \subseteq channels[ch].waiters \cup Range(channels[ch].lockers)
    BY <1>7
  <2> HIDE DEF who, w
  <2>6. /\ ChannelsGood' /\ Watched' /\ Unlisted({who})
        /\ \A l \in Owners : l \in {who} => Waiting(l)
    BY <1>2, <1>4, <2>1, <2>4, <2>5, ChannelUnlisted
  <2>7. Queued' /\ WaitersListed' /\ DeadOnlyForJobs' /\ Looping' /\ PassedIdle'
    BY <1>1, <1>4, <2>1, <2>6, NormalStep DEF people
  <2>8. Counted'
    BY <2>1 DEF IInv, Counted, history
  <2> QED
    BY <1>5, <2>6, <2>7, <2>8 DEF IInv
<1>8. CASE who \notin w.waiters /\ who \in Range(w.lockers)
  <2> DEFINE y == [w EXCEPT !.lockers = Without(@, who)]
  <2>1. channels' = [channels EXCEPT ![ch] = RemovedEmpty(y)] /\ Normal(o, {who})
        /\ forced' = [forced EXCEPT ![ch] = TRUE] /\ inside' = [inside EXCEPT ![ch] = 0]
    BY <1>8 DEF Wake
  <2>2. /\ Without(w.lockers, who) \in Seq(Owners) /\ Injective(Without(w.lockers, who))
        /\ Range(Without(w.lockers, who)) = Range(w.lockers) \ {who}
    BY <1>6, WithoutIs
  <2>3. w.lockers # <<>> /\ w.locked /\ w.here
    <3>1. w.lockers # <<>>
      BY <1>8 DEF Range
    <3> QED
      BY <3>1, <1>3, NoChannelGood DEF Good, NoChannel
  <2>4. /\ y.waiters = w.waiters /\ y.lockers = Without(w.lockers, who) /\ y.locked /\ y.here
    BY <1>3, <2>3 DEF Good
  <2>5. Good(y)
    BY <1>3, <2>2, <2>4 DEF Good
  <2> HIDE DEF y
  <2>6. /\ Good(RemovedEmpty(y)) /\ RemovedEmpty(y).waiters = channels[ch].waiters \ {who}
        /\ Range(RemovedEmpty(y).lockers) = Range(channels[ch].lockers) \ {who}
    BY <1>8, <2>2, <2>4, <2>5, RemovedGood
  <2>7. {who} \subseteq channels[ch].waiters \cup Range(channels[ch].lockers)
    BY <1>8
  <2> HIDE DEF who, w
  <2>8. /\ ChannelsGood' /\ Watched' /\ Unlisted({who})
        /\ \A l \in Owners : l \in {who} => Waiting(l)
    BY <1>2, <1>4, <2>1, <2>6, <2>7, ChannelUnlisted
  <2>9. Queued' /\ WaitersListed' /\ DeadOnlyForJobs' /\ Looping' /\ PassedIdle'
    BY <1>1, <1>4, <2>1, <2>8, NormalStep DEF people
  <2>10. Counted'
    BY <2>1 DEF IInv, Counted
  <2> QED
    BY <1>5, <2>8, <2>9, <2>10 DEF IInv
<1>9. CASE who \notin w.waiters /\ who \notin Range(w.lockers)
  <2>1. Normal(o, {}) /\ UNCHANGED <<channels, history>>
    BY <1>9 DEF Wake
  <2>2. Unlisted({})
    BY <2>1, <1>4, NobodyUnlisted
  <2>3. Queued' /\ WaitersListed' /\ DeadOnlyForJobs' /\ Looping' /\ PassedIdle'
    BY <1>1, <1>4, <2>1, <2>2, NormalStep DEF people
  <2>4. Counted' /\ Watched' /\ ChannelsGood'
    BY <1>4, <2>1 DEF IInv, Counted, Watched, ChannelsGood, history
  <2> QED
    BY <1>5, <2>3, <2>4 DEF IInv
<1> QED
  BY <1>7, <1>8, <1>9

\* Some of those that wait for an event go on.
LEMMA EventUnlisted ==
  ASSUME IInv, NEW e \in Events, NEW woken \in SUBSET watching[e],
         watching' = [watching EXCEPT ![e] = @ \ woken],
         UNCHANGED <<channels, jobs>>
  PROVE  /\ Watched' /\ ChannelsGood' /\ Unlisted(woken)
         /\ \A o \in Owners : o \in woken => Waiting(o)
<1>1. watching \in [Events -> SUBSET Owners]
  BY DEF IInv, Watched
<1>2. Watched' /\ ChannelsGood'
  BY <1>1 DEF IInv, Watched, ChannelsGood
<1>3. ASSUME NEW o \in Owners, o \in watching[e]
      PROVE  Waiting(o) /\ First(o).cmd.op = "event" /\ First(o).cmd.on = e
  BY <1>3, OneList DEF IInv
<1>4. ASSUME NEW o \in Owners
      PROVE  /\ \A ch \in Channels : /\ o \in channels[ch].waiters => o \notin watching[e]
                                     /\ o \in Range(channels[ch].lockers) => o \notin watching[e]
             /\ o \in jobs => o \notin watching[e]
             /\ \A other \in Events : other # e /\ o \in watching[other] => o \notin watching[e]
  BY <1>3, OneList DEF IInv
<1>5. \A other \in Events : watching'[other] = IF other = e THEN watching[e] \ woken ELSE watching[other]
  BY <1>1
<1>6. Unlisted(woken)
  <2>1. \A ch \in Channels, o \in Owners :
          /\ o \in channels'[ch].waiters <=> o \in channels[ch].waiters /\ o \notin woken
          /\ o \in Range(channels'[ch].lockers) <=>
               o \in Range(channels[ch].lockers) /\ o \notin woken
    <3> SUFFICES ASSUME NEW ch \in Channels, NEW o \in Owners
                 PROVE  /\ o \in channels[ch].waiters => o \notin woken
                        /\ o \in Range(channels[ch].lockers) => o \notin woken
      OBVIOUS
    <3> QED
      BY <1>4
  <2>2. \A other \in Events, o \in Owners :
          o \in watching'[other] <=> o \in watching[other] /\ o \notin woken
    <3> SUFFICES ASSUME NEW other \in Events, NEW o \in Owners
                 PROVE  o \in watching'[other] <=> o \in watching[other] /\ o \notin woken
      OBVIOUS
    <3> QED
      BY <1>4, <1>5
  <2>3. \A o \in Owners : o \in jobs' <=> o \in jobs /\ o \notin woken
    BY <1>4
  <2> QED
    BY <2>1, <2>2, <2>3 DEF Unlisted
<1> QED
  BY <1>2, <1>3, <1>6

LEMMA MovesStep ==
  ASSUME IInv, NEW o \in Owners, turn # <<>>, o = Head(turn), NEW woken,
         Moves({o}, woken), Unlisted(woken), ran' = TRUE,
         UNCHANGED <<turn, running, clients, dead>>
  PROVE  Queued' /\ WaitersListed' /\ DeadOnlyForJobs' /\ Looping' /\ PassedIdle'
<1>1. o \notin dead
  BY AtTurn
<1>2. Queued' /\ WaitersListed' /\ DeadOnlyForJobs'
  BY <1>1, AfterMoves
<1>3. Live' = Live
  BY DEF Live
<1> QED
  BY <1>2, <1>3, AfterRan

LEMMA WaitEventStep ==
  ASSUME IInv, NEW o \in Owners, WaitEvent(o)
  PROVE  IInv'
<1> DEFINE cmd == First(o).cmd
<1>1. /\ turn # <<>> /\ o = Head(turn) /\ queue[o] # <<>> /\ ~Waiting(o)
      /\ cmd \in Commands /\ cmd.op = "event"
  BY TypesHold, FiresIs DEF WaitEvent, Fires
<1>2. cmd.on \in Events /\ cmd = [op |-> "event", on |-> cmd.on]
  BY <1>1, CommandIs
<1>3. /\ watching' = [watching EXCEPT ![cmd.on] = @ \cup {o}] /\ Waits(o)
      /\ UNCHANGED <<people, channels, jobs, history>>
  BY DEF WaitEvent
<1> HIDE DEF cmd
<1>4. watching \in [Events -> SUBSET Owners]
  BY DEF IInv, Watched
<1>5. Watched' /\ ChannelsGood' /\ Counted' /\ People'
  BY <1>2, <1>3, <1>4, KeepPeople DEF IInv, Watched, ChannelsGood, Counted, history
<1>6. \A e \in Events : watching'[e] = IF e = cmd.on THEN watching[e] \cup {o} ELSE watching[e]
  BY <1>2, <1>3, <1>4
<1>7. /\ \A e : cmd = [op |-> "event", on |-> e] <=> e = cmd.on
      /\ \A ch : cmd # [op |-> "wait", ch |-> ch] /\ cmd # [op |-> "lock", ch |-> ch]
      /\ cmd.op \notin {"job", "if"}
  <2>1. /\ \A e : cmd = [op |-> "event", on |-> e] => cmd.on = e
        /\ \A ch : cmd = [op |-> "wait", ch |-> ch] => cmd.op = "wait"
        /\ \A ch : cmd = [op |-> "lock", ch |-> ch] => cmd.op = "lock"
    OBVIOUS
  <2> QED
    BY <2>1, <1>1, <1>2
<1>8. ListedToo(o)
  <2>1. /\ \A ch \in Channels, w \in Owners :
             /\ w \in channels'[ch].waiters <=>
                  w \in channels[ch].waiters \/ (w = o /\ cmd = [op |-> "wait", ch |-> ch])
             /\ w \in Range(channels'[ch].lockers) <=>
                  w \in Range(channels[ch].lockers) \/ (w = o /\ cmd = [op |-> "lock", ch |-> ch])
        /\ \A w \in Owners : w \in jobs' <=> w \in jobs \/ (w = o /\ cmd.op \in {"job", "if"})
    BY <1>3, <1>7
  <2>2. \A e \in Events, w \in Owners :
          w \in watching'[e] <=>
            w \in watching[e] \/ (w = o /\ cmd = [op |-> "event", on |-> e])
    BY <1>6, <1>7
  <2> QED
    BY <2>1, <2>2 DEF ListedToo, cmd
<1>9. Queued' /\ WaitersListed' /\ DeadOnlyForJobs' /\ Looping' /\ PassedIdle'
  BY <1>1, <1>3, <1>8, WaitsStep DEF people
<1> QED
  BY <1>5, <1>9 DEF IInv

LEMMA RouseStep ==
  ASSUME IInv, NEW o \in Owners, Rouse(o)
  PROVE  IInv'
<1> DEFINE on == First(o).cmd.on
           who == First(o).cmd.who
<1>1. /\ turn # <<>> /\ o = Head(turn) /\ queue[o] # <<>> /\ ~Waiting(o)
      /\ First(o).cmd \in Commands /\ First(o).cmd.op = "rouse"
  BY TypesHold, FiresIs DEF Rouse, Fires
<1>2. on \in Events
  BY <1>1, CommandIs
<1>3. /\ {who} \in SUBSET watching[on] /\ watching' = [watching EXCEPT ![on] = @ \ {who}]
      /\ Normal(o, {who}) /\ UNCHANGED <<people, channels, jobs, history>>
  BY DEF Rouse
<1> HIDE DEF on, who
<1>4. /\ Watched' /\ ChannelsGood' /\ Unlisted({who})
      /\ \A w \in Owners : w \in {who} => Waiting(w)
  BY <1>2, <1>3, EventUnlisted
<1>5. Queued' /\ WaitersListed' /\ DeadOnlyForJobs' /\ Looping' /\ PassedIdle'
  BY <1>1, <1>3, <1>4, NormalStep DEF people
<1>6. People' /\ Counted'
  BY <1>3, KeepPeople DEF IInv, Counted, history
<1> QED
  BY <1>4, <1>5, <1>6 DEF IInv

LEMMA ShellStep ==
  ASSUME IInv, NEW o \in Owners, Shell(o)
  PROVE  IInv'
<1> DEFINE cmd == First(o).cmd
<1>1. /\ turn # <<>> /\ o = Head(turn) /\ queue[o] # <<>> /\ ~Waiting(o)
      /\ cmd.op \in {"job", "if"}
  BY TypesHold, FiresIs DEF Shell, Fires
<1>2. /\ jobs' = jobs \cup {o} /\ Waits(o)
      /\ UNCHANGED <<people, channels, watching, history>>
  BY DEF Shell
<1> HIDE DEF cmd
<1>3. Watched' /\ ChannelsGood' /\ Counted' /\ People'
  BY <1>2, KeepPeople DEF IInv, Watched, ChannelsGood, Counted, history
<1>4. /\ \A e : cmd # [op |-> "event", on |-> e]
      /\ \A ch : cmd # [op |-> "wait", ch |-> ch] /\ cmd # [op |-> "lock", ch |-> ch]
  <2>1. /\ \A e : cmd = [op |-> "event", on |-> e] => cmd.op = "event"
        /\ \A ch : cmd = [op |-> "wait", ch |-> ch] => cmd.op = "wait"
        /\ \A ch : cmd = [op |-> "lock", ch |-> ch] => cmd.op = "lock"
    OBVIOUS
  <2> QED
    BY <2>1, <1>1
<1>5. ListedToo(o)
  <2>1. /\ \A ch \in Channels, w \in Owners :
             /\ w \in channels'[ch].waiters <=>
                  w \in channels[ch].waiters \/ (w = o /\ cmd = [op |-> "wait", ch |-> ch])
             /\ w \in Range(channels'[ch].lockers) <=>
                  w \in Range(channels[ch].lockers) \/ (w = o /\ cmd = [op |-> "lock", ch |-> ch])
        /\ \A e \in Events, w \in Owners :
             w \in watching'[e] <=>
               w \in watching[e] \/ (w = o /\ cmd = [op |-> "event", on |-> e])
    BY <1>2, <1>4
  <2>2. \A w \in Owners : w \in jobs' <=> w \in jobs \/ (w = o /\ cmd.op \in {"job", "if"})
    BY <1>1, <1>2
  <2> QED
    BY <2>1, <2>2 DEF ListedToo, cmd
<1>6. Queued' /\ WaitersListed' /\ DeadOnlyForJobs' /\ Looping' /\ PassedIdle'
  BY <1>1, <1>2, <1>5, WaitsStep DEF people
<1> QED
  BY <1>3, <1>6 DEF IInv

LEMMA PlainStep ==
  ASSUME IInv, NEW o \in Owners, Plain(o)
  PROVE  IInv'
<1>1. /\ turn # <<>> /\ o = Head(turn) /\ queue[o] # <<>> /\ ~Waiting(o) /\ First(o) \in ItemSet
  BY TypesHold, FiresIs DEF Plain, Fires
<1>2. UNCHANGED <<people, channels, jobs, history>>
  BY DEF Plain
<1>3. People' /\ Counted'
  BY <1>2, KeepPeople DEF IInv, Counted, history
<1>4. CASE First(o).nohooks
  <2>1. Normal(o, {}) /\ UNCHANGED watching
    BY <1>4 DEF Plain
  <2>2. Unlisted({})
    BY <1>2, <2>1, NobodyUnlisted
  <2>3. Queued' /\ WaitersListed' /\ DeadOnlyForJobs' /\ Looping' /\ PassedIdle'
    BY <1>1, <1>2, <2>1, <2>2, NormalStep DEF people
  <2>4. Watched' /\ ChannelsGood'
    BY <1>2, <2>1 DEF IInv, Watched, ChannelsGood
  <2> QED
    BY <1>3, <2>3, <2>4 DEF IInv
<1>5. CASE ~First(o).nohooks
  <2> DEFINE hook == HookItems("after", First(o))
  <2>1. PICK woken \in SUBSET watching["after"] :
          /\ queue' = Replace(Woken(queue, woken), o, hook)
          /\ watching' = [watching EXCEPT !["after"] = @ \ woken]
    BY <1>5 DEF Plain
  <2>2. "after" \in Events /\ ran' = TRUE /\ UNCHANGED <<turn, running>>
    BY <1>5 DEF Plain, Events
  <2>3. /\ Watched' /\ ChannelsGood' /\ Unlisted(woken)
        /\ \A l \in Owners : l \in woken => Waiting(l)
    BY <1>2, <2>1, <2>2, EventUnlisted
  <2>4. hook \in Seq(ItemSet) /\ AllNew(hook)
    BY <1>1, <2>2, HookItemsNew
  <2> HIDE DEF hook
  <2>5. queue \in Queues /\ OnlyFirst(queue)
    BY DEF IInv, Queued
  <2>6. Moves({o}, woken)
    BY <1>1, <2>1, <2>3, <2>4, <2>5, ReplaceMoves
  <2>7. Queued' /\ WaitersListed' /\ DeadOnlyForJobs' /\ Looping' /\ PassedIdle'
    BY <1>1, <1>2, <2>2, <2>3, <2>6, MovesStep DEF people
  <2> QED
    BY <1>3, <2>3, <2>7 DEF IInv
<1> QED
  BY <1>4, <1>5

LEMMA FailStep ==
  ASSUME IInv, NEW o \in Owners, Fail(o)
  PROVE  IInv'
<1>1. /\ turn # <<>> /\ o = Head(turn) /\ queue[o] # <<>> /\ ~Waiting(o)
  <2>1. PICK op : Fires(o, op)
    BY DEF Fail
  <2> QED
    BY <2>1, TypesHold, FiresIs DEF Fires
<1>2. Errors(o) /\ UNCHANGED <<people, channels, jobs, history>>
  BY DEF Fail
<1>3. "error" \in Events
  BY DEF Events
<1>4. \A l \in Owners : l \in watching["error"] => Waiting(l)
  BY <1>3, OneList DEF IInv
<1>5. PICK woken \in SUBSET watching["error"] :
        Moves({o}, woken) /\ watching' = [watching EXCEPT !["error"] = @ \ woken]
  BY <1>1, <1>2, <1>4, TypesHold, ErrorsMoves DEF IInv, Queued
<1>6. /\ Watched' /\ ChannelsGood' /\ Unlisted(woken)
  BY <1>2, <1>3, <1>5, EventUnlisted
<1>7. ran' = TRUE /\ UNCHANGED <<turn, running>>
  BY <1>2 DEF Errors
<1>8. Queued' /\ WaitersListed' /\ DeadOnlyForJobs' /\ Looping' /\ PassedIdle'
  BY <1>1, <1>2, <1>5, <1>6, <1>7, MovesStep DEF people
<1>9. People' /\ Counted'
  BY <1>2, KeepPeople DEF IInv, Counted, history
<1> QED
  BY <1>6, <1>8, <1>9 DEF IInv

LEMMA CommandDoneStep ==
  ASSUME IInv, NEW o \in Owners, CommandDone(o)
  PROVE  IInv'
<1>1. /\ turn # <<>> /\ o = Head(turn) /\ queue[o] # <<>> /\ ~Waiting(o)
  BY TypesHold, FiresIs DEF CommandDone, Fires
<1>2. /\ exiting' = exiting \cup (({o} \cap Clients) \ Attached) /\ Normal(o, {})
      /\ UNCHANGED <<clients, dead, channels, watching, jobs, history>>
  BY DEF CommandDone
<1>3. Unlisted({})
  BY <1>2, NobodyUnlisted
<1>4. Queued' /\ WaitersListed' /\ DeadOnlyForJobs' /\ Looping' /\ PassedIdle'
  BY <1>1, <1>2, <1>3, NormalStep
<1>5. Counted' /\ Watched' /\ ChannelsGood'
  BY <1>2 DEF IInv, Counted, Watched, ChannelsGood, history
<1>6. o \in Live \/ o \notin Clients
  BY <1>1, AtTurn, Constants
<1>7. People'
  BY <1>2, <1>6 DEF IInv, People, Live
<1> QED
  BY <1>4, <1>5, <1>7 DEF IInv

LEMMA ContinuedStep ==
  ASSUME IInv, NEW o \in Owners, Continued(o)
  PROVE  IInv'
<1>1. /\ turn # <<>> /\ o = Head(turn) /\ queue[o] # <<>> /\ ~Waiting(o)
      /\ queue' = Replace(queue, o, <<>>)
      /\ UNCHANGED <<people, channels, watching, jobs, loop, forced>>
  BY DEF Continued, Waiting
<1>2. queue \in Queues /\ OnlyFirst(queue)
  BY DEF IInv, Queued
<1>3. Woken(queue, {}) = queue
  BY <1>2 DEF Woken, Queues
<1>4. <<>> \in Seq(ItemSet) /\ AllNew(<<>>)
  BY DEF AllNew
<1>5. queue' = Replace(Woken(queue, {}), o, <<>>)
  BY <1>1, <1>3
<1>6. Moves({o}, {})
  <2>1. \A w \in Owners : w \in {} => Waiting(w)
    OBVIOUS
  <2> DEFINE nobody == {}
             nothing == <<>>
  <2> HIDE DEF nobody, nothing
  <2>2. Moves({o}, nobody)
    <3>1. /\ nothing \in Seq(ItemSet) /\ AllNew(nothing)
          /\ queue' = Replace(Woken(queue, nobody), o, nothing)
      BY <1>4, <1>5 DEF nobody, nothing
    <3>2. \A w \in Owners : w \in nobody => Waiting(w)
      BY <2>1 DEF nobody
    <3> QED
      BY <1>1, <1>2, <3>1, <3>2, ReplaceMoves
  <2> QED
    BY <2>2 DEF nobody
<1>7. Unlisted({})
  BY <1>1, NobodyUnlisted
<1>8. o \notin dead /\ o \in Range(turn)
  BY <1>1, AtTurn
<1>9. People' /\ Live' = Live /\ dead' = dead
  BY <1>1, KeepPeople DEF IInv
<1>10. Queued' /\ WaitersListed' /\ DeadOnlyForJobs'
  BY <1>6, <1>7, <1>8, <1>9, AfterMoves
<1>11. Looping' /\ Watched' /\ ChannelsGood'
  BY <1>1, <1>9 DEF IInv, Looping, Watched, ChannelsGood, loop
<1>12. PassedIdle'
  <2> SUFFICES ASSUME running, ~ran, NEW w \in (Live \cup {Global}) \ Range(turn)
               PROVE  ~Ready(w)'
    BY <1>1, <1>9 DEF PassedIdle, loop
  <2>1. ~Ready(w) /\ w # o
    BY <1>8 DEF IInv, PassedIdle
  <2>2. w \in Owners
    <3>1. clients \in Seq(Clients)
      BY DEF IInv, People
    <3>2. Live \subseteq Clients
      BY <3>1, RangeIs DEF Live
    <3> QED
      BY <3>2 DEF Owners
  <2>3. queue'[w] = queue[w]
    BY <1>6, <2>1, <2>2 DEF Moves
  <2> QED
    BY <2>1, <2>3 DEF Ready, First
<1>13. Counted'
  <2>1. CASE First(o).cmd.op = "lock"
    <3>1. First(o).cmd \in Commands
      BY <1>1, <1>2, TailNew DEF First, ItemSet
    <3>2. First(o).cmd.ch \in Channels
      BY <2>1, <3>1, CommandIs
    <3> QED
      BY <2>1, <3>2, EnterCounted DEF Continued, IInv, Counted
  <2>2. CASE First(o).cmd.op # "lock"
    BY <2>2 DEF Continued, IInv, Counted
  <2> QED
    BY <2>1, <2>2
<1> QED
  BY <1>9, <1>10, <1>11, <1>12, <1>13 DEF IInv

-----------------------------------------------------------------------------
(* The events and the passes of server_loop keep the invariant.            *)

LEMMA Outside ==
  ASSUME IInv, ~running, UNCHANGED loop
  PROVE  Looping' /\ PassedIdle'
<1>1. turn = <<>> /\ turn' = <<>> /\ ~running' /\ UNCHANGED <<running, ran>>
  BY DEF IInv, Looping, loop
<1>2. Range(<<>>) = {} /\ <<>> \in Seq(Owners)
  BY DEF Range
<1> QED
  BY <1>1, <1>2 DEF IInv, Looping, PassedIdle

LEMMA ConnectStep ==
  ASSUME IInv, NEW c \in Clients, Connect(c)
  PROVE  IInv'
<1>1. /\ ~running /\ c \notin Live \cup dead /\ clients' = Append(clients, c)
      /\ UNCHANGED <<exiting, dead, queue, channels, watching, jobs, loop, history>>
  BY DEF Connect
<1>2. clients \in Seq(Clients) /\ Injective(clients)
  BY DEF IInv, People
<1>3. /\ clients' \in Seq(Clients) /\ Injective(clients') /\ Live' = Live \cup {c}
  <2>1. Append(clients, c) \in Seq(Clients)
    BY <1>2
  <2>2. Range(Append(clients, c)) = Range(clients) \cup {c}
    BY <1>2, RangeAppend
  <2>3. Injective(Append(clients, c))
    BY <1>1, <1>2, InjectiveAppend DEF Live
  <2> QED
    BY <1>1, <2>1, <2>2, <2>3 DEF Live
<1>4. People'
  BY <1>1, <1>3 DEF IInv, People
<1>5. Looping' /\ PassedIdle'
  BY <1>1, Outside
<1>6. Queued' /\ ChannelsGood' /\ Watched' /\ Counted' /\ DeadOnlyForJobs'
  BY <1>1 DEF IInv, Queued, OnlyFirst, ChannelsGood, Watched, Counted, history,
              DeadOnlyForJobs, First
<1>7. WaitersListed'
  BY <1>1 DEF IInv, WaitersListed, Waiting, First
<1> QED
  BY <1>4, <1>5, <1>6, <1>7 DEF IInv

LEMMA RequestStep ==
  ASSUME IInv, NEW c \in Clients, NEW cmds \in Lines, Request(c, cmds)
  PROVE  IInv'
<1>1. /\ ~running /\ c \in Live
      /\ UNCHANGED <<people, channels, watching, jobs, loop, history>>
  BY DEF Request
<1>2. Moves({c}, {})
  BY TypesHold, RequestMoves DEF IInv, Queued
<1>3. Unlisted({})
  BY <1>1, NobodyUnlisted
<1>4. People' /\ dead' = dead
  BY <1>1, KeepPeople DEF IInv
<1>5. c \notin dead
  BY <1>1 DEF IInv, People
<1>6. Queued' /\ WaitersListed' /\ DeadOnlyForJobs'
  BY <1>2, <1>3, <1>4, <1>5, AfterMoves
<1>7. Looping' /\ PassedIdle'
  BY <1>1, Outside
<1>8. ChannelsGood' /\ Watched' /\ Counted'
  BY <1>1 DEF IInv, ChannelsGood, Watched, Counted, history
<1> QED
  BY <1>4, <1>6, <1>7, <1>8 DEF IInv

LEMMA JobDoneStep ==
  ASSUME IInv, NEW o \in Owners, NEW succeeded, JobDone(o, succeeded)
  PROVE  IInv'
<1>1. /\ ~running /\ o \in jobs /\ jobs' = jobs \ {o}
      /\ UNCHANGED <<people, channels, watching, loop, history>>
  BY DEF JobDone
<1>2. Waiting(o)
  BY <1>1, OneList DEF IInv
<1>3. Moves({}, {o})
  BY <1>2, TypesHold, JobMoves DEF IInv, Queued
<1>4. /\ \A ch \in Channels : o \notin channels[ch].waiters /\ o \notin Range(channels[ch].lockers)
      /\ \A e \in Events : o \notin watching[e]
  BY <1>1, OneList DEF IInv
<1>5. Unlisted({o})
  BY <1>1, <1>4 DEF Unlisted
<1>6. People' /\ dead' = dead
  BY <1>1, KeepPeople DEF IInv
<1>7. Queued' /\ WaitersListed' /\ DeadOnlyForJobs'
  BY <1>3, <1>5, <1>6, AfterMoves
<1>8. Looping' /\ PassedIdle'
  BY <1>1, Outside
<1>9. ChannelsGood' /\ Watched' /\ Counted'
  BY <1>1 DEF IInv, ChannelsGood, Watched, Counted, history
<1> QED
  BY <1>6, <1>7, <1>8, <1>9 DEF IInv

\* A pass over the queues of the global owner and of every client begins.
LEMMA PassStep ==
  ASSUME IInv, running' = TRUE, ran' = FALSE, turn' = <<Global>> \o clients,
         UNCHANGED <<people, queue, channels, watching, jobs, history>>
  PROVE  IInv'
<1>1. clients \in Seq(Clients) /\ Range(clients) = Live
  BY DEF IInv, People, Live
<1>2. clients \in Seq(Owners) /\ Global \in Owners
  BY <1>1 DEF Owners
<1>3. turn' \in Seq(Owners) /\ turn' # <<>> /\ Head(turn') = Global /\ Tail(turn') = clients
  BY <1>2, ConsIs
<1>4. Range(turn') = Live \cup {Global}
  BY <1>1, <1>3, RangeTail
<1>5. People' /\ Live' = Live
  BY KeepPeople DEF IInv
<1>6. Looping' /\ PassedIdle'
  BY <1>3, <1>4, <1>5 DEF Looping, PassedIdle
<1>7. Queued' /\ ChannelsGood' /\ Watched' /\ Counted' /\ DeadOnlyForJobs'
  BY DEF IInv, Queued, OnlyFirst, ChannelsGood, Watched, Counted, history,
         DeadOnlyForJobs, First, people
<1>8. WaitersListed'
  BY DEF IInv, WaitersListed, Waiting, First
<1> QED
  BY <1>5, <1>6, <1>7, <1>8 DEF IInv

LEMMA NextQueueStep ==
  ASSUME IInv, NextQueue
  PROVE  IInv'
<1>1. /\ turn # <<>> /\ ~Ready(Head(turn)) /\ turn' = Tail(turn)
      /\ UNCHANGED <<people, queue, channels, watching, jobs, running, ran, history>>
  BY DEF NextQueue
<1>0. PICK first : first = Head(turn)
  OBVIOUS
<1>2. ~Ready(first)
  BY <1>0, <1>1
<1>3. ~Ready(first)'
  BY <1>1, <1>2 DEF Ready, First
<1>4. People' /\ Live' = Live
  BY <1>1, KeepPeople DEF IInv
<1>5. Looping' /\ PassedIdle'
  <2>1. first = Head(turn)
    BY <1>0
  <2>2. \A w \in Owners : w # first => queue'[w] = queue[w]
    BY <1>1
  <2> QED
    BY <1>1, <1>3, <1>4, <2>1, <2>2, AfterTurn
<1>6. Queued' /\ ChannelsGood' /\ Watched' /\ Counted' /\ DeadOnlyForJobs'
  BY <1>1 DEF IInv, Queued, OnlyFirst, ChannelsGood, Watched, Counted, history,
              DeadOnlyForJobs, First, people
<1>7. WaitersListed'
  BY <1>1 DEF IInv, WaitersListed, Waiting, First
<1> QED
  BY <1>4, <1>5, <1>6, <1>7 DEF IInv

LEMMA HookQueuedIs ==
  ASSUME NEW r \in Queues, OnlyFirst(r), NEW e \in Events
  PROVE  /\ HookQueued(r, e) \in Queues /\ OnlyFirst(HookQueued(r, e))
         /\ \A w \in Owners :
              /\ w # Global => HookQueued(r, e)[w] = r[w]
              /\ r[w] # <<>> => /\ HookQueued(r, e)[w] # <<>>
                                /\ Head(HookQueued(r, e)[w]) = Head(r[w])
              /\ r[w] = <<>> /\ HookQueued(r, e)[w] # <<>> =>
                   /\ Head(HookQueued(r, e)[w]).state = "new"
                   /\ Head(HookQueued(r, e)[w]).nohooks
<1> DEFINE s == r[Global]
           hook == Items(Hooks[e], HookGroup[e], NextLine(s), TRUE)
           t == s \o hook
           u == [r EXCEPT ![Global] = t]
<1>1. Global \in Owners /\ s \in Seq(ItemSet)
  BY DEF Owners, Queues
<1>2. /\ hook \in Seq(ItemSet) /\ AllNew(hook)
      /\ hook # <<>> => Head(hook).nohooks
  <2>1. NextLine(s) \in Nat /\ HookGroup[e] \in Nat /\ Hooks[e] \in Seq(Commands)
    BY <1>1, NextLineType, Constants DEF HookGroup, Events
  <2>2. hook \in Seq(ItemSet) /\ AllNew(hook)
    BY <2>1, ItemsAreNew
  <2>3. \A i \in DOMAIN hook : hook[i].nohooks
    BY DEF Items, Item
  <2> HIDE DEF hook
  <2>4. hook # <<>> => Head(hook) = hook[1] /\ 1 \in DOMAIN hook
    BY <2>2
  <2> QED
    BY <2>2, <2>3, <2>4
<1>3. s # <<>> => AllNew(Tail(s))
  BY <1>1, TailNew
<1>4. HookQueued(r, e) = r \/ HookQueued(r, e) = u
  BY DEF HookQueued
<1> HIDE DEF hook
<1>5. /\ t \in Seq(ItemSet)
      /\ t # <<>> => AllNew(Tail(t))
      /\ s # <<>> => t # <<>> /\ Head(t) = Head(s)
      /\ s = <<>> /\ t # <<>> => Head(t).state = "new"
      /\ s = <<>> => t = hook
  BY <1>1, <1>2, <1>3, AppendedQueue
<1> HIDE DEF t
<1>6. u \in Queues /\ u[Global] = t /\ \A w \in Owners : w # Global => u[w] = r[w]
  BY <1>1, <1>5 DEF Queues
<1> HIDE DEF u
<1>7. OnlyFirst(u)
  <2>1. \A w \in Owners : r[w] = <<>> \/ AllNew(Tail(r[w]))
    BY OnlyFirstIs
  <2>2. \A w \in Owners : u[w] = <<>> \/ AllNew(Tail(u[w]))
    BY <1>5, <1>6, <2>1
  <2> QED
    BY <1>6, <2>2, OnlyFirstIs
<1> QED
  BY <1>2, <1>4, <1>5, <1>6, <1>7

\* What a hook behind the global queue and an end of waits make of the queues.
Hooked(q, t, on) ==
  /\ t \in Queues /\ OnlyFirst(t)
  /\ \A w \in Owners :
       /\ w # Global => (t[w] = <<>> <=> q[w] = <<>>)
       /\ w # Global /\ w \notin on => t[w] = q[w]
       /\ q[w] # <<>> =>
            /\ t[w] # <<>>
            /\ Head(t[w]) = IF w \in on THEN [Head(q[w]) EXCEPT !.state = "woken"]
                            ELSE Head(q[w])
       /\ q[w] = <<>> /\ t[w] # <<>> =>
            w = Global /\ Head(t[w]).state = "new" /\ Head(t[w]).nohooks

LEMMA HookedIs ==
  ASSUME NEW q \in Queues, OnlyFirst(q), NEW e \in Events,
         NEW r, r = q \/ r = HookQueued(q, e),
         NEW on, \A w \in Owners : w \in on => q[w] # <<>>
  PROVE  Hooked(q, Woken(r, on), on)
<1> DEFINE t == Woken(r, on)
<1>1. /\ r \in Queues /\ OnlyFirst(r)
      /\ \A w \in Owners :
           /\ w # Global => r[w] = q[w]
           /\ q[w] # <<>> => r[w] # <<>> /\ Head(r[w]) = Head(q[w])
           /\ q[w] = <<>> /\ r[w] # <<>> => Head(r[w]).state = "new" /\ Head(r[w]).nohooks
  <2>1. CASE r = q
    BY <2>1
  <2>2. CASE r = HookQueued(q, e)
    BY <2>2, HookQueuedIs
  <2> QED
    BY <2>1, <2>2
<1>2. /\ t \in Queues /\ OnlyFirst(t)
      /\ \A w \in Owners :
           /\ w \notin on \/ r[w] = <<>> => t[w] = r[w]
           /\ w \in on /\ r[w] # <<>> =>
                t[w] # <<>> /\ Head(t[w]) = [Head(r[w]) EXCEPT !.state = "woken"]
  BY <1>1, WokenIs
<1> HIDE DEF t
<1>3. ASSUME NEW w \in Owners
      PROVE  /\ w # Global => (t[w] = <<>> <=> q[w] = <<>>)
             /\ w # Global /\ w \notin on => t[w] = q[w]
             /\ q[w] # <<>> =>
                  /\ t[w] # <<>>
                  /\ Head(t[w]) = IF w \in on THEN [Head(q[w]) EXCEPT !.state = "woken"]
                                  ELSE Head(q[w])
             /\ q[w] = <<>> /\ t[w] # <<>> =>
                  w = Global /\ Head(t[w]).state = "new" /\ Head(t[w]).nohooks
  <2>1. CASE w \in on
    BY <1>1, <1>2, <2>1
  <2>2. CASE w \notin on
    BY <1>1, <1>2, <2>2
  <2> QED
    BY <2>1, <2>2
<1> HIDE DEF Hooked
<1>4. Hooked(q, t, on)
  BY <1>2, <1>3 DEF Hooked
<1> QED
  BY <1>4 DEF t

\* A queue can go on after that only if it waited, could go on before, or was
\* empty and has got the hook.
LEMMA HookedMoves ==
  ASSUME queue \in Queues, OnlyFirst(queue), NEW e \in Events,
         NEW r, r = queue \/ r = HookQueued(queue, e),
         NEW on, \A w \in Owners : w \in on => Waiting(w), queue' = Woken(r, on)
  PROVE  /\ Moves({Global}, on)
         /\ \A w \in Owners :
              Ready(w)' => \/ Waiting(w) \/ Ready(w)
                           \/ w = Global /\ queue[w] = <<>> /\ First(w)'.nohooks
<1>1. \A w \in Owners : w \in on => queue[w] # <<>>
  BY DEF Waiting
<1>2. Hooked(queue, queue', on)
  BY <1>1, HookedIs
<1>3. ASSUME NEW w \in Owners
      PROVE  /\ Waiting(w)' <=> Waiting(w) /\ w \notin on
             /\ Waiting(w)' => First(w)'.cmd = First(w).cmd
             /\ queue[w] # <<>> => First(w)'.cmd = First(w).cmd
             /\ Ready(w)' => \/ Waiting(w) \/ Ready(w)
                             \/ w = Global /\ queue[w] = <<>> /\ First(w)'.nohooks
  <2>1. CASE queue[w] # <<>>
    <3>1. Head(queue[w]) \in ItemSet
      BY <2>1, TailNew
    <3>2. w \in on => /\ Head(queue'[w]).state = "woken"
                      /\ Head(queue'[w]).cmd = Head(queue[w]).cmd
      BY <1>2, <2>1, <3>1 DEF ItemSet, Hooked
    <3>3. w \notin on => Head(queue'[w]) = Head(queue[w])
      BY <1>2, <2>1 DEF Hooked
    <3>4. queue'[w] # <<>> /\ (w \in on => Waiting(w))
      BY <1>2, <2>1 DEF Hooked
    <3> QED
      BY <2>1, <3>2, <3>3, <3>4 DEF Waiting, Ready, First
  <2>2. CASE queue[w] = <<>>
    <3>1. queue'[w] # <<>> =>
            w = Global /\ Head(queue'[w]).state = "new" /\ Head(queue'[w]).nohooks
      BY <1>2, <2>2 DEF Hooked
    <3> QED
      BY <1>1, <2>2, <3>1 DEF Waiting, Ready, First
  <2> QED
    BY <2>1, <2>2
<1>4. /\ queue' \in Queues /\ OnlyFirst(queue')
      /\ \A w \in Owners : w # Global => (queue'[w] = <<>> <=> queue[w] = <<>>)
      /\ \A w \in Owners : w \notin {Global} \cup on => queue'[w] = queue[w]
  BY <1>2 DEF Hooked
<1> QED
  BY <1>3, <1>4 DEF Moves

\* What server_client_loop does to the queues and to the waits for a window.
LEMMA WindowsMove ==
  ASSUME IInv, CheckWindows, UNCHANGED <<channels, jobs>>
  PROVE  \E on : /\ \A w \in Owners : w \in on => Waiting(w) /\ w \in watching["resized"]
                 /\ Moves({Global}, on) /\ Unlisted(on)
                 /\ watching' \in [Events -> SUBSET Owners]
<1>1. /\ queue \in Queues /\ OnlyFirst(queue) /\ watching \in [Events -> SUBSET Owners]
      /\ "resized" \in Events /\ Global \in Owners
  BY DEF IInv, Queued, Watched, Events, Owners
<1>2. CASE UNCHANGED <<queue, watching>>
  <2>1. Moves({Global}, {})
    BY <1>1, <1>2 DEF Moves, Waiting, First
  <2>2. Unlisted({})
    BY <1>2, NobodyUnlisted
  <2> QED
    BY <1>1, <1>2, <2>1, <2>2
<1>3. CASE ~UNCHANGED <<queue, watching>>
  <2>1. PICK on \in SUBSET watching["resized"] :
          /\ queue' = Woken(HookQueued(queue, "resized"), on)
          /\ watching' = [watching EXCEPT !["resized"] = @ \ on]
    BY <1>3 DEF CheckWindows
  <2>2. \A w \in Owners : w \in on => Waiting(w) /\ w \in watching["resized"]
    BY <1>1, OneList DEF IInv
  <2> DEFINE r == HookQueued(queue, "resized")
  <2>3. queue' = Woken(r, on)
    BY <2>1
  <2>4. r = HookQueued(queue, "resized")
    OBVIOUS
  <2> HIDE DEF r
  <2>5. Moves({Global}, on)
    BY <1>1, <2>2, <2>3, <2>4, HookedMoves
  <2>6. Unlisted(on)
    <3>1. ASSUME NEW o \in Owners, o \in on
          PROVE  /\ o \notin jobs
                 /\ \A ch \in Channels : /\ o \notin channels[ch].waiters
                                         /\ o \notin Range(channels[ch].lockers)
                 /\ \A x \in Events : o \in watching[x] => x = "resized"
      BY <1>1, <2>2, <3>1, OneList DEF IInv
    <3>2. \A x \in Events : watching'[x] = IF x = "resized" THEN watching[x] \ on ELSE watching[x]
      BY <1>1, <2>1
    <3> QED
      BY <3>1, <3>2 DEF Unlisted
  <2>7. watching' \in [Events -> SUBSET Owners]
    BY <1>1, <2>1
  <2> QED
    BY <2>2, <2>5, <2>6, <2>7
<1> QED
  BY <1>2, <1>3

LEMMA LoopEndStep ==
  ASSUME IInv, LoopEnd
  PROVE  IInv'
<1>1. /\ turn = <<>> /\ ~running' /\ CheckWindows
      /\ UNCHANGED <<people, channels, jobs, turn, ran, history>>
  BY DEF LoopEnd
<1>2. People' /\ Live' = Live /\ dead' = dead
  BY <1>1, KeepPeople DEF IInv
<1>3. Looping' /\ PassedIdle'
  BY <1>1, <1>2 DEF IInv, Looping, PassedIdle, LoopEnd
<1>4. PICK on : /\ Moves({Global}, on) /\ Unlisted(on)
                /\ watching' \in [Events -> SUBSET Owners]
  BY <1>1, WindowsMove
<1>5. Global \notin dead
  BY Constants DEF IInv, People
<1>6. Queued' /\ WaitersListed' /\ DeadOnlyForJobs'
  BY <1>2, <1>4, <1>5, AfterMoves
<1>7. ChannelsGood' /\ Watched' /\ Counted'
  BY <1>1, <1>4 DEF IInv, ChannelsGood, Watched, Counted, history
<1> QED
  BY <1>2, <1>3, <1>6, <1>7 DEF IInv

LEMMA LoopFlushStep ==
  ASSUME IInv, LoopFlush
  PROVE  IInv'
<1> DEFINE all == UNION ({channels[ch].waiters \cup Range(channels[ch].lockers) :
                            ch \in Channels}
                           \cup {watching[e] : e \in Events})
<1> DEFINE hooked == HookQueued(queue, "resized")
<1>0. queue' = Woken(queue, all) \/ queue' = Woken(hooked, all)
  BY DEF LoopFlush
<1> HIDE DEF hooked
<1>1. /\ running /\ turn = <<>> /\ ~running'
      /\ channels' = [ch \in Channels |-> Flushed(channels[ch])]
      /\ watching' = [e \in Events |-> {}]
      /\ UNCHANGED <<people, jobs, turn, ran>>
  BY DEF LoopFlush
<1>2. \A o :
        o \in all <=>
          \/ \E ch \in Channels : o \in channels[ch].waiters \cup Range(channels[ch].lockers)
          \/ \E e \in Events : o \in watching[e]
  OBVIOUS
<1> HIDE DEF all
<1>3. ASSUME NEW o \in Owners, o \in all PROVE Waiting(o) /\ o \notin jobs
  BY <1>2, <1>3, OneList DEF IInv
<1>4. Moves({Global}, all)
  <2>1. queue \in Queues /\ OnlyFirst(queue) /\ "resized" \in Events
    BY DEF IInv, Queued, Events
  <2>2. PICK r : queue' = Woken(r, all) /\ (r = queue \/ r = hooked)
    BY <1>0
  <2>3. r = queue \/ r = HookQueued(queue, "resized")
    BY <2>2 DEF hooked
  <2> QED
    BY <1>3, <2>1, <2>2, <2>3, HookedMoves
<1>5. ASSUME NEW ch \in Channels
      PROVE  Good(channels'[ch]) /\ channels'[ch].waiters = {} /\ channels'[ch].lockers = <<>>
  <2> DEFINE w == channels[ch]
             y == [w EXCEPT !.waiters = {}, !.woken = TRUE, !.lockers = <<>>, !.locked = FALSE]
  <2>1. Good(w)
    BY DEF IInv, ChannelsGood
  <2>2. channels'[ch] = IF w.here THEN Removed(y) ELSE w
    BY <1>1 DEF Flushed
  <2> HIDE DEF w
  <2>3. Removed(y) = NoChannel
    BY <2>1 DEF Removed, Good
  <2>4. channels'[ch] = NoChannel
    BY <2>1, <2>2, <2>3 DEF Good
  <2> QED
    BY <2>4, NoChannelGood DEF NoChannel
<1>6. ChannelsGood' /\ Watched'
  BY <1>1, <1>5 DEF ChannelsGood, IInv, Watched
<1>7. Unlisted(all)
  <2>1. ASSUME NEW ch \in Channels, NEW o \in Owners
        PROVE  /\ o \notin channels'[ch].waiters /\ o \notin Range(channels'[ch].lockers)
               /\ o \in channels[ch].waiters => o \in all
               /\ o \in Range(channels[ch].lockers) => o \in all
    BY <1>2, <1>5 DEF Range
  <2>2. ASSUME NEW e \in Events, NEW o \in Owners
        PROVE  o \notin watching'[e] /\ (o \in watching[e] => o \in all)
    BY <1>1, <1>2
  <2>3. \A o \in Owners : o \in jobs' <=> o \in jobs /\ o \notin all
    BY <1>1, <1>3
  <2> QED
    BY <2>1, <2>2, <2>3 DEF Unlisted
<1>8. People' /\ Live' = Live /\ dead' = dead
  BY <1>1, KeepPeople DEF IInv
<1>9. Queued' /\ WaitersListed' /\ DeadOnlyForJobs'
  <2>1. Global \notin dead
    BY Constants DEF IInv, People
  <2> QED
    BY <1>4, <1>7, <1>8, <2>1, AfterMoves
<1>10. Looping' /\ PassedIdle'
  BY <1>1, <1>8 DEF IInv, Looping, PassedIdle, LoopFlush
<1>11. Counted'
  <2>1. forced' = [ch \in Channels |-> forced[ch] \/ channels[ch].locked]
        /\ inside' = [ch \in Channels |-> IF forced'[ch] THEN 0 ELSE inside[ch]]
    BY DEF LoopFlush
  <2>2. forced' \in [Channels -> BOOLEAN]
    BY <2>1
  <2>3. inside' \in [Channels -> Nat]
    BY <2>1 DEF IInv, Counted
  <2> QED
    BY <2>2, <2>3 DEF Counted
<1> QED
  BY <1>6, <1>8, <1>9, <1>10, <1>11 DEF IInv

LEMMA LostMoves ==
  ASSUME IInv, NEW c \in Clients, Lost(c),
         NEW on, on \subseteq (IF c \in Attached THEN watching["detached"] \ {c} ELSE {}),
         c \in Attached =>
           queue' = Woken(HookQueued([queue EXCEPT ![c] = LostQueue(c)], "detached"), on),
         NEW woken, woken = on \cup (IF c \in jobs THEN {} ELSE {c})
  PROVE  Moves({c, Global}, woken)
<1> DEFINE q == [queue EXCEPT ![c] = LostQueue(c)]
<1>1. queue \in Queues /\ OnlyFirst(queue) /\ c \in Owners /\ c # Global
  BY Constants DEF IInv, Queued, Owners
<1>2. /\ q \in Queues /\ q[c] = LostQueue(c) /\ \A w \in Owners : w # c => q[w] = queue[w]
      /\ LostQueue(c) = IF c \in jobs THEN queue[c] ELSE <<>>
  BY <1>1 DEF Queues, LostQueue
<1>3. /\ c \in Attached => queue' = Woken(HookQueued(q, "detached"), on)
      /\ c \notin Attached => queue' = q
  BY DEF Lost
<1> HIDE DEF q
<1>4. OnlyFirst(q)
  <2>1. \A w \in Owners : queue[w] = <<>> \/ AllNew(Tail(queue[w]))
    BY <1>1, OnlyFirstIs
  <2>2. \A w \in Owners : q[w] = <<>> \/ AllNew(Tail(q[w]))
    BY <1>2, <2>1
  <2> QED
    BY <1>2, <2>2, OnlyFirstIs
<1>8. \A w \in Owners : w \in on => Waiting(w) /\ w # c
  BY OneList DEF IInv, Events
<1>5. \A w \in Owners : w \in on => q[w] # <<>>
  BY <1>2, <1>8 DEF Waiting
<1>6. Hooked(q, queue', on)
  <2>1. CASE c \in Attached
    <3>1. "detached" \in Events
      BY DEF Events
    <3>2. PICK r : r = HookQueued(q, "detached") /\ queue' = Woken(r, on)
      BY <2>1, <1>3
    <3> QED
      BY <1>2, <1>4, <1>5, <3>1, <3>2, HookedIs
  <2>2. CASE c \notin Attached
    BY <2>2, <1>2, <1>3, <1>4 DEF Hooked
  <2> QED
    BY <2>1, <2>2
<1>7. /\ queue' \in Queues /\ OnlyFirst(queue')
      /\ \A w \in Owners :
           /\ w # Global => (queue'[w] = <<>> <=> q[w] = <<>>)
           /\ w # Global /\ w \notin on => queue'[w] = q[w]
           /\ q[w] # <<>> =>
                /\ queue'[w] # <<>>
                /\ Head(queue'[w]) = IF w \in on THEN [Head(q[w]) EXCEPT !.state = "woken"]
                                     ELSE Head(q[w])
           /\ q[w] = <<>> /\ queue'[w] # <<>> => Head(queue'[w]).state = "new"
  BY <1>6 DEF Hooked
<1>9. ASSUME NEW w \in Owners, w # c
      PROVE  /\ Waiting(w)' <=> Waiting(w) /\ w \notin woken
             /\ Waiting(w)' => First(w)'.cmd = First(w).cmd
             /\ w # Global => /\ queue'[w] = <<>> <=> queue[w] = <<>>
                              /\ queue[w] # <<>> => First(w)'.cmd = First(w).cmd
             /\ w \notin {c, Global} \cup woken => queue'[w] = queue[w]
  <2>1. q[w] = queue[w] /\ (w \in woken <=> w \in on)
    BY <1>2, <1>9
  <2>2. CASE w \in on
    <3>1. Waiting(w) /\ queue[w] # <<>>
      BY <2>2, <1>8 DEF Waiting
    <3>2. Head(queue[w]) \in ItemSet
      BY <3>1, <1>1, TailNew
    <3>3. queue'[w] # <<>> /\ Head(queue'[w]) = [Head(queue[w]) EXCEPT !.state = "woken"]
      BY <2>1, <2>2, <3>1, <1>7
    <3>4. Head(queue'[w]).state = "woken" /\ Head(queue'[w]).cmd = Head(queue[w]).cmd
      BY <3>2, <3>3 DEF ItemSet
    <3> QED
      BY <2>1, <2>2, <3>1, <3>3, <3>4 DEF Waiting, First
  <2>3. CASE w \notin on
    BY <2>1, <2>3, <1>7 DEF Waiting, First
  <2> QED
    BY <2>2, <2>3
<1>10. queue'[c] = IF c \in jobs THEN queue[c] ELSE <<>>
  BY <1>1, <1>2, <1>7, <1>8
<1>11. /\ Waiting(c)' <=> Waiting(c) /\ c \notin woken
       /\ Waiting(c)' => First(c)'.cmd = First(c).cmd
  BY <1>8, <1>10 DEF Waiting, First
<1>12. ASSUME NEW w \in Owners
       PROVE  /\ Waiting(w)' <=> Waiting(w) /\ w \notin woken
              /\ Waiting(w)' => First(w)'.cmd = First(w).cmd
              /\ w \notin {c, Global} => /\ queue'[w] = <<>> <=> queue[w] = <<>>
                                         /\ queue[w] # <<>> => First(w)'.cmd = First(w).cmd
              /\ w \notin {c, Global} \cup woken => queue'[w] = queue[w]
  <2>1. CASE w = c
    BY <2>1, <1>11
  <2>2. CASE w # c
    BY <2>2, <1>9
  <2> QED
    BY <2>1, <2>2
<1> QED
  BY <1>7, <1>12 DEF Moves

LEMMA LostStep ==
  ASSUME IInv, NEW c \in Clients, Lost(c)
  PROVE  IInv'
<1>1. PICK on :
        /\ on \subseteq (IF c \in Attached THEN watching["detached"] \ {c} ELSE {})
        /\ c \in Attached =>
             queue' = Woken(HookQueued([queue EXCEPT ![c] = LostQueue(c)], "detached"), on)
        /\ \A e \in Events : watching'[e] = (watching[e] \ {c}) \ (IF e = "detached" THEN on ELSE {})
        /\ c \in Attached =>
             LET left == [e \in Events |-> watching[e] \ {c}]
             IN  watching' = [left EXCEPT !["detached"] = @ \ on]
  <2> DEFINE left == [e \in Events |-> watching[e] \ {c}]
  <2>0. "detached" \in Events /\ left["detached"] = watching["detached"] \ {c}
    BY DEF Events
  <2>1. CASE c \in Attached
    <3>1. PICK seen \in SUBSET left["detached"] :
            /\ queue' = Woken(HookQueued([queue EXCEPT ![c] = LostQueue(c)], "detached"), seen)
            /\ watching' = [left EXCEPT !["detached"] = @ \ seen]
      BY <2>1 DEF Lost
    <3>2. \A e \in Events :
            watching'[e] = (watching[e] \ {c}) \ (IF e = "detached" THEN seen ELSE {})
      BY <3>1
    <3> QED
      BY <2>0, <2>1, <3>1, <3>2
  <2>2. CASE c \notin Attached
    <3>1. watching' = left
      BY <2>2 DEF Lost
    <3>2. \A e \in Events :
            watching'[e] = (watching[e] \ {c}) \ (IF e = "detached" THEN {} ELSE {})
      BY <3>1
    <3> QED
      BY <2>2, <3>2
  <2> QED
    BY <2>1, <2>2
<1>2. PICK woken : woken = on \cup (IF c \in jobs THEN {} ELSE {c})
  OBVIOUS
<1>3. Moves({c, Global}, woken)
  BY <1>1, <1>2, LostMoves
<1>4. /\ ~running /\ c \in Live /\ clients' = Without(clients, c) /\ exiting' = exiting \ {c}
      /\ dead' = IF LostQueue(c) = <<>> THEN dead ELSE dead \cup {c}
      /\ channels' = [ch \in Channels |-> WithoutWaiter(channels[ch], c)]
      /\ UNCHANGED <<jobs, loop, history>>
  BY DEF Lost
<1>5. \A e \in Events :
        watching'[e] = (watching[e] \ {c}) \ (IF e = "detached" THEN on ELSE {})
  BY <1>1
<1>6. /\ clients \in Seq(Clients) /\ Injective(clients) /\ watching \in [Events -> SUBSET Owners]
      /\ c \in Owners /\ c # Global
  BY Constants DEF IInv, People, Watched, Owners
<1>7. People'
  <2>1. clients' \in Seq(Clients) /\ Injective(clients') /\ Live' = Live \ {c}
    BY <1>4, <1>6, WithoutIs DEF Live
  <2> QED
    BY <1>4, <2>1 DEF IInv, People
<1>8. ASSUME NEW ch \in Channels
      PROVE  /\ Good(channels'[ch]) /\ channels'[ch].waiters = channels[ch].waiters \ {c}
             /\ Range(channels'[ch].lockers) = Range(channels[ch].lockers) \ {c}
  <2> DEFINE w == channels[ch]
             y == [w EXCEPT !.waiters = @ \ {c}, !.lockers = Without(@, c)]
  <2>1. Good(w)
    BY DEF IInv, ChannelsGood
  <2>2. channels'[ch] = RemovedEmpty(y)
    BY <1>4 DEF WithoutWaiter
  <2> HIDE DEF w
  <2>3. w.lockers \in Seq(Owners) /\ Injective(w.lockers)
    BY <2>1 DEF Good
  <2>4. /\ Without(w.lockers, c) \in Seq(Owners) /\ Injective(Without(w.lockers, c))
        /\ Range(Without(w.lockers, c)) = Range(w.lockers) \ {c}
    BY <2>3, WithoutIs
  <2>5. /\ y.waiters = w.waiters \ {c} /\ y.lockers = Without(w.lockers, c)
        /\ y.here = w.here /\ y.locked = w.locked /\ y.woken = w.woken
    BY <2>1 DEF Good
  <2>6. w.lockers = <<>> => Without(w.lockers, c) = <<>>
    BY DEF Without, Range
  <2>7. ~w.here => y = NoChannel
    <3> SUFFICES ASSUME w = NoChannel PROVE y = NoChannel
      BY <2>1 DEF Good
    <3>1. w.lockers = <<>> /\ w.waiters = {}
      BY DEF NoChannel
    <3>2. w.waiters \ {c} = {} /\ Without(w.lockers, c) = <<>>
      BY <3>1, <2>6
    <3> DEFINE waiters == w.waiters \ {c}
               lockers == Without(w.lockers, c)
    <3>3. y = [w EXCEPT !.waiters = waiters, !.lockers = lockers]
      OBVIOUS
    <3>4. waiters = {} /\ lockers = <<>>
      BY <3>2
    <3> HIDE DEF y, waiters, lockers
    <3>5. y = [w EXCEPT !.waiters = {}, !.lockers = <<>>]
      BY <3>3, <3>4
    <3> QED
      BY <3>5 DEF NoChannel
  <2>8. Good(y)
    <3>1. y \in [here : BOOLEAN, locked : BOOLEAN, woken : BOOLEAN,
                 waiters : SUBSET Owners, lockers : Seq(Owners)]
      BY <2>1, <2>4 DEF Good
    <3> HIDE DEF y
    <3> QED
      BY <2>1, <2>4, <2>5, <2>6, <2>7, <3>1 DEF Good
  <2> HIDE DEF y
  <2>9. /\ Good(RemovedEmpty(y)) /\ RemovedEmpty(y).waiters = y.waiters
        /\ RemovedEmpty(y).lockers = y.lockers
    BY <2>8, RemovedGood
  <2> QED
    BY <2>2, <2>4, <2>5, <2>9 DEF w
<1>9. ChannelsGood'
  BY <1>4, <1>8 DEF ChannelsGood
<1>10. Watched'
  <2>1. watching' \in [Events -> SUBSET Owners]
    <3>1. CASE c \in Attached
      <4> DEFINE left == [e \in Events |-> watching[e] \ {c}]
      <4>1. left \in [Events -> SUBSET Owners] /\ watching' = [left EXCEPT !["detached"] = @ \ on]
        BY <3>1, <1>1, <1>6
      <4> HIDE DEF left
      <4> QED
        BY <4>1
    <3>2. CASE c \notin Attached
      BY <3>2, <1>6 DEF Lost
    <3> QED
      BY <3>1, <3>2
  <2> QED
    BY <2>1, <1>4 DEF IInv, Watched
<1>11. \A o \in Owners : o \in on => c \in Attached /\ o \in watching["detached"] /\ o # c
  BY <1>1
<1>12. "detached" \in Events
  BY DEF Events
<1>13. Unlisted(woken)
  <2>1. ASSUME NEW o \in Owners
        PROVE  o \in woken <=>
                 \/ o \in on
                 \/ o = c /\ c \notin jobs
    BY <1>2
  <2>2. /\ c \in jobs =>
             /\ \A ch \in Channels : c \notin channels[ch].waiters
                                       /\ c \notin Range(channels[ch].lockers)
             /\ \A e \in Events : c \notin watching[e]
    BY <1>6, OneList DEF IInv
  <2>3. ASSUME NEW o \in Owners, o \in watching["detached"]
        PROVE  /\ \A ch \in Channels : o \notin channels[ch].waiters
                                         /\ o \notin Range(channels[ch].lockers)
               /\ \A e \in Events : o \in watching[e] => e = "detached"
               /\ o \notin jobs
    BY <1>12, <2>3, OneList DEF IInv
  <2>4. ASSUME NEW ch \in Channels, NEW o \in Owners
        PROVE  /\ o \in channels'[ch].waiters <=> o \in channels[ch].waiters /\ o \notin woken
               /\ o \in Range(channels'[ch].lockers) <=>
                    o \in Range(channels[ch].lockers) /\ o \notin woken
    BY <1>8, <1>11, <2>1, <2>2, <2>3
  <2>5. ASSUME NEW e \in Events, NEW o \in Owners
        PROVE  o \in watching'[e] <=> o \in watching[e] /\ o \notin woken
    BY <1>5, <1>11, <1>12, <2>1, <2>2, <2>3
  <2>6. ASSUME NEW o \in Owners
        PROVE  o \in jobs' <=> o \in jobs /\ o \notin woken
    BY <1>4, <1>11, <2>1, <2>3
  <2> QED
    BY <2>4, <2>5, <2>6 DEF Unlisted
<1>14. WaitersListed'
  BY <1>3, <1>13, ListsFollow DEF IInv
<1>15. Queued'
  BY <1>3 DEF Moves, Queued
<1>16. DeadOnlyForJobs'
  <2> SUFFICES ASSUME NEW d \in dead'
               PROVE  queue'[d] # <<>> /\ First(d)'.cmd.op \in {"job", "if"}
    BY DEF DeadOnlyForJobs
  <2>1. CASE d \in dead
    <3>1. d \in Owners /\ d \notin {c, Global}
      BY <2>1, <1>4, Constants DEF IInv, People, Owners
    <3>2. queue[d] # <<>> /\ First(d).cmd.op \in {"job", "if"}
      BY <2>1 DEF IInv, DeadOnlyForJobs
    <3> QED
      BY <1>3, <3>1, <3>2 DEF Moves
  <2>2. CASE d \notin dead
    <3>1. d = c /\ LostQueue(c) # <<>>
      BY <2>2, <1>4
    <3>2. c \in jobs
      BY <3>1 DEF LostQueue
    <3>3. c \in jobs'
      BY <3>2, <1>4
    <3>4. Waiting(c)' /\ First(c)'.cmd.op \in {"job", "if"}
      BY <1>6, <1>14, <3>3 DEF WaitersListed
    <3> QED
      BY <3>1, <3>4 DEF Waiting
  <2> QED
    BY <2>1, <2>2
<1>17. Looping' /\ PassedIdle'
  BY <1>4, Outside
<1>18. Counted'
  BY <1>4 DEF IInv, Counted, history
<1> QED
  BY <1>7, <1>9, <1>10, <1>14, <1>15, <1>16, <1>17, <1>18 DEF IInv

-----------------------------------------------------------------------------
LEMMA RunItemStep ==
  ASSUME IInv, NEW o \in Owners, RunItem(o)
  PROVE  IInv'
<1>1. CASE Signal(o)
  BY <1>1, SignalStep
<1>2. CASE Wait(o)
  BY <1>2, WaitStep
<1>3. CASE Lock(o)
  BY <1>3, LockStep
<1>4. CASE Unlock(o)
  BY <1>4, UnlockStep
<1>5. CASE Wake(o)
  BY <1>5, WakeStep
<1>6. CASE WaitEvent(o)
  BY <1>6, WaitEventStep
<1>7. CASE Shell(o)
  BY <1>7, ShellStep
<1>8. CASE Plain(o)
  BY <1>8, PlainStep
<1>9. CASE Fail(o)
  BY <1>9, FailStep
<1>10. CASE CommandDone(o)
  BY <1>10, CommandDoneStep
<1>11. CASE Continued(o)
  BY <1>11, ContinuedStep
<1>12. CASE Rouse(o)
  BY <1>12, RouseStep
<1> QED
  BY <1>1, <1>2, <1>3, <1>4, <1>5, <1>6, <1>7, <1>8, <1>9, <1>10, <1>11, <1>12 DEF RunItem

LEMMA StepHolds == IInv /\ [Next]_vars => IInv'
<1> SUFFICES ASSUME IInv, [Next]_vars PROVE IInv'
  OBVIOUS
<1>1. CASE LoopStart \/ LoopAgain
  <2>1. /\ running' = TRUE /\ ran' = FALSE /\ turn' = <<Global>> \o clients
        /\ UNCHANGED <<people, queue, channels, watching, jobs, history>>
    BY <1>1 DEF LoopStart, LoopAgain, IInv, Looping
  <2> QED
    BY <2>1, PassStep
<1>2. CASE NextQueue
  BY <1>2, NextQueueStep
<1>3. CASE LoopEnd
  BY <1>3, LoopEndStep
<1>4. CASE LoopFlush
  BY <1>4, LoopFlushStep
<1>5. CASE \E o \in Owners : RunItem(o)
  BY <1>5, RunItemStep
<1>6. CASE \E c \in Clients : Connect(c)
  BY <1>6, ConnectStep
<1>7. CASE \E c \in Clients : Lost(c)
  BY <1>7, LostStep
<1>8. CASE \E c \in Clients, cmds \in Lines : Request(c, cmds)
  BY <1>8, RequestStep
<1>9. CASE \E o \in Owners, succeeded \in BOOLEAN : JobDone(o, succeeded)
  BY <1>9, JobDoneStep
<1>10. CASE UNCHANGED vars
  <2>1. Live' = Live
    BY <1>10 DEF vars, Live
  <2>2. People' /\ Queued' /\ ChannelsGood' /\ Watched' /\ Counted'
    BY <1>10, <2>1 DEF vars, IInv, People, Queued, OnlyFirst, ChannelsGood, Watched, Counted
  <2>3. Looping' /\ PassedIdle' /\ DeadOnlyForJobs'
    BY <1>10, <2>1 DEF vars, IInv, Looping, PassedIdle, DeadOnlyForJobs, Ready, First
  <2>4. WaitersListed'
    BY <1>10 DEF vars, IInv, WaitersListed, Waiting, First
  <2> QED
    BY <2>2, <2>3, <2>4 DEF IInv
<1> QED
  BY <1>1, <1>2, <1>3, <1>4, <1>5, <1>6, <1>7, <1>8, <1>9, <1>10 DEF Next, ServerLoop

THEOREM Invariance == Spec => []IInv
<1> QED
  BY InitHolds, StepHolds, PTL DEF Spec

\* Every variable keeps its type, for any clients and any command lines.
THEOREM TypeCorrect == Spec => []TypeOK
<1>1. IInv => TypeOK
  BY TypesHold
<1> QED
  BY Invariance, <1>1, PTL

\* Every queue that waits is on the list its item belongs on, and nothing else
\* is on a list; a channel that is freed had no lockers; a lost client is only
\* kept for a shell job (cmd-wait-for.c, server_client_lost).
THEOREM NoWaitIsLost == Spec => []NoWaitLost
<1>1. IInv => NoWaitLost
  BY TypesHold DEF IInv, NoWaitLost
<1> QED
  BY Invariance, <1>1, PTL

\* A queue has an item that could run when server_loop has ended only if it waited
\* when the passes were over and the end of the loop let it go on, or if it is the
\* global one, was empty and has got the hook of a window's event (server_loop,
\* server_client_loop, cmd_wait_for_flush).
THEOREM NothingLeft == Spec => LoopLeavesNothing
<1>1. IInv /\ [Next]_vars =>
        [running /\ ~running' =>
           \A o \in Live \cup {Global} :
             Ready(o)' => \/ Waiting(o)
                          \/ o = Global /\ queue[o] = <<>> /\ First(o)'.nohooks]_vars
  <2> SUFFICES ASSUME IInv, Next, running, ~running', NEW o \in Live \cup {Global}, Ready(o)'
               PROVE  Waiting(o) \/ (o = Global /\ queue[o] = <<>> /\ First(o)'.nohooks)
    OBVIOUS
  <2>1. LoopEnd \/ LoopFlush
    <3>1. CASE LoopEnd \/ LoopFlush
      BY <3>1
    <3>2. CASE LoopStart \/ LoopAgain \/ NextQueue
      BY <3>2 DEF LoopStart, LoopAgain, NextQueue
    <3>3. CASE \E w \in Owners : RunItem(w)
      <4>1. PICK w \in Owners : RunItem(w)
        BY <3>3
      <4>2. CASE Signal(w) \/ Wait(w) \/ Lock(w)
        BY <4>2 DEF Signal, Wait, Lock, Normal, Waits
      <4>3. CASE Unlock(w) \/ Wake(w) \/ CommandDone(w)
        BY <4>3 DEF Unlock, Wake, CommandDone, Normal
      <4>4. CASE WaitEvent(w) \/ Rouse(w) \/ Shell(w)
        BY <4>4 DEF WaitEvent, Rouse, Shell, Normal, Waits
      <4>5. CASE Plain(w) \/ Fail(w)
        BY <4>5 DEF Plain, Fail, Normal, Errors
      <4>6. CASE Continued(w)
        BY <4>6 DEF Continued, loop
      <4> QED
        BY <4>1, <4>2, <4>3, <4>4, <4>5, <4>6 DEF RunItem
    <3>4. CASE \E c \in Clients : \/ Connect(c) \/ Lost(c)
                                  \/ \E cmds \in Lines : Request(c, cmds)
      BY <3>4 DEF Connect, Lost, Request
    <3>5. CASE \E w \in Owners, succeeded \in BOOLEAN : JobDone(w, succeeded)
      BY <3>5 DEF JobDone
    <3> QED
      BY <3>1, <3>2, <3>3, <3>4, <3>5 DEF Next, ServerLoop
  <2>2. turn = <<>> /\ ~ran /\ Range(turn) = {}
    BY <2>1 DEF Range, LoopEnd, LoopFlush
  <2>3. ~Ready(o)
    BY <2>2 DEF IInv, PassedIdle
  <2>4. /\ queue \in Queues /\ OnlyFirst(queue) /\ "resized" \in Events
        /\ o \in Owners /\ clients \in Seq(Clients)
    BY DEF IInv, Queued, Events, Owners, People, Live, Range
  <2>5. PICK r, on : /\ r = queue \/ r = HookQueued(queue, "resized")
                     /\ \A w \in Owners : w \in on => Waiting(w)
                     /\ queue' = Woken(r, on)
    <3>1. CASE LoopEnd
      <4>1. CASE UNCHANGED queue
        <5>1. queue' = Woken(queue, {})
          BY <2>4, <4>1 DEF Woken, Queues
        <5> QED
          BY <5>1
      <4>2. CASE ~UNCHANGED queue
        <5>1. PICK on \in SUBSET watching["resized"] :
                queue' = Woken(HookQueued(queue, "resized"), on)
          BY <3>1, <4>2 DEF LoopEnd, CheckWindows
        <5>2. \A w \in Owners : w \in on => Waiting(w)
          BY <2>4, OneList DEF IInv
        <5> QED
          BY <5>1, <5>2
      <4> QED
        BY <4>1, <4>2
    <3>2. CASE LoopFlush
      <4> DEFINE all == UNION ({channels[ch].waiters \cup Range(channels[ch].lockers) :
                                  ch \in Channels}
                                 \cup {watching[e] : e \in Events})
      <4>1. queue' = Woken(queue, all) \/ queue' = Woken(HookQueued(queue, "resized"), all)
        BY <3>2 DEF LoopFlush
      <4>2. \A w : w \in all =>
              \/ \E ch \in Channels : w \in channels[ch].waiters \cup Range(channels[ch].lockers)
              \/ \E e \in Events : w \in watching[e]
        OBVIOUS
      <4> HIDE DEF all
      <4>3. \A w \in Owners : w \in all => Waiting(w)
        BY <4>2, OneList DEF IInv
      <4> QED
        BY <4>1, <4>3
    <3> QED
      BY <2>1, <3>1, <3>2
  <2> QED
    BY <2>3, <2>4, <2>5, HookedMoves
<1> QED
  BY Invariance, <1>1, PTL DEF Spec, LoopLeavesNothing

-----------------------------------------------------------------------------
(* The order of a queue, and the locks a line has taken.                   *)

UnlockOf(x, ch) == x.cmd = [op |-> "unlock", ch |-> ch]
LockOf(x, ch) == x.cmd = [op |-> "lock", ch |-> ch]

\* What comes first was asked for first, or comes from it.
Sorted(s) == \A i, k \in 1..Len(s) : i < k => s[i].line <= s[k].line

\* Only what a request brings has a group of its own, and only that unlocks.
Grouped(s) ==
  \A i \in 1..Len(s) :
    /\ s[i].line >= 6
    /\ s[i].group < 6 \/ s[i].group = s[i].line
    /\ \A ch \in Channels : UnlockOf(s[i], ch) => s[i].group = s[i].line

\* Between two unlocks of a line is a lock.
Paired(s) ==
  \A ch \in Channels : \A i, k \in 1..Len(s) :
    i < k /\ UnlockOf(s[i], ch) /\ UnlockOf(s[k], ch) /\ s[i].group = s[k].group =>
      \E j \in i..k : LockOf(s[j], ch) /\ s[j].group = s[k].group

\* An unlock whose lock has left the queue.
Owed(s, i, ch) ==
  UnlockOf(s[i], ch) /\ \A j \in 1..i : LockOf(s[j], ch) => s[j].group # s[i].group

\* Only the line that is on is past a lock.
Started(s) ==
  \A ch \in Channels : \A i \in 1..Len(s) : Owed(s, i, ch) => s[i].line = s[1].line

Owes(s, ch) == \E i \in 1..Len(s) : Owed(s, i, ch)

SameItem(x, y) == x.cmd = y.cmd /\ x.group = y.group /\ x.line = y.line

\* Nothing but states changes.
SameShape(s, t) ==
  Len(t) = Len(s) /\ \A i \in 1..Len(s) : SameItem(t[i], s[i])

\* Item i of t is item m[i] of s, or one of a hook or of if-shell that the first
\* item of s brought; a group is dropped as a whole.
Passes(s, t, m) ==
  /\ \A i \in 1..Len(t) : m[i] # 0 => SameItem(t[i], s[m[i]])
  /\ \A i \in 1..Len(t) : m[i] = 0 =>
       /\ s # <<>> /\ t[i].line = s[1].line /\ t[i].group \in 1..5
       /\ OwnLocks => \A ch \in Channels : ~UnlockOf(t[i], ch)
       /\ \A k \in 1..i : m[k] \in 0..1
  /\ \A i, k \in 1..Len(t) : i < k /\ m[k] # 0 => m[i] < m[k]
  /\ \A j \in 2..Len(s) :
       \/ \E i \in 1..Len(t) : m[i] = j
       \/ \A i \in 1..Len(t) : m[i] # 0 => s[m[i]].group # s[j].group

Follows(s, t) == \E m \in [1..Len(t) -> 0..Len(s)] : Passes(s, t, m)

\* A line comes behind everything that is there.
Appended(s, t) ==
  /\ Len(s) <= Len(t) /\ \A i \in 1..Len(s) : SameItem(t[i], s[i])
  /\ \A i \in (Len(s) + 1)..Len(t) :
       /\ t[i].line = NextLine(s) /\ (t[i].group < 6 \/ t[i].group = NextLine(s))
       /\ OwnLocks => \A ch \in Channels : UnlockOf(t[i], ch) =>
            /\ t[i].group = NextLine(s)
            /\ \E j \in (Len(s) + 1)..(i - 1) :
                 /\ LockOf(t[j], ch) /\ t[j].group = t[i].group
                 /\ \A k \in (j + 1)..(i - 1) : ~UnlockOf(t[k], ch)

LEMMA NotBoth ==
  ASSUME NEW x, NEW ch, LockOf(x, ch)
  PROVE  ~UnlockOf(x, ch)
<1>1. "lock" # "unlock"
  OBVIOUS
<1> QED
  BY <1>1 DEF LockOf, UnlockOf

LEMMA SameLocks ==
  ASSUME NEW x, NEW y, SameItem(x, y), NEW ch
  PROVE  /\ LockOf(x, ch) <=> LockOf(y, ch)
         /\ UnlockOf(x, ch) <=> UnlockOf(y, ch)
         /\ x.group = y.group /\ x.line = y.line
  BY DEF SameItem, LockOf, UnlockOf

LEMMA ItemTypes ==
  ASSUME NEW s \in Seq(ItemSet), NEW i \in 1..Len(s)
  PROVE  s[i] \in ItemSet /\ s[i].line \in Nat /\ s[i].group \in Nat /\ s[i].cmd \in Commands
<1>1. s[i] \in ItemSet
  OBVIOUS
<1> QED
  BY <1>1 DEF ItemSet

LEMMA PassesSorted ==
  ASSUME NEW s \in Seq(ItemSet), NEW t \in Seq(ItemSet), NEW m \in [1..Len(t) -> 0..Len(s)],
         Passes(s, t, m), Sorted(s)
  PROVE  Sorted(t)
<1> SUFFICES ASSUME NEW i \in 1..Len(t), NEW k \in 1..Len(t), i < k
             PROVE  t[i].line <= t[k].line
  BY DEF Sorted
<1>0. Len(s) \in Nat /\ m[i] \in 0..Len(s) /\ m[k] \in 0..Len(s)
  OBVIOUS
<1>1. CASE m[k] = 0
  <2>1. t[k].line = s[1].line /\ s # <<>> /\ m[i] \in 0..1
    <3>1. i \in 1..k
      OBVIOUS
    <3> QED
      BY <1>1, <3>1 DEF Passes
  <2>2. t[i].line = s[1].line
    <3>1. CASE m[i] = 0
      BY <3>1 DEF Passes
    <3>2. CASE m[i] = 1
      BY <3>2 DEF Passes, SameItem
    <3> QED
      BY <2>1, <3>1, <3>2
  <2> QED
    BY <2>1, <2>2, ItemTypes
<1>2. CASE m[k] # 0
  <2>1. t[k].line = s[m[k]].line /\ m[i] < m[k] /\ m[k] \in 1..Len(s)
    BY <1>0, <1>2 DEF Passes, SameItem
  <2>2. CASE m[i] = 0
    <3>1. t[i].line = s[1].line /\ 1 \in 1..Len(s)
      BY <2>1, <2>2 DEF Passes
    <3>2. s[1].line <= s[m[k]].line
      <4>1. CASE m[k] = 1
        BY <4>1, <3>1, ItemTypes
      <4>2. CASE m[k] # 1
        BY <4>2, <2>1, <3>1 DEF Sorted
      <4> QED
        BY <4>1, <4>2
    <3> QED
      BY <2>1, <3>1, <3>2
  <2>3. CASE m[i] # 0
    <3>1. t[i].line = s[m[i]].line /\ m[i] \in 1..Len(s)
      BY <1>0, <2>3 DEF Passes, SameItem
    <3>2. s[m[i]].line <= s[m[k]].line
      BY <2>1, <3>1 DEF Sorted
    <3> QED
      BY <2>1, <3>1, <3>2
  <2> QED
    BY <2>2, <2>3
<1> QED
  BY <1>1, <1>2

LEMMA PassesGrouped ==
  ASSUME OwnLocks, NEW s \in Seq(ItemSet), NEW t \in Seq(ItemSet),
         NEW m \in [1..Len(t) -> 0..Len(s)], Passes(s, t, m), Grouped(s)
  PROVE  Grouped(t)
<1> SUFFICES ASSUME NEW i \in 1..Len(t)
             PROVE  /\ t[i].line >= 6
                    /\ t[i].group < 6 \/ t[i].group = t[i].line
                    /\ \A ch \in Channels : UnlockOf(t[i], ch) => t[i].group = t[i].line
  BY DEF Grouped
<1>0. Len(s) \in Nat /\ m[i] \in 0..Len(s)
  OBVIOUS
<1>1. CASE m[i] = 0
  <2>1. /\ s # <<>> /\ t[i].line = s[1].line /\ t[i].group \in 1..5
        /\ \A ch \in Channels : ~UnlockOf(t[i], ch)
    BY <1>1 DEF Passes
  <2>2. 1 \in 1..Len(s)
    BY <2>1
  <2>3. s[1].line >= 6
    BY <2>2 DEF Grouped
  <2> QED
    BY <2>1, <2>3
<1>2. CASE m[i] # 0
  <2>1. SameItem(t[i], s[m[i]]) /\ m[i] \in 1..Len(s)
    BY <1>0, <1>2 DEF Passes
  <2>2. /\ s[m[i]].line >= 6
        /\ s[m[i]].group < 6 \/ s[m[i]].group = s[m[i]].line
        /\ \A ch \in Channels : UnlockOf(s[m[i]], ch) => s[m[i]].group = s[m[i]].line
    BY <2>1 DEF Grouped
  <2> QED
    BY <2>1, <2>2 DEF SameItem, UnlockOf
<1> QED
  BY <1>1, <1>2

LEMMA PassesPaired ==
  ASSUME OwnLocks, NEW s \in Seq(ItemSet), NEW t \in Seq(ItemSet),
         NEW m \in [1..Len(t) -> 0..Len(s)], Passes(s, t, m), Paired(s)
  PROVE  Paired(t)
<1> SUFFICES ASSUME NEW ch \in Channels, NEW i \in 1..Len(t), NEW k \in 1..Len(t), i < k,
                    UnlockOf(t[i], ch), UnlockOf(t[k], ch), t[i].group = t[k].group
             PROVE  \E j \in i..k : LockOf(t[j], ch) /\ t[j].group = t[k].group
  BY DEF Paired
<1>0. Len(s) \in Nat /\ m[i] \in 0..Len(s) /\ m[k] \in 0..Len(s)
  OBVIOUS
<1>1. m[i] \in 1..Len(s) /\ m[k] \in 1..Len(s) /\ m[i] < m[k]
  BY <1>0 DEF Passes
<1>2. SameItem(t[i], s[m[i]]) /\ SameItem(t[k], s[m[k]])
  BY <1>1 DEF Passes
<1>3. /\ UnlockOf(s[m[i]], ch) /\ UnlockOf(s[m[k]], ch)
      /\ s[m[i]].group = s[m[k]].group /\ t[k].group = s[m[k]].group
  BY <1>2, SameLocks
<1>4. PICK j \in m[i]..m[k] : LockOf(s[j], ch) /\ s[j].group = s[m[k]].group
  BY <1>1, <1>3 DEF Paired
<1>5. j # m[i] /\ j # m[k]
  BY <1>3, <1>4, NotBoth
<1>6. j \in 2..Len(s) /\ m[i] < j /\ j < m[k]
  BY <1>1, <1>5
<1>7. PICK n \in 1..Len(t) : m[n] = j
  BY <1>1, <1>4, <1>6 DEF Passes
<1>8. SameItem(t[n], s[j])
  BY <1>6, <1>7 DEF Passes
<1>9. n \in i..k
  <2>1. ~(n < i)
    BY <1>1, <1>6, <1>7 DEF Passes
  <2>2. ~(k < n)
    BY <1>1, <1>6, <1>7 DEF Passes
  <2> QED
    BY <2>1, <2>2
<1> QED
  BY <1>3, <1>4, <1>8, <1>9, SameLocks

LEMMA PassesOwed ==
  ASSUME OwnLocks, NEW s \in Seq(ItemSet), NEW t \in Seq(ItemSet),
         NEW m \in [1..Len(t) -> 0..Len(s)], Passes(s, t, m),
         NEW ch \in Channels, NEW i \in 1..Len(t), Owed(t, i, ch)
  PROVE  /\ m[i] \in 1..Len(s) /\ SameItem(t[i], s[m[i]]) /\ UnlockOf(s[m[i]], ch)
         /\ \/ Owed(s, m[i], ch)
            \/ LockOf(s[1], ch) /\ s[1].group = s[m[i]].group
<1>0. Len(s) \in Nat /\ m[i] \in 0..Len(s)
  OBVIOUS
<1>1. m[i] \in 1..Len(s) /\ SameItem(t[i], s[m[i]])
  BY <1>0 DEF Passes, Owed
<1>2. UnlockOf(s[m[i]], ch) /\ s[m[i]].group = t[i].group
  BY <1>1, SameLocks DEF Owed
<1>3. ASSUME NEW j \in 1..m[i], LockOf(s[j], ch), s[j].group = s[m[i]].group
      PROVE  j = 1
  <2> SUFFICES ASSUME j # 1 PROVE FALSE
    OBVIOUS
  <2>1. j \in 2..Len(s) /\ j < m[i]
    <3>1. j # m[i]
      BY <1>2, <1>3, NotBoth
    <3> QED
      BY <1>1, <3>1
  <2>2. PICK n \in 1..Len(t) : m[n] = j
    BY <1>1, <1>3, <2>1 DEF Passes
  <2>3. SameItem(t[n], s[j])
    BY <2>1, <2>2 DEF Passes
  <2>4. n \in 1..i
    <3>1. ~(i < n)
      BY <2>1, <2>2, <1>1 DEF Passes
    <3> QED
      BY <3>1
  <2> QED
    BY <1>2, <1>3, <2>3, <2>4, SameLocks DEF Owed
<1> QED
  BY <1>1, <1>2, <1>3 DEF Owed

LEMMA PassesStarted ==
  ASSUME OwnLocks, NEW s \in Seq(ItemSet), NEW t \in Seq(ItemSet),
         NEW m \in [1..Len(t) -> 0..Len(s)], Passes(s, t, m),
         Sorted(s), Grouped(s), Started(s)
  PROVE  Started(t)
<1> SUFFICES ASSUME NEW ch \in Channels, NEW i \in 1..Len(t), Owed(t, i, ch)
             PROVE  t[i].line = t[1].line
  BY DEF Started
<1>1. /\ m[i] \in 1..Len(s) /\ SameItem(t[i], s[m[i]]) /\ UnlockOf(s[m[i]], ch)
      /\ Owed(s, m[i], ch) \/ (LockOf(s[1], ch) /\ s[1].group = s[m[i]].group)
  BY PassesOwed
<1>2. 1 \in 1..Len(s) /\ 1 \in 1..Len(t) /\ m[1] \in 0..Len(s)
  BY <1>1
<1>3. s[m[i]].line = s[1].line
  <2>1. CASE Owed(s, m[i], ch)
    BY <2>1, <1>1 DEF Started
  <2>2. CASE s[1].group = s[m[i]].group
    <3>1. s[m[i]].group = s[m[i]].line /\ s[m[i]].line >= 6
      BY <1>1 DEF Grouped
    <3>2. s[1].group < 6 \/ s[1].group = s[1].line
      BY <1>2 DEF Grouped
    <3>3. s[m[i]].line \in Nat
      BY <1>1, ItemTypes
    <3> QED
      BY <2>2, <3>1, <3>2, <3>3
  <2> QED
    BY <1>1, <2>1, <2>2
<1>4. t[1].line = s[1].line
  <2>1. CASE m[1] = 0
    BY <2>1, <1>2 DEF Passes
  <2>2. CASE m[1] # 0
    <3>1. t[1].line = s[m[1]].line /\ m[1] \in 1..Len(s)
      BY <2>2, <1>2 DEF Passes, SameItem
    <3>2. m[1] <= m[i]
      BY <1>1, <1>2 DEF Passes
    <3>3. /\ s[1].line <= s[m[1]].line /\ s[m[1]].line <= s[m[i]].line
      <4>1. \A a, b \in 1..Len(s) : a <= b => s[a].line <= s[b].line
        BY ItemTypes DEF Sorted
      <4> QED
        BY <4>1, <1>1, <1>2, <3>1, <3>2
    <3>4. s[1].line \in Nat /\ s[m[1]].line \in Nat
      BY <1>2, <3>1, ItemTypes
    <3> QED
      BY <1>3, <3>1, <3>3, <3>4
  <2> QED
    BY <2>1, <2>2
<1> QED
  BY <1>1, <1>3, <1>4 DEF SameItem

LEMMA LastLine ==
  ASSUME NEW s \in Seq(ItemSet), Sorted(s), NEW i \in 1..Len(s)
  PROVE  s[i].line < NextLine(s) /\ NextLine(s) \in Nat
<1>1. s # <<>> /\ Len(s) \in 1..Len(s) /\ NextLine(s) = s[Len(s)].line + 1
  BY DEF NextLine, Last
<1>2. s[i].line <= s[Len(s)].line
  BY <1>1, ItemTypes DEF Sorted
<1> QED
  BY <1>1, <1>2, ItemTypes

LEMMA AppendedSorted ==
  ASSUME NEW s \in Seq(ItemSet), NEW t \in Seq(ItemSet), Appended(s, t), Sorted(s)
  PROVE  Sorted(t)
<1> SUFFICES ASSUME NEW i \in 1..Len(t), NEW k \in 1..Len(t), i < k
             PROVE  t[i].line <= t[k].line
  BY DEF Sorted
<1>0. Len(s) \in Nat /\ NextLine(s) \in Nat
  BY NextLineType
<1>1. CASE k <= Len(s)
  <2>1. i \in 1..Len(s) /\ k \in 1..Len(s)
    BY <1>0, <1>1
  <2>2. t[i].line = s[i].line /\ t[k].line = s[k].line
    BY <2>1 DEF Appended, SameItem
  <2>3. s[i].line <= s[k].line
    BY <2>1 DEF Sorted
  <2> QED
    BY <2>2, <2>3
<1>2. CASE ~(k <= Len(s))
  <2>1. k \in (Len(s) + 1)..Len(t) /\ t[k].line = NextLine(s)
    BY <1>0, <1>2 DEF Appended
  <2>2. CASE i <= Len(s)
    <3>1. i \in 1..Len(s) /\ t[i].line = s[i].line
      BY <2>2, <1>0 DEF Appended, SameItem
    <3>2. s[i].line < NextLine(s) /\ s[i].line \in Nat
      BY <3>1, LastLine, ItemTypes
    <3> QED
      BY <2>1, <3>1, <3>2, <1>0
  <2>3. CASE ~(i <= Len(s))
    <3>1. i \in (Len(s) + 1)..Len(t)
      BY <2>3, <1>0
    <3>2. t[i].line = NextLine(s)
      BY <3>1 DEF Appended
    <3> QED
      BY <2>1, <3>2, <1>0
  <2> QED
    BY <2>2, <2>3
<1> QED
  BY <1>1, <1>2

LEMMA AppendedGrouped ==
  ASSUME OwnLocks, NEW s \in Seq(ItemSet), NEW t \in Seq(ItemSet), Appended(s, t),
         Grouped(s)
  PROVE  Grouped(t)
<1> SUFFICES ASSUME NEW i \in 1..Len(t)
             PROVE  /\ t[i].line >= 6
                    /\ t[i].group < 6 \/ t[i].group = t[i].line
                    /\ \A ch \in Channels : UnlockOf(t[i], ch) => t[i].group = t[i].line
  BY DEF Grouped
<1>0. Len(s) \in Nat
  OBVIOUS
<1>1. CASE i <= Len(s)
  <2>1. i \in 1..Len(s) /\ SameItem(t[i], s[i])
    BY <1>0, <1>1 DEF Appended
  <2>2. /\ s[i].line >= 6
        /\ s[i].group < 6 \/ s[i].group = s[i].line
        /\ \A ch \in Channels : UnlockOf(s[i], ch) => s[i].group = s[i].line
    BY <2>1 DEF Grouped
  <2> QED
    BY <2>1, <2>2 DEF SameItem, UnlockOf
<1>2. CASE ~(i <= Len(s))
  <2>1. i \in (Len(s) + 1)..Len(t)
    BY <1>0, <1>2
  <2>2. /\ t[i].line = NextLine(s) /\ (t[i].group < 6 \/ t[i].group = NextLine(s))
        /\ \A ch \in Channels : UnlockOf(t[i], ch) => t[i].group = NextLine(s)
    BY <2>1 DEF Appended
  <2>3. NextLine(s) >= 6
    <3>1. CASE s = <<>>
      BY <3>1 DEF NextLine
    <3>2. CASE s # <<>>
      <4>1. Len(s) \in 1..Len(s) /\ NextLine(s) = s[Len(s)].line + 1
        BY <3>2, <1>0 DEF NextLine, Last
      <4>2. s[Len(s)].line >= 6 /\ s[Len(s)].line \in Nat
        BY <4>1, ItemTypes DEF Grouped
      <4> QED
        BY <4>1, <4>2
    <3> QED
      BY <3>1, <3>2
  <2> QED
    BY <2>2, <2>3
<1> QED
  BY <1>1, <1>2

LEMMA AppendedPaired ==
  ASSUME OwnLocks, NEW s \in Seq(ItemSet), NEW t \in Seq(ItemSet), Appended(s, t),
         Sorted(s), Grouped(s), Paired(s)
  PROVE  Paired(t)
<1> SUFFICES ASSUME NEW ch \in Channels, NEW i \in 1..Len(t), NEW k \in 1..Len(t), i < k,
                    UnlockOf(t[i], ch), UnlockOf(t[k], ch), t[i].group = t[k].group
             PROVE  \E j \in i..k : LockOf(t[j], ch) /\ t[j].group = t[k].group
  BY DEF Paired
<1>0. Len(s) \in Nat
  OBVIOUS
<1>1. CASE k <= Len(s)
  <2>1. i \in 1..Len(s) /\ k \in 1..Len(s) /\ \A n \in 1..Len(s) : SameItem(t[n], s[n])
    BY <1>0, <1>1 DEF Appended
  <2>2. UnlockOf(s[i], ch) /\ UnlockOf(s[k], ch) /\ s[i].group = s[k].group
    BY <2>1, SameLocks
  <2>3. PICK j \in i..k : LockOf(s[j], ch) /\ s[j].group = s[k].group
    BY <2>1, <2>2 DEF Paired
  <2>4. j \in 1..Len(s)
    BY <2>1
  <2>5. LockOf(t[j], ch) /\ t[j].group = t[k].group
    BY <2>1, <2>3, <2>4, SameLocks
  <2> QED
    BY <2>5
<1>2. CASE ~(k <= Len(s))
  <2>1. k \in (Len(s) + 1)..Len(t)
    BY <1>0, <1>2
  <2>2. /\ t[k].group = NextLine(s)
        /\ \E j \in (Len(s) + 1)..(k - 1) :
             /\ LockOf(t[j], ch) /\ t[j].group = t[k].group
             /\ \A n \in (j + 1)..(k - 1) : ~UnlockOf(t[n], ch)
    BY <2>1 DEF Appended
  <2>3. CASE i <= Len(s)
    <3>1. i \in 1..Len(s) /\ SameItem(t[i], s[i])
      BY <1>0, <2>3 DEF Appended
    <3>2. s[i].group = s[i].line /\ s[i].line < NextLine(s) /\ s[i].line \in Nat /\ NextLine(s) \in Nat
      BY <3>1, LastLine, ItemTypes, SameLocks DEF Grouped
    <3> QED
      BY <2>2, <3>1, <3>2 DEF SameItem
  <2>4. CASE ~(i <= Len(s))
    <3>1. PICK j \in (Len(s) + 1)..(k - 1) :
             /\ LockOf(t[j], ch) /\ t[j].group = t[k].group
             /\ \A n \in (j + 1)..(k - 1) : ~UnlockOf(t[n], ch)
      BY <2>2
    <3>2. ~(j < i)
      <4> SUFFICES ASSUME j < i PROVE FALSE
        OBVIOUS
      <4>1. i \in (j + 1)..(k - 1)
        BY <1>0
      <4> QED
        BY <4>1, <3>1
    <3>3. j \in i..k
      BY <3>2, <1>0
    <3> QED
      BY <3>1, <3>3
  <2> QED
    BY <2>3, <2>4
<1> QED
  BY <1>1, <1>2

LEMMA AppendedOwed ==
  ASSUME OwnLocks, NEW s \in Seq(ItemSet), NEW t \in Seq(ItemSet), Appended(s, t),
         NEW ch \in Channels, NEW i \in 1..Len(t), Owed(t, i, ch)
  PROVE  i \in 1..Len(s) /\ Owed(s, i, ch)
<1>0. Len(s) \in Nat
  OBVIOUS
<1>1. i \in 1..Len(s)
  <2> SUFFICES ASSUME ~(i <= Len(s)) PROVE FALSE
    BY <1>0
  <2>1. i \in (Len(s) + 1)..Len(t)
    BY <1>0
  <2>2. PICK j \in (Len(s) + 1)..(i - 1) : LockOf(t[j], ch) /\ t[j].group = t[i].group
    BY <2>1 DEF Appended, Owed
  <2>3. j \in 1..i
    BY <1>0
  <2> QED
    BY <2>2, <2>3 DEF Owed
<1>2. \A n \in 1..i : SameItem(t[n], s[n])
  BY <1>0, <1>1 DEF Appended
<1>3. i \in 1..i
  OBVIOUS
<1> QED
  BY <1>1, <1>2, <1>3, SameLocks DEF Owed

LEMMA AppendedStarted ==
  ASSUME OwnLocks, NEW s \in Seq(ItemSet), NEW t \in Seq(ItemSet), Appended(s, t), Started(s)
  PROVE  Started(t)
<1> SUFFICES ASSUME NEW ch \in Channels, NEW i \in 1..Len(t), Owed(t, i, ch)
             PROVE  t[i].line = t[1].line
  BY DEF Started
<1>1. i \in 1..Len(s) /\ 1 \in 1..Len(s) /\ Owed(s, i, ch)
  BY AppendedOwed
<1>2. s[i].line = s[1].line
  BY <1>1 DEF Started
<1>3. t[i].line = s[i].line /\ t[1].line = s[1].line
  BY <1>1 DEF Appended, SameItem
<1> QED
  BY <1>2, <1>3

-----------------------------------------------------------------------------
(* What every step does to a queue. *)

Moved(s, t) == Follows(s, t) \/ Appended(s, t)

Tidy(s) == Sorted(s) /\ Grouped(s) /\ Paired(s) /\ Started(s)

LEMMA MovedSorted ==
  ASSUME NEW s \in Seq(ItemSet), NEW t \in Seq(ItemSet), Moved(s, t), Sorted(s)
  PROVE  Sorted(t)
  BY PassesSorted, AppendedSorted DEF Moved, Follows

LEMMA MovedTidy ==
  ASSUME OwnLocks, NEW s \in Seq(ItemSet), NEW t \in Seq(ItemSet), Moved(s, t), Tidy(s)
  PROVE  Tidy(t)
<1>1. CASE Follows(s, t)
  <2>1. PICK m \in [1..Len(t) -> 0..Len(s)] : Passes(s, t, m)
    BY <1>1 DEF Follows
  <2> QED
    BY <2>1, PassesSorted, PassesGrouped, PassesPaired, PassesStarted DEF Tidy
<1>2. CASE Appended(s, t)
  BY <1>2, AppendedSorted, AppendedGrouped, AppendedPaired, AppendedStarted DEF Tidy
<1> QED
  BY <1>1, <1>2 DEF Moved

\* A queue comes to owe an unlock only when the lock leaves it.
LEMMA MovedOwes ==
  ASSUME OwnLocks, NEW s \in Seq(ItemSet), NEW t \in Seq(ItemSet), Moved(s, t),
         NEW ch \in Channels, Owes(t, ch)
  PROVE  Owes(s, ch) \/ (s # <<>> /\ LockOf(s[1], ch))
<1>1. PICK i \in 1..Len(t) : Owed(t, i, ch)
  BY DEF Owes
<1>2. CASE Follows(s, t)
  <2>1. PICK m \in [1..Len(t) -> 0..Len(s)] : Passes(s, t, m)
    BY <1>2 DEF Follows
  <2>2. m[i] \in 1..Len(s) /\ (Owed(s, m[i], ch) \/ LockOf(s[1], ch))
    BY <1>1, <2>1, PassesOwed
  <2>3. s # <<>>
    BY <2>2
  <2> QED
    BY <2>2, <2>3 DEF Owes
<1>3. CASE Appended(s, t)
  BY <1>1, <1>3, AppendedOwed DEF Owes
<1> QED
  BY <1>2, <1>3 DEF Moved

\* An error takes what is left of the line along.
LEMMA DroppedOwes ==
  ASSUME OwnLocks, NEW s \in Seq(ItemSet), NEW t \in Seq(ItemSet),
         NEW m \in [1..Len(t) -> 0..Len(s)], Passes(s, t, m),
         \A i \in 1..Len(t) : m[i] # 0 => s[m[i]].group # s[1].group,
         NEW ch \in Channels, Owes(t, ch)
  PROVE  Owes(s, ch)
<1>1. PICK i \in 1..Len(t) : Owed(t, i, ch)
  BY DEF Owes
<1>2. m[i] \in 1..Len(s) /\ (Owed(s, m[i], ch) \/ s[1].group = s[m[i]].group)
  BY <1>1, PassesOwed
<1> QED
  BY <1>2 DEF Owes

\* A queue owes one unlock of a channel at most.
LEMMA OneOwed ==
  ASSUME NEW s \in Seq(ItemSet), Tidy(s), NEW ch \in Channels,
         NEW i \in 1..Len(s), NEW k \in 1..Len(s), Owed(s, i, ch), Owed(s, k, ch)
  PROVE  i = k
<1>1. ASSUME NEW a \in 1..Len(s), NEW b \in 1..Len(s), Owed(s, a, ch), Owed(s, b, ch), a < b
      PROVE  FALSE
  <2>1. s[a].line = s[1].line /\ s[b].line = s[1].line
    BY <1>1 DEF Tidy, Started
  <2>2. /\ UnlockOf(s[a], ch) /\ s[a].group = s[a].line
        /\ UnlockOf(s[b], ch) /\ s[b].group = s[b].line
    BY <1>1 DEF Tidy, Grouped, Owed
  <2>3. PICK j \in a..b : LockOf(s[j], ch) /\ s[j].group = s[b].group
    BY <1>1, <2>1, <2>2 DEF Tidy, Paired
  <2>4. j \in 1..b
    OBVIOUS
  <2> QED
    BY <1>1, <2>3, <2>4 DEF Owed
<1> QED
  BY <1>1

\* Who unlocks owed it, and owes nothing afterwards.
LEMMA UnlockOwes ==
  ASSUME OwnLocks, NEW s \in Seq(ItemSet), s # <<>>, Tidy(s), NEW ch \in Channels,
         UnlockOf(s[1], ch)
  PROVE  Owes(s, ch) /\ ~Owes(Tail(s), ch)
<1>1. /\ 1 \in 1..Len(s) /\ Len(Tail(s)) = Len(s) - 1 /\ Len(s) \in Nat
      /\ \A i \in 1..Len(s) - 1 : Tail(s)[i] = s[i + 1]
  BY HeadTail
<1>2. Owed(s, 1, ch)
  <2>1. \A j \in 1..1 : ~LockOf(s[j], ch)
    BY NotBoth
  <2> QED
    BY <2>1 DEF Owed
<1>3. ASSUME NEW i \in 1..Len(s) - 1, Owed(Tail(s), i, ch)
      PROVE  FALSE
  <2>1. i + 1 \in 1..Len(s) /\ i + 1 # 1 /\ s[i + 1] = Tail(s)[i]
    BY <1>1
  <2>2. ASSUME NEW j \in 1..(i + 1), LockOf(s[j], ch), s[j].group = s[i + 1].group
        PROVE  FALSE
    <3>1. j # 1
      BY <2>2, NotBoth
    <3>2. j - 1 \in 1..i /\ j - 1 \in 1..Len(s) - 1 /\ (j - 1) + 1 = j
      BY <3>1, <1>1
    <3>3. Tail(s)[j - 1] = s[j]
      BY <3>2, <1>1
    <3> QED
      BY <1>3, <2>1, <2>2, <3>2, <3>3 DEF Owed
  <2>3. Owed(s, i + 1, ch)
    BY <1>3, <2>1, <2>2 DEF Owed
  <2> QED
    BY <1>1, <1>2, <2>1, <2>3, OneOwed
<1> QED
  BY <1>1, <1>2, <1>3 DEF Owes

\* A hook's commands, or those of if-shell, on behalf of the first item.
Brought(s, items) ==
  \A i \in 1..Len(items) :
    /\ items[i].line = s[1].line /\ items[i].group \in 1..5
    /\ OwnLocks => \A ch \in Channels : ~UnlockOf(items[i], ch)

LEMMA SameAppended ==
  ASSUME NEW s \in Seq(ItemSet), NEW t \in Seq(ItemSet), SameShape(s, t)
  PROVE  Appended(s, t)
  BY DEF SameShape, Appended

LEMMA SelfSame ==
  ASSUME NEW s \in Seq(ItemSet)
  PROVE  SameShape(s, s)
  BY DEF SameShape, SameItem

LEMMA SameChain ==
  ASSUME NEW s \in Seq(ItemSet), NEW t \in Seq(ItemSet), NEW u \in Seq(ItemSet),
         SameShape(s, t), SameShape(t, u)
  PROVE  SameShape(s, u)
  BY DEF SameShape, SameItem

LEMMA FollowsSame ==
  ASSUME NEW s \in Seq(ItemSet), NEW t \in Seq(ItemSet), NEW u \in Seq(ItemSet),
         NEW m \in [1..Len(t) -> 0..Len(s)], Passes(s, t, m), SameShape(t, u)
  PROVE  m \in [1..Len(u) -> 0..Len(s)] /\ Passes(s, u, m)
<1>1. Len(u) = Len(t) /\ \A i \in 1..Len(u) : SameItem(u[i], t[i])
  BY DEF SameShape
<1>2. ASSUME NEW i \in 1..Len(u), m[i] # 0 PROVE SameItem(u[i], s[m[i]])
  BY <1>1, <1>2 DEF Passes, SameItem
<1>3. ASSUME NEW i \in 1..Len(u), m[i] = 0
      PROVE  /\ s # <<>> /\ u[i].line = s[1].line /\ u[i].group \in 1..5
             /\ OwnLocks => \A ch \in Channels : ~UnlockOf(u[i], ch)
             /\ \A k \in 1..i : m[k] \in 0..1
  <2>1. /\ s # <<>> /\ t[i].line = s[1].line /\ t[i].group \in 1..5
        /\ OwnLocks => \A ch \in Channels : ~UnlockOf(t[i], ch)
        /\ \A k \in 1..i : m[k] \in 0..1
    BY <1>1, <1>3 DEF Passes
  <2>2. SameItem(u[i], t[i])
    BY <1>1
  <2> QED
    BY <2>1, <2>2, SameLocks
<1>4. \A i, k \in 1..Len(u) : i < k /\ m[k] # 0 => m[i] < m[k]
  BY <1>1 DEF Passes
<1>5. \A j \in 2..Len(s) :
        \/ \E i \in 1..Len(u) : m[i] = j
        \/ \A i \in 1..Len(u) : m[i] # 0 => s[m[i]].group # s[j].group
  BY <1>1 DEF Passes
<1>6. m \in [1..Len(u) -> 0..Len(s)]
  BY <1>1
<1> QED
  BY <1>2, <1>3, <1>4, <1>5, <1>6 DEF Passes

LEMMA WokenSame ==
  ASSUME NEW q \in Queues, OnlyFirst(q), NEW who, NEW w \in Owners
  PROVE  SameShape(q[w], Woken(q, who)[w])
<1> DEFINE s == q[w]
           u == Woken(q, who)[w]
<1>1. /\ w \notin who \/ s = <<>> => u = s
      /\ w \in who /\ s # <<>> =>
           /\ u # <<>> /\ Head(u) = [Head(s) EXCEPT !.state = "woken"]
           /\ Tail(u) = Tail(s)
  BY WokenIs
<1>2. s \in Seq(ItemSet) /\ u \in Seq(ItemSet)
  BY WokenIs DEF Queues
<1> HIDE DEF s, u
<1>3. ASSUME w \in who, s # <<>> PROVE SameShape(s, u)
  <2>1. /\ Head(s) \in ItemSet /\ Head(s) = s[1] /\ Len(s) \in Nat \ {0}
        /\ Len(Tail(s)) = Len(s) - 1 /\ \A i \in 1..Len(s) - 1 : Tail(s)[i] = s[i + 1]
        /\ Head(u) = u[1] /\ Len(u) \in Nat \ {0}
        /\ Len(Tail(u)) = Len(u) - 1 /\ \A i \in 1..Len(u) - 1 : Tail(u)[i] = u[i + 1]
    BY <1>1, <1>2, <1>3, HeadTail
  <2>2. Len(u) = Len(s) /\ SameItem(u[1], s[1])
    <3>1. u[1] = [Head(s) EXCEPT !.state = "woken"] /\ Head(s) \in ItemSet /\ Head(s) = s[1]
      BY <2>1, <1>1, <1>3
    <3>2. SameItem(u[1], s[1])
      BY <3>1 DEF SameItem, ItemSet
    <3>3. Tail(u) = Tail(s)
      BY <1>1, <1>3
    <3>4. /\ Len(s) \in Nat /\ Len(u) \in Nat
          /\ Len(Tail(s)) = Len(s) - 1 /\ Len(Tail(u)) = Len(u) - 1
      BY <2>1
    <3>5. Len(u) = Len(s)
      BY <3>3, <3>4
    <3> QED
      BY <3>2, <3>5
  <2>3. ASSUME NEW i \in 1..Len(s), i # 1 PROVE SameItem(u[i], s[i])
    <3>1. i - 1 \in 1..Len(s) - 1 /\ (i - 1) + 1 = i
      BY <2>1, <2>3
    <3>2. u[i] = s[i]
      BY <3>1, <2>1, <2>2, <1>1, <1>3
    <3> QED
      BY <3>2 DEF SameItem
  <2> QED
    BY <2>2, <2>3 DEF SameShape
<1>4. ASSUME ~(w \in who /\ s # <<>>) PROVE SameShape(s, u)
  BY <1>1, <1>2, <1>4, SelfSame
<1>5. SameShape(s, u)
  BY <1>3, <1>4
<1> QED
  BY <1>5 DEF s, u

LEMMA EmptyFollows ==
  ASSUME NEW s \in Seq(ItemSet)
  PROVE  Follows(s, <<>>)
<1> DEFINE m == [i \in 1..0 |-> 0]
<1>1. m \in [1..Len(<<>>) -> 0..Len(s)] /\ Len(<<>>) = 0
  OBVIOUS
<1>2. Passes(s, <<>>, m)
  BY <1>1 DEF Passes
<1> QED
  BY <1>1, <1>2 DEF Follows

LEMMA FrontFollows ==
  ASSUME NEW s \in Seq(ItemSet), s # <<>>, NEW items \in Seq(ItemSet), Brought(s, items)
  PROVE  Follows(s, items \o Tail(s))
<1> DEFINE t == items \o Tail(s)
           n == Len(items)
           m == [i \in 1..Len(t) |-> IF i <= n THEN 0 ELSE i - n + 1]
<1>1. /\ Tail(s) \in Seq(ItemSet) /\ Len(Tail(s)) = Len(s) - 1 /\ Len(s) \in Nat \ {0} /\ n \in Nat
      /\ \A i \in 1..Len(s) - 1 : Tail(s)[i] = s[i + 1]
  BY HeadTail
<1>2. /\ Len(t) = n + Len(s) - 1
      /\ \A i \in 1..Len(t) : t[i] = IF i <= n THEN items[i] ELSE Tail(s)[i - n]
  BY <1>1, ConcatProperties
<1> HIDE DEF t, n
<1>3. \A i \in 1..Len(t) : i <= n => t[i] = items[i] /\ m[i] = 0 /\ i \in 1..n
  BY <1>1, <1>2
<1>4. \A i \in 1..Len(t) : ~(i <= n) => t[i] = s[m[i]] /\ m[i] = i - n + 1 /\ m[i] \in 2..Len(s)
  <2> SUFFICES ASSUME NEW i \in 1..Len(t), ~(i <= n)
               PROVE  t[i] = s[i - n + 1] /\ i - n + 1 \in 2..Len(s)
    OBVIOUS
  <2>1. i - n \in 1..Len(s) - 1 /\ (i - n) + 1 = i - n + 1
    BY <1>1, <1>2
  <2> QED
    BY <2>1, <1>1, <1>2
<1>5. m \in [1..Len(t) -> 0..Len(s)]
  BY <1>1, <1>2
<1> HIDE DEF m
<1>6. \A i \in 1..Len(t) : m[i] # 0 => SameItem(t[i], s[m[i]])
  BY <1>3, <1>4 DEF SameItem
<1>7. ASSUME NEW i \in 1..Len(t), m[i] = 0
      PROVE  /\ s # <<>> /\ t[i].line = s[1].line /\ t[i].group \in 1..5
             /\ OwnLocks => \A ch \in Channels : ~UnlockOf(t[i], ch)
             /\ \A k \in 1..i : m[k] \in 0..1
  <2>1. i <= n
    BY <1>4, <1>7
  <2>2. t[i] = items[i] /\ i \in 1..n
    BY <2>1, <1>3
  <2>3. \A k \in 1..i : k \in 1..Len(t) /\ k <= n
    BY <2>1, <1>1, <1>2
  <2> QED
    BY <2>2, <2>3, <1>3 DEF Brought, n
<1>8. \A i, k \in 1..Len(t) : i < k /\ m[k] # 0 => m[i] < m[k]
  <2> SUFFICES ASSUME NEW i \in 1..Len(t), NEW k \in 1..Len(t), i < k, m[k] # 0
               PROVE  m[i] < m[k]
    OBVIOUS
  <2>1. ~(k <= n)
    BY <1>3
  <2>2. m[k] = k - n + 1 /\ m[k] \in 2..Len(s)
    BY <2>1, <1>4
  <2>3. CASE i <= n
    BY <2>2, <2>3, <1>3, <1>1
  <2>4. CASE ~(i <= n)
    BY <2>2, <2>4, <1>4, <1>1
  <2> QED
    BY <2>3, <2>4
<1>9. \A j \in 2..Len(s) : \E i \in 1..Len(t) : m[i] = j
  <2> SUFFICES ASSUME NEW j \in 2..Len(s) PROVE \E i \in 1..Len(t) : m[i] = j
    OBVIOUS
  <2>1. j + n - 1 \in 1..Len(t) /\ ~(j + n - 1 <= n) /\ (j + n - 1) - n + 1 = j
    BY <1>1, <1>2
  <2> QED
    BY <2>1, <1>4
<1>10. Passes(s, t, m)
  BY <1>6, <1>7, <1>8, <1>9 DEF Passes
<1> QED
  BY <1>5, <1>10 DEF Follows, t

LEMMA BehindFollows ==
  ASSUME NEW s \in Seq(ItemSet), s # <<>>, NEW items \in Seq(ItemSet), Brought(s, items)
  PROVE  Follows(s, <<Head(s)>> \o (items \o Tail(s)))
<1> DEFINE v == items \o Tail(s)
           t == <<Head(s)>> \o v
           n == Len(items)
           m == [i \in 1..Len(t) |-> IF i = 1 THEN 1 ELSE IF i <= n + 1 THEN 0 ELSE i - n]
<1>1. /\ Tail(s) \in Seq(ItemSet) /\ Len(Tail(s)) = Len(s) - 1 /\ Len(s) \in Nat \ {0} /\ n \in Nat
      /\ \A i \in 1..Len(s) - 1 : Tail(s)[i] = s[i + 1]
      /\ Head(s) = s[1] /\ Head(s) \in ItemSet
  BY HeadTail
<1>2. /\ v \in Seq(ItemSet) /\ Len(v) = n + Len(s) - 1
      /\ \A i \in 1..Len(v) : v[i] = IF i <= n THEN items[i] ELSE Tail(s)[i - n]
  BY <1>1, ConcatProperties
<1> HIDE DEF v
<1>3. /\ Len(t) = Len(v) + 1 /\ t[1] = s[1] /\ \A i \in 2..Len(v) + 1 : t[i] = v[i - 1]
  <2>1. /\ Head(t) = Head(s) /\ t # <<>> /\ t \in Seq(ItemSet) /\ Len(t) = Len(v) + 1
        /\ \A i \in 2..Len(v) + 1 : t[i] = v[i - 1]
    BY <1>1, <1>2, ConsIs
  <2> HIDE DEF t
  <2> QED
    BY <2>1, <1>1, HeadTail
<1> HIDE DEF t, n
<1>4. \A i \in 1..Len(t) : i # 1 /\ i <= n + 1 =>
        t[i] = items[i - 1] /\ m[i] = 0 /\ i - 1 \in 1..n
  <2> SUFFICES ASSUME NEW i \in 1..Len(t), i # 1, i <= n + 1
               PROVE  t[i] = items[i - 1] /\ i - 1 \in 1..n
    OBVIOUS
  <2>1. i \in 2..Len(v) + 1 /\ i - 1 \in 1..Len(v) /\ i - 1 <= n /\ i - 1 \in 1..n
    BY <1>1, <1>2, <1>3
  <2> QED
    BY <2>1, <1>2, <1>3
<1>5. \A i \in 1..Len(t) : ~(i <= n + 1) => t[i] = s[m[i]] /\ m[i] = i - n /\ m[i] \in 2..Len(s) /\ i # 1
  <2> SUFFICES ASSUME NEW i \in 1..Len(t), ~(i <= n + 1)
               PROVE  t[i] = s[i - n] /\ i - n \in 2..Len(s) /\ i # 1
    BY <1>1
  <2>0. Len(s) \in Nat \ {0} /\ n \in Nat /\ Len(v) = n + Len(s) - 1 /\ i \in 1..Len(v) + 1
    BY <1>1, <1>2, <1>3
  <2>1. i \in 2..Len(v) + 1 /\ i - 1 \in 1..Len(v) /\ ~(i - 1 <= n) /\ i # 1
        /\ (i - 1) - n \in 1..Len(s) - 1 /\ ((i - 1) - n) + 1 = i - n
    BY <2>0
  <2>2. t[i] = v[i - 1] /\ v[i - 1] = Tail(s)[(i - 1) - n]
    <3>1. t[i] = v[i - 1]
      BY <2>1, <1>3
    <3>2. v[i - 1] = Tail(s)[(i - 1) - n]
      BY <2>1, <1>2
    <3> QED
      BY <3>1, <3>2
  <2>3. Tail(s)[(i - 1) - n] = s[i - n]
    <3>1. \A k \in 1..Len(s) - 1 : Tail(s)[k] = s[k + 1]
      BY <1>1
    <3> QED
      BY <2>1, <3>1
  <2>4. i - n \in 2..Len(s)
    BY <2>0, <2>1
  <2> QED
    BY <2>1, <2>2, <2>3, <2>4
<1>6. 1 \in 1..Len(t) /\ m[1] = 1 /\ 1 \in 1..Len(s)
  BY <1>1, <1>2, <1>3
<1>7. m \in [1..Len(t) -> 0..Len(s)]
  BY <1>1, <1>2, <1>3
<1> HIDE DEF m
<1>8. ASSUME NEW i \in 1..Len(t), m[i] # 0 PROVE SameItem(t[i], s[m[i]])
  <2>1. i = 1 \/ ~(i <= n + 1)
    BY <1>4, <1>8
  <2>2. t[i] = s[m[i]]
    BY <2>1, <1>3, <1>5, <1>6
  <2> QED
    BY <2>2 DEF SameItem
<1>9. ASSUME NEW i \in 1..Len(t), m[i] = 0
      PROVE  /\ s # <<>> /\ t[i].line = s[1].line /\ t[i].group \in 1..5
             /\ OwnLocks => \A ch \in Channels : ~UnlockOf(t[i], ch)
             /\ \A k \in 1..i : m[k] \in 0..1
  <2>1. i # 1 /\ i <= n + 1
    BY <1>5, <1>6, <1>9
  <2>2. t[i] = items[i - 1] /\ i - 1 \in 1..n
    BY <2>1, <1>4
  <2>3. \A k \in 1..i : k \in 1..Len(t) /\ k <= n + 1
    BY <2>1, <1>1, <1>2, <1>3
  <2>4. \A k \in 1..i : m[k] \in 0..1
    BY <2>3, <1>4, <1>6
  <2> QED
    BY <2>2, <2>4 DEF Brought, n
<1>10. \A i, k \in 1..Len(t) : i < k /\ m[k] # 0 => m[i] < m[k]
  <2> SUFFICES ASSUME NEW i \in 1..Len(t), NEW k \in 1..Len(t), i < k, m[k] # 0
               PROVE  m[i] < m[k]
    OBVIOUS
  <2>1. ~(k <= n + 1)
    BY <1>4
  <2>2. m[k] = k - n /\ m[k] \in 2..Len(s)
    BY <2>1, <1>5
  <2>3. CASE i <= n + 1
    BY <2>2, <2>3, <1>4, <1>6, <1>1
  <2>4. CASE ~(i <= n + 1)
    BY <2>2, <2>4, <1>5, <1>1
  <2> QED
    BY <2>3, <2>4
<1>11. \A j \in 2..Len(s) : \E i \in 1..Len(t) : m[i] = j
  <2> SUFFICES ASSUME NEW j \in 2..Len(s) PROVE \E i \in 1..Len(t) : m[i] = j
    OBVIOUS
  <2>1. j + n \in 1..Len(t) /\ ~(j + n <= n + 1) /\ (j + n) - n = j
    BY <1>1, <1>2, <1>3
  <2> QED
    BY <2>1, <1>5
<1>12. Passes(s, t, m)
  BY <1>8, <1>9, <1>10, <1>11 DEF Passes
<1> QED
  BY <1>7, <1>12 DEF Follows, t, v

\* What an error leaves, in order (cmdq_remove_group).
Keeps(s, n, kept) ==
  /\ kept \in [1..n -> {i \in 2..Len(s) : s[i].group # s[1].group}]
  /\ \A j \in 2..Len(s) : s[j].group # s[1].group => \E i \in 1..n : kept[i] = j
  /\ \A i, k \in 1..n : i < k => kept[i] < kept[k]

Left(s, items, n, kept) == items \o [i \in 1..n |-> s[kept[i]]]

LEMMA KeptFollows ==
  ASSUME NEW s \in Seq(ItemSet), s # <<>>, NEW items \in Seq(ItemSet), Brought(s, items),
         NEW n \in Nat, NEW kept, Keeps(s, n, kept)
  PROVE  \E m \in [1..Len(Left(s, items, n, kept)) -> 0..Len(s)] :
           /\ Passes(s, Left(s, items, n, kept), m)
           /\ \A i \in 1..Len(Left(s, items, n, kept)) :
                m[i] # 0 => s[m[i]].group # s[1].group
<1> DEFINE t == Left(s, items, n, kept)
           rest == [i \in 1..n |-> s[kept[i]]]
           h == Len(items)
           m == [i \in 1..Len(t) |-> IF i <= h THEN 0 ELSE kept[i - h]]
<1>0. Len(s) \in Nat \ {0} /\ h \in Nat
  BY HeadTail
<1>1. \A i \in 1..n : kept[i] \in 2..Len(s) /\ s[kept[i]].group # s[1].group
  BY DEF Keeps
<1>1a. /\ \A j \in 2..Len(s) : s[j].group # s[1].group => \E i \in 1..n : kept[i] = j
       /\ \A i, k \in 1..n : i < k => kept[i] < kept[k]
  BY DEF Keeps
<1>2. rest \in Seq(ItemSet) /\ Len(rest) = n /\ \A i \in 1..n : rest[i] = s[kept[i]]
  <2>1. \A i \in 1..n : s[kept[i]] \in ItemSet
    BY <1>0, <1>1
  <2>2. rest \in [1..n -> ItemSet]
    BY <2>1
  <2> QED
    BY <2>2, SeqDef
<1> HIDE DEF rest
<1>3. /\ Len(t) = h + n
      /\ \A i \in 1..h + n : t[i] = IF i <= h THEN items[i] ELSE rest[i - h]
  <2>1. t = items \o rest
    BY DEF rest, Left
  <2> HIDE DEF t
  <2> QED
    BY <2>1, <1>2, ConcatProperties
<1> HIDE DEF h, t
<1>4. \A i \in 1..Len(t) : i <= h => t[i] = items[i] /\ m[i] = 0 /\ i \in 1..h
  BY <1>0, <1>3
<1>5. \A i \in 1..Len(t) : ~(i <= h) =>
        i - h \in 1..n /\ t[i] = s[m[i]] /\ m[i] = kept[i - h] /\ m[i] \in 2..Len(s)
        /\ s[m[i]].group # s[1].group
  <2> SUFFICES ASSUME NEW i \in 1..Len(t), ~(i <= h)
               PROVE  /\ i - h \in 1..n /\ t[i] = s[kept[i - h]] /\ kept[i - h] \in 2..Len(s)
                      /\ s[kept[i - h]].group # s[1].group
    OBVIOUS
  <2>1. i - h \in 1..n
    BY <1>0, <1>3
  <2> QED
    BY <2>1, <1>1, <1>2, <1>3
<1>6. m \in [1..Len(t) -> 0..Len(s)]
  <2> SUFFICES ASSUME NEW i \in 1..Len(t) PROVE (IF i <= h THEN 0 ELSE kept[i - h]) \in 0..Len(s)
    OBVIOUS
  <2>1. CASE i <= h
    BY <2>1, <1>0
  <2>2. CASE ~(i <= h)
    <3>1. i - h \in 1..n
      BY <2>2, <1>5
    <3> QED
      BY <2>2, <3>1, <1>0, <1>1
  <2> QED
    BY <2>1, <2>2
<1> HIDE DEF m
<1>7. \A i \in 1..Len(t) : m[i] # 0 => SameItem(t[i], s[m[i]]) /\ s[m[i]].group # s[1].group
  BY <1>4, <1>5 DEF SameItem
<1>8. ASSUME NEW i \in 1..Len(t), m[i] = 0
      PROVE  /\ s # <<>> /\ t[i].line = s[1].line /\ t[i].group \in 1..5
             /\ OwnLocks => \A ch \in Channels : ~UnlockOf(t[i], ch)
             /\ \A k \in 1..i : m[k] \in 0..1
  <2>1. i <= h
    <3> SUFFICES ASSUME ~(i <= h) PROVE FALSE
      OBVIOUS
    <3>1. m[i] \in 2..Len(s)
      BY <1>5
    <3> QED
      BY <3>1, <1>0, <1>8
  <2>2. t[i] = items[i] /\ i \in 1..h
    BY <2>1, <1>4
  <2>3. \A k \in 1..i : k \in 1..Len(t) /\ k <= h
    BY <2>1, <1>0, <1>3
  <2>4. \A k \in 1..i : m[k] \in 0..1
    <3>1. \A k \in 1..i : m[k] = 0
      BY <2>3, <1>4, Zenon
    <3> QED
      BY <3>1
  <2> QED
    BY <2>2, <2>4 DEF Brought, h
<1>9. \A i, k \in 1..Len(t) : i < k /\ m[k] # 0 => m[i] < m[k]
  <2> SUFFICES ASSUME NEW i \in 1..Len(t), NEW k \in 1..Len(t), i < k, m[k] # 0
               PROVE  m[i] < m[k]
    OBVIOUS
  <2>1. ~(k <= h)
    BY <1>4
  <2>2. m[k] = kept[k - h] /\ m[k] \in 2..Len(s) /\ k - h \in 1..n
    BY <2>1, <1>5
  <2>3. CASE i <= h
    <3>1. m[i] = 0
      BY <2>3, <1>4
    <3> QED
      BY <2>2, <3>1, <1>0
  <2>4. CASE ~(i <= h)
    <3>1. m[i] = kept[i - h] /\ i - h \in 1..n
      BY <2>4, <1>5
    <3>2. i - h < k - h
      BY <1>0
    <3> QED
      BY <2>2, <3>1, <3>2, <1>1a
  <2> QED
    BY <2>3, <2>4
<1>10. ASSUME NEW j \in 2..Len(s)
       PROVE  \/ \E i \in 1..Len(t) : m[i] = j
              \/ \A i \in 1..Len(t) : m[i] # 0 => s[m[i]].group # s[j].group
  <2>1. CASE s[j].group = s[1].group
    BY <2>1, <1>7
  <2>2. CASE s[j].group # s[1].group
    <3>1. PICK i \in 1..n : kept[i] = j
      BY <2>2, <1>1a
    <3>2. i + h \in 1..Len(t) /\ ~(i + h <= h) /\ (i + h) - h = i
      BY <1>0, <1>3
    <3> QED
      BY <3>1, <3>2, <1>5
  <2> QED
    BY <2>1, <2>2
<1>11. Passes(s, t, m)
  BY <1>7, <1>8, <1>9, <1>10 DEF Passes
<1> QED
  BY <1>6, <1>7, <1>11 DEF t

\* The lock of the channel has passed to the queue, which has not gone on yet.
Enters(s, ch) == s # <<>> /\ Head(s).state = "woken" /\ LockOf(Head(s), ch)

\* The items of a command line.
Line(t, cmds, group, line) ==
  /\ t \in Seq(ItemSet) /\ AllNew(t) /\ Len(t) = Len(cmds) /\ Len(cmds) \in Nat
  /\ \A i \in 1..Len(cmds) : t[i].cmd = cmds[i] /\ t[i].group = group /\ t[i].line = line

LEMMA ItemsAre ==
  ASSUME NEW cmds \in Seq(Commands), NEW group \in Nat, NEW line \in Nat,
         NEW nohooks \in BOOLEAN
  PROVE  Line(Items(cmds, group, line, nohooks), cmds, group, line)
<1> DEFINE s == Items(cmds, group, line, nohooks)
<1>1. DOMAIN cmds = 1..Len(cmds) /\ Len(cmds) \in Nat
  OBVIOUS
<1>2. s \in Seq(ItemSet) /\ AllNew(s)
  BY ItemsAreNew
<1>3. \A i \in 1..Len(cmds) : s[i] = Item(cmds[i], group, line, nohooks)
  BY <1>1 DEF Items
<1>4. Len(s) = Len(cmds)
  <2>1. DOMAIN s = 1..Len(cmds)
    BY <1>1 DEF Items
  <2>2. DOMAIN s = 1..Len(s) /\ Len(s) \in Nat
    BY <1>2
  <2> QED
    BY <2>1, <2>2, <1>1
<1> HIDE DEF s
<1>5. ASSUME NEW i \in 1..Len(cmds)
      PROVE  s[i].cmd = cmds[i] /\ s[i].group = group /\ s[i].line = line
  <2>1. s[i] = Item(cmds[i], group, line, nohooks)
    BY <1>3
  <2> QED
    BY <2>1 DEF Item
<1>6. Line(s, cmds, group, line)
  BY <1>1, <1>2, <1>4, <1>5 DEF Line
<1> QED
  BY <1>6 DEF s

LEMMA ItemsBrought ==
  ASSUME NEW s \in Seq(ItemSet), s # <<>>, NEW cmds \in Seq(Commands), NEW group \in 1..5,
         NEW nohooks \in BOOLEAN,
         OwnLocks => \A i \in 1..Len(cmds) : cmds[i].op # "unlock"
  PROVE  Brought(s, Items(cmds, group, Head(s).line, nohooks))
<1> DEFINE t == Items(cmds, group, Head(s).line, nohooks)
<1>1. Head(s) = s[1] /\ Head(s).line \in Nat /\ group \in Nat
  <2>1. Head(s) = s[1] /\ 1 \in 1..Len(s)
    BY HeadTail
  <2> QED
    BY <2>1, ItemTypes
<1>2. Line(t, cmds, group, Head(s).line)
  BY <1>1, ItemsAre
<1> HIDE DEF t
<1>3. ASSUME OwnLocks, NEW ch \in Channels, NEW i \in 1..Len(t) PROVE ~UnlockOf(t[i], ch)
  <2>1. t[i].cmd.op # "unlock"
    BY <1>2, <1>3 DEF Line
  <2> QED
    BY <2>1 DEF UnlockOf
<1>4. ASSUME NEW i \in 1..Len(t) PROVE t[i].line = s[1].line /\ t[i].group \in 1..5
  BY <1>1, <1>2 DEF Line
<1> QED
  BY <1>3, <1>4 DEF Brought, t

LEMMA HookBrought ==
  ASSUME NEW s \in Seq(ItemSet), s # <<>>, NEW e \in Events
  PROVE  /\ Brought(s, HookItems(e, Head(s)))
         /\ HookItems(e, Head(s)) \in Seq(ItemSet) /\ AllNew(HookItems(e, Head(s)))
<1>1. Hooks[e] \in Seq(Commands) /\ HookGroup[e] \in 1..5 /\ Head(s) \in ItemSet
  BY Constants, HeadTail DEF HookGroup, Events
<1>2. OwnLocks => \A i \in 1..Len(Hooks[e]) : Hooks[e][i].op # "unlock"
  BY DEF OwnLocks
<1>3. Brought(s, HookItems(e, Head(s)))
  BY <1>1, <1>2, ItemsBrought DEF HookItems
<1> QED
  BY <1>1, <1>3, HookItemsNew

LEMMA NothingBrought ==
  ASSUME NEW s
  PROVE  Brought(s, <<>>) /\ <<>> \in Seq(ItemSet) /\ AllNew(<<>>)
<1>1. Len(<<>>) = 0 /\ <<>> \in Seq(ItemSet)
  OBVIOUS
<1> QED
  BY <1>1 DEF Brought, AllNew

LEMMA NewEnters ==
  ASSUME NEW t \in Seq(ItemSet), AllNew(t), NEW ch
  PROVE  ~Enters(t, ch)
<1> SUFFICES ASSUME t # <<>> PROVE Head(t).state # "woken"
  BY DEF Enters
<1>1. Head(t) = t[1] /\ 1 \in 1..Len(t)
  BY HeadTail
<1>2. t[1].state = "new"
  BY <1>1 DEF AllNew
<1> QED
  BY <1>1, <1>2

-----------------------------------------------------------------------------
(* What the steps do to the queues: that of o moves, those of "woken" go on. *)
Pops(o, woken) ==
  /\ \A w \in Owners : w # o =>
       /\ SameShape(queue[w], queue'[w])
       /\ w \notin woken => queue'[w] = queue[w]
  /\ Follows(queue[o], queue'[o])
  /\ \A ch \in Channels : ~Enters(queue'[o], ch)

LEMMA WokenLeaves ==
  ASSUME NEW q \in Queues, OnlyFirst(q), NEW who
  PROVE  /\ Woken(q, who) \in Queues
         /\ \A w \in Owners : w \notin who => Woken(q, who)[w] = q[w]
<1>1. Woken(q, who) \in Queues
  BY WokenIs
<1>2. ASSUME NEW w \in Owners, w \notin who PROVE Woken(q, who)[w] = q[w]
  BY <1>2 DEF Woken
<1> QED
  BY <1>1, <1>2

LEMMA SetPops ==
  ASSUME queue \in Queues, OnlyFirst(queue), NEW o \in Owners,
         NEW items \in Seq(ItemSet), AllNew(items), NEW woken,
         queue' = Woken([queue EXCEPT ![o] = items], woken)
  PROVE  /\ SameShape(items, queue'[o]) /\ queue'[o] \in Seq(ItemSet)
         /\ \A w \in Owners : w # o =>
              /\ SameShape(queue[w], queue'[w])
              /\ w \notin woken => queue'[w] = queue[w]
         /\ o \notin woken => queue'[o] = items
<1> DEFINE q == [queue EXCEPT ![o] = items]
<1>1. q \in Queues /\ q[o] = items /\ \A w \in Owners : w # o => q[w] = queue[w]
  BY DEF Queues
<1>2. queue' = Woken(q, woken)
  OBVIOUS
<1> HIDE DEF q
<1>3. OnlyFirst(q)
  <2>1. \A w \in Owners : w # o => queue[w] = <<>> \/ AllNew(Tail(queue[w]))
    BY OnlyFirstIs
  <2>2. items # <<>> => AllNew(Tail(items))
    <3> SUFFICES ASSUME items # <<>> PROVE AllNew(Tail(items))
      OBVIOUS
    <3>1. /\ Len(Tail(items)) = Len(items) - 1 /\ Len(items) \in Nat \ {0}
          /\ \A i \in 1..Len(items) - 1 : Tail(items)[i] = items[i + 1]
      BY HeadTail
    <3>2. \A i \in 1..Len(items) - 1 : i + 1 \in 1..Len(items)
      BY <3>1
    <3> QED
      BY <3>1, <3>2 DEF AllNew
  <2>3. \A w \in Owners : q[w] = <<>> \/ AllNew(Tail(q[w]))
    BY <1>1, <2>1, <2>2
  <2> QED
    BY <1>1, <2>3, OnlyFirstIs
<1>4. \A w \in Owners : SameShape(q[w], Woken(q, woken)[w])
  BY <1>1, <1>3, WokenSame
<1>5. /\ Woken(q, woken) \in Queues
      /\ \A w \in Owners : w \notin woken => Woken(q, woken)[w] = q[w]
  BY <1>1, <1>3, WokenLeaves
<1> QED
  BY <1>1, <1>2, <1>4, <1>5 DEF Queues

LEMMA ReplacePops ==
  ASSUME queue \in Queues, OnlyFirst(queue), NEW o \in Owners, queue[o] # <<>>,
         NEW items \in Seq(ItemSet), AllNew(items), Brought(queue[o], items),
         NEW woken, o \notin woken, queue' = Replace(Woken(queue, woken), o, items)
  PROVE  Pops(o, woken) /\ queue'[o] = items \o Tail(queue[o])
<1> DEFINE r == Woken(queue, woken)
           t == items \o Tail(queue[o])
<1>1. /\ r \in Queues /\ r[o] = queue[o]
      /\ \A w \in Owners : w \notin woken => r[w] = queue[w]
  BY WokenLeaves
<1>2. \A w \in Owners : SameShape(queue[w], r[w])
  BY WokenSame
<1>3. queue' = [r EXCEPT ![o] = t]
  BY <1>1 DEF Replace
<1>4. t \in Seq(ItemSet) /\ AllNew(t)
  BY TailNew, ConcatNew
<1>5. Follows(queue[o], t)
  <2>1. queue[o] \in Seq(ItemSet)
    BY DEF Queues
  <2> QED
    BY <2>1, FrontFollows
<1> HIDE DEF r, t
<1>6. queue'[o] = t /\ \A w \in Owners : w # o => queue'[w] = r[w]
  BY <1>1, <1>3 DEF Queues
<1>7. \A ch \in Channels : ~Enters(queue'[o], ch)
  BY <1>4, <1>6, NewEnters
<1>8. \A w \in Owners : w # o =>
        /\ SameShape(queue[w], queue'[w])
        /\ w \notin woken => queue'[w] = queue[w]
  BY <1>1, <1>2, <1>6
<1> QED
  BY <1>5, <1>6, <1>7, <1>8 DEF Pops, t

LEMMA NormalPops ==
  ASSUME IInv, NEW o \in Owners, queue[o] # <<>>, NEW woken, o \notin woken, Normal(o, woken)
  PROVE  Pops(o, woken) /\ queue'[o] = Tail(queue[o])
<1>1. queue \in Queues /\ OnlyFirst(queue) /\ Tail(queue[o]) \in Seq(ItemSet)
  BY TailNew DEF IInv, Queued
<1>2. queue' = Replace(Woken(queue, woken), o, <<>>)
  BY DEF Normal
<1>3. Pops(o, woken) /\ queue'[o] = <<>> \o Tail(queue[o])
  BY <1>1, <1>2, NothingBrought, ReplacePops
<1> QED
  BY <1>1, <1>3

LEMMA ErrorsPops ==
  ASSUME IInv, NEW o \in Owners, queue[o] # <<>>, ~Waiting(o), Errors(o)
  PROVE  /\ \E woken \in SUBSET watching["error"] :
              Pops(o, woken) /\ watching' = [watching EXCEPT !["error"] = @ \ woken]
         /\ OwnLocks => \A ch \in Channels : Owes(queue'[o], ch) => Owes(queue[o], ch)
<1> DEFINE all == IF ~First(o).nohooks THEN watching["error"] ELSE {}
           hook == IF ~First(o).nohooks THEN HookItems("error", First(o)) ELSE <<>>
           s == queue[o]
<1>1. queue \in Queues /\ OnlyFirst(queue) /\ s \in Seq(ItemSet) /\ First(o) = Head(s)
      /\ Len(s) \in Nat \ {0} /\ Head(s) = s[1]
  BY HeadTail DEF First, Queues, IInv, Queued
<1>2. hook \in Seq(ItemSet) /\ AllNew(hook) /\ Brought(s, hook)
  <2>1. "error" \in Events
    BY DEF Events
  <2> QED
    BY <1>1, <2>1, HookBrought, NothingBrought
<1>3. PICK n \in 0..Len(queue[o]) : \E kept \in [1..n -> Others(o)] :
       /\ Range(kept) = Others(o) /\ \A i, k \in 1..n : i < k => kept[i] < kept[k]
       /\ LET q == [queue EXCEPT ![o] = hook \o [i \in 1..n |-> @[kept[i]]]]
          IN  \E seen \in SUBSET all :
                queue' = Woken(q, seen) /\ watching' = [watching EXCEPT !["error"] = @ \ seen]
  BY DEF Errors
<1>4. PICK kept \in [1..n -> Others(o)] :
       /\ Range(kept) = Others(o) /\ \A i, k \in 1..n : i < k => kept[i] < kept[k]
       /\ LET q == [queue EXCEPT ![o] = hook \o [i \in 1..n |-> queue[o][kept[i]]]]
          IN  \E seen \in SUBSET all :
                queue' = Woken(q, seen) /\ watching' = [watching EXCEPT !["error"] = @ \ seen]
  BY <1>3, <1>1 DEF Queues
<1> DEFINE rest == [i \in 1..n |-> s[kept[i]]]
           t == hook \o rest
<1>5. PICK woken \in SUBSET all :
        queue' = Woken([queue EXCEPT ![o] = t], woken)
        /\ watching' = [watching EXCEPT !["error"] = @ \ woken]
  BY <1>4
<1>6. woken \in SUBSET watching["error"]
  BY <1>5
<1>7. n \in Nat /\ Others(o) = {i \in 2..Len(s) : s[i].group # s[1].group}
  BY <1>1 DEF Others
<1>8. /\ kept \in [1..n -> {i \in 2..Len(s) : s[i].group # s[1].group}]
      /\ \A j \in 2..Len(s) : s[j].group # s[1].group => \E i \in 1..n : kept[i] = j
      /\ \A i, k \in 1..n : i < k => kept[i] < kept[k]
  BY <1>4, <1>7 DEF Range
<1> HIDE DEF hook, all
<1>8a. t = hook \o [i \in 1..n |-> s[kept[i]]]
  OBVIOUS
<1>9. PICK m \in [1..Len(t) -> 0..Len(s)] :
           Passes(s, t, m) /\ \A i \in 1..Len(t) : m[i] # 0 => s[m[i]].group # s[1].group
  <2> DEFINE tt == t  ss == s
  <2>1. /\ ss \in Seq(ItemSet) /\ ss # <<>> /\ Brought(ss, hook) /\ hook \in Seq(ItemSet)
        /\ tt = Left(ss, hook, n, kept) /\ n \in Nat
        /\ Keeps(ss, n, kept)
    BY <1>1, <1>2, <1>7, <1>8, <1>8a DEF Keeps, Left
  <2> HIDE DEF tt, ss
  <2>1a. /\ ss \in Seq(ItemSet) /\ ss # <<>> /\ Brought(ss, hook) /\ hook \in Seq(ItemSet)
         /\ n \in Nat /\ Keeps(ss, n, kept)
    BY <2>1
  <2>1b. \E m \in [1..Len(Left(ss, hook, n, kept)) -> 0..Len(ss)] :
           /\ Passes(ss, Left(ss, hook, n, kept), m)
           /\ \A i \in 1..Len(Left(ss, hook, n, kept)) :
                m[i] # 0 => ss[m[i]].group # ss[1].group
    BY ONLY <2>1a, KeptFollows
  <2>2. \E m \in [1..Len(tt) -> 0..Len(ss)] :
           Passes(ss, tt, m) /\ \A i \in 1..Len(tt) : m[i] # 0 => ss[m[i]].group # ss[1].group
    BY ONLY <2>1, <2>1b
  <2> QED
    BY <2>2 DEF tt, ss
<1>10. t \in Seq(ItemSet) /\ AllNew(t)
  <2>1. rest \in Seq(ItemSet) /\ AllNew(rest)
    <3>1. \A i \in 1..n : kept[i] \in 2..Len(s)
      BY <1>8
    <3>2. \A i \in 2..Len(s) : s[i] \in ItemSet /\ s[i].state = "new"
      BY <1>1 DEF OnlyFirst
    <3>3. rest \in [1..n -> ItemSet] /\ \A i \in 1..n : rest[i].state = "new"
      BY <3>1, <3>2
    <3>4. rest \in Seq(ItemSet) /\ Len(rest) = n
      BY <1>7, <3>3, SeqDef
    <3> HIDE DEF rest
    <3> QED
      BY <3>3, <3>4 DEF AllNew
  <2> HIDE DEF rest
  <2> QED
    BY <1>2, <2>1, ConcatNew
<1> HIDE DEF t
<1>11. /\ SameShape(t, queue'[o]) /\ queue'[o] \in Seq(ItemSet)
       /\ \A w \in Owners : w # o =>
              /\ SameShape(queue[w], queue'[w])
              /\ w \notin woken => queue'[w] = queue[w]
       /\ o \notin woken => queue'[o] = t
  BY <1>1, <1>5, <1>10, SetPops
<1>12. o \notin woken
  <2>1. "error" \in Events /\ \A w \in Owners : w \in watching["error"] => Waiting(w)
    BY OneList DEF IInv, Events
  <2> QED
    BY <2>1, <1>6
<1>13. queue'[o] = t /\ Follows(s, t) /\ \A ch \in Channels : ~Enters(queue'[o], ch)
  BY <1>9, <1>10, <1>11, <1>12, NewEnters DEF Follows
<1>14. Pops(o, woken)
  BY <1>11, <1>13 DEF Pops
<1>15. OwnLocks => \A ch \in Channels : Owes(queue'[o], ch) => Owes(queue[o], ch)
  BY <1>1, <1>9, <1>10, <1>13, DroppedOwes
<1> QED
  BY <1>5, <1>6, <1>14, <1>15

LEMMA WaitsSame ==
  ASSUME IInv, NEW o \in Owners, queue[o] # <<>>, Waits(o)
  PROVE  /\ SameShape(queue[o], queue'[o]) /\ \A w \in Owners : w # o => queue'[w] = queue[w]
         /\ \A ch \in Channels : ~Enters(queue'[o], ch)
<1> DEFINE s == queue[o]
           x == [s[1] EXCEPT !.state = "waiting"]
           t == [s EXCEPT ![1] = x]
<1>1. s \in Seq(ItemSet) /\ Len(s) \in Nat \ {0} /\ s[1] \in ItemSet /\ queue \in Queues
  BY HeadTail DEF Queues, IInv, Queued
<1>2. queue' = [queue EXCEPT ![o] = t]
  BY DEF Waits
<1>3. x \in ItemSet /\ x.state = "waiting" /\ SameItem(x, s[1])
  BY <1>1 DEF ItemSet, SameItem
<1>4. /\ t \in Seq(ItemSet) /\ Len(t) = Len(s) /\ t[1] = x
      /\ \A i \in 2..Len(s) : t[i] = s[i]
  BY <1>1, <1>3, ExceptSeq
<1> HIDE DEF t, x
<1>5. queue'[o] = t /\ \A w \in Owners : w # o => queue'[w] = queue[w]
  BY <1>2, <1>1 DEF Queues
<1>6. SameShape(s, t)
  <2>1. \A i \in 1..Len(s) : i = 1 \/ i \in 2..Len(s)
    BY <1>1
  <2>2. \A i \in 1..Len(s) : SameItem(t[i], s[i])
    BY <2>1, <1>3, <1>4 DEF SameItem
  <2> QED
    BY <2>2, <1>4 DEF SameShape
<1>7. Head(t).state # "woken"
  BY <1>1, <1>3, <1>4, HeadTail
<1> QED
  BY <1>5, <1>6, <1>7 DEF Enters

\* What is appended on behalf of a new line.
NewLine(line, new) ==
  \A i \in 1..Len(new) :
    /\ new[i].line = line /\ (new[i].group < 6 \/ new[i].group = line)
    /\ OwnLocks => \A ch \in Channels : UnlockOf(new[i], ch) =>
         /\ new[i].group = line
         /\ \E j \in 1..(i - 1) :
              /\ LockOf(new[j], ch) /\ new[j].group = new[i].group
              /\ \A k \in (j + 1)..(i - 1) : ~UnlockOf(new[k], ch)

LEMMA AppendIs ==
  ASSUME NEW s \in Seq(ItemSet), NEW new \in Seq(ItemSet), NewLine(NextLine(s), new)
  PROVE  Appended(s, s \o new)
<1> DEFINE t == s \o new
           line == NextLine(s)
           L == Len(s)
<1>1. /\ L \in Nat /\ Len(new) \in Nat /\ Len(t) = L + Len(new)
      /\ \A i \in 1..L + Len(new) : t[i] = IF i <= L THEN s[i] ELSE new[i - L]
  BY ConcatProperties
<1> HIDE DEF t, line
<1>2. \A i \in 1..L : SameItem(t[i], s[i])
  <2> SUFFICES ASSUME NEW i \in 1..L PROVE SameItem(t[i], s[i])
    OBVIOUS
  <2>1. t[i] = s[i]
    BY <1>1
  <2> QED
    BY <2>1 DEF SameItem
<1>3. \A i \in 1..Len(new) : i + L \in (L + 1)..Len(t) /\ t[i + L] = new[i]
  <2> SUFFICES ASSUME NEW i \in 1..Len(new)
               PROVE  i + L \in (L + 1)..Len(t) /\ t[i + L] = new[i]
    OBVIOUS
  <2>1. i + L \in 1..L + Len(new) /\ ~(i + L <= L) /\ (i + L) - L = i
    BY <1>1
  <2> QED
    BY <2>1, <1>1
<1>4. ASSUME NEW i \in (L + 1)..Len(t)
      PROVE  /\ t[i].line = line /\ (t[i].group < 6 \/ t[i].group = line)
             /\ OwnLocks => \A ch \in Channels : UnlockOf(t[i], ch) =>
                  /\ t[i].group = line
                  /\ \E j \in (L + 1)..(i - 1) :
                       /\ LockOf(t[j], ch) /\ t[j].group = t[i].group
                       /\ \A k \in (j + 1)..(i - 1) : ~UnlockOf(t[k], ch)
  <2> DEFINE n == i - L
  <2>1. n \in 1..Len(new) /\ n + L = i
    BY <1>1
  <2>2. t[i] = new[n]
    BY <2>1, <1>3
  <2>3. t[i].line = line /\ (t[i].group < 6 \/ t[i].group = line)
    BY <2>1, <2>2 DEF NewLine, line
  <2>4. ASSUME OwnLocks, NEW ch \in Channels, UnlockOf(t[i], ch)
        PROVE  /\ t[i].group = line
               /\ \E j \in (L + 1)..(i - 1) :
                    /\ LockOf(t[j], ch) /\ t[j].group = t[i].group
                    /\ \A k \in (j + 1)..(i - 1) : ~UnlockOf(t[k], ch)
    <3> HIDE DEF n
    <3>1. /\ new[n].group = line
          /\ \E j \in 1..(n - 1) :
               /\ LockOf(new[j], ch) /\ new[j].group = new[n].group
               /\ \A k \in (j + 1)..(n - 1) : ~UnlockOf(new[k], ch)
      BY <2>1, <2>2, <2>4 DEF NewLine, line
    <3>2. PICK j \in 1..(n - 1) :
               /\ LockOf(new[j], ch) /\ new[j].group = new[n].group
               /\ \A k \in (j + 1)..(n - 1) : ~UnlockOf(new[k], ch)
      BY <3>1
    <3>3. j + L \in (L + 1)..(i - 1) /\ j \in 1..Len(new)
      BY <2>1, <1>1
    <3>4. t[j + L] = new[j]
      BY <3>3, <1>3
    <3>5. ASSUME NEW k \in (j + L + 1)..(i - 1) PROVE ~UnlockOf(t[k], ch)
      <4>1. k - L \in (j + 1)..(n - 1) /\ k - L \in 1..Len(new) /\ (k - L) + L = k
        BY <2>1, <1>1
      <4>2. t[k] = new[k - L]
        BY <4>1, <1>3
      <4> QED
        BY <3>2, <4>1, <4>2
    <3> QED
      BY <2>2, <3>1, <3>2, <3>3, <3>4, <3>5
  <2> QED
    BY <2>3, <2>4
<1>5. L <= Len(t)
  BY <1>1
<1> QED
  BY <1>2, <1>4, <1>5 DEF Appended, t, line

LEMMA HookAppends ==
  ASSUME NEW r \in Queues, OnlyFirst(r), NEW e \in Events
  PROVE  /\ Appended(r[Global], HookQueued(r, e)[Global])
         /\ \A ch \in Channels : Enters(HookQueued(r, e)[Global], ch) => Enters(r[Global], ch)
         /\ HookQueued(r, e) \in Queues
         /\ \A w \in Owners : w # Global => HookQueued(r, e)[w] = r[w]
<1> DEFINE s == r[Global]
           hook == Items(Hooks[e], HookGroup[e], NextLine(s), TRUE)
           h == HookQueued(r, e)
<1>1. Global \in Owners /\ s \in Seq(ItemSet) /\ NextLine(s) \in Nat
      /\ Hooks[e] \in Seq(Commands) /\ HookGroup[e] \in 1..5 /\ HookGroup[e] \in Nat
  BY NextLineType, Constants DEF Owners, Queues, HookGroup, Events
<1>2. Line(hook, Hooks[e], HookGroup[e], NextLine(s))
  BY <1>1, ItemsAre
<1>3. h = r \/ h = [r EXCEPT ![Global] = s \o hook]
  BY DEF HookQueued
<1>4. /\ h \in Queues
      /\ \A w \in Owners : /\ w # Global => h[w] = r[w]
                           /\ r[w] # <<>> => Head(h[w]) = Head(r[w])
                           /\ r[w] = <<>> /\ h[w] # <<>> => Head(h[w]).state = "new"
  <2>1. /\ HookQueued(r, e) \in Queues /\ OnlyFirst(HookQueued(r, e))
        /\ \A w \in Owners :
              /\ w # Global => HookQueued(r, e)[w] = r[w]
              /\ r[w] # <<>> => /\ HookQueued(r, e)[w] # <<>>
                                /\ Head(HookQueued(r, e)[w]) = Head(r[w])
              /\ r[w] = <<>> /\ HookQueued(r, e)[w] # <<>> =>
                   Head(HookQueued(r, e)[w]).state = "new"
    BY HookQueuedIs
  <2> HIDE DEF h
  <2> QED
    BY <2>1 DEF h
<1>4a. /\ s # <<>> => Head(h[Global]) = Head(s)
       /\ s = <<>> /\ h[Global] # <<>> => Head(h[Global]).state = "new"
  <2> HIDE DEF h
  <2> QED
    BY <1>1, <1>4
<1>4b. h \in Queues /\ \A w \in Owners : w # Global => h[w] = r[w]
  <2> HIDE DEF h
  <2> QED
    BY <1>4
<1>5. h[Global] = s \/ h[Global] = s \o hook
  BY <1>1, <1>3 DEF Queues
<1> HIDE DEF hook, h, s
<1>6. NewLine(NextLine(s), hook)
  <2>1. ASSUME NEW i \in 1..Len(hook)
        PROVE  /\ hook[i].line = NextLine(s) /\ hook[i].group < 6
               /\ OwnLocks => \A ch \in Channels : ~UnlockOf(hook[i], ch)
    <3>1. hook[i].cmd = Hooks[e][i] /\ hook[i].group = HookGroup[e] /\ hook[i].line = NextLine(s)
          /\ i \in 1..Len(Hooks[e])
      BY <1>2 DEF Line
    <3>2. OwnLocks => Hooks[e][i].op # "unlock"
      BY <3>1 DEF OwnLocks
    <3>3. OwnLocks => \A ch \in Channels : ~UnlockOf(hook[i], ch)
      BY <3>1, <3>2 DEF UnlockOf
    <3> QED
      BY <3>1, <3>3, <1>1
  <2> QED
    BY <2>1 DEF NewLine
<1>7. Appended(s, h[Global])
  <2>1. CASE h[Global] = s
    BY <2>1, <1>1, SelfSame, SameAppended
  <2>2. CASE h[Global] = s \o hook
    BY <2>2, <1>1, <1>2, <1>6, AppendIs DEF Line
  <2> QED
    BY <1>5, <2>1, <2>2
<1>8. ASSUME NEW ch \in Channels, Enters(h[Global], ch) PROVE Enters(s, ch)
  <2>1. h[Global] # <<>> /\ Head(h[Global]).state = "woken" /\ LockOf(Head(h[Global]), ch)
    BY <1>8 DEF Enters
  <2>2. s # <<>>
    BY <2>1, <1>4a
  <2> QED
    BY <2>1, <2>2, <1>4a DEF Enters
<1>9. /\ Appended(s, h[Global]) /\ \A ch \in Channels : Enters(h[Global], ch) => Enters(s, ch)
      /\ h \in Queues /\ \A w \in Owners : w # Global => h[w] = r[w]
  BY <1>4b, <1>7, <1>8
<1> QED
  BY <1>9 DEF h, s

LEMMA RequestAppends ==
  ASSUME IInv, NEW c \in Clients, NEW cmds \in Lines, Request(c, cmds)
  PROVE  /\ Appended(queue[c], queue'[c])
         /\ \A ch \in Channels : Enters(queue'[c], ch) => Enters(queue[c], ch)
         /\ \A w \in Owners : w # c => queue'[w] = queue[w]
<1> DEFINE s == queue[c]
           line == NextLine(s)
           typed == Items(cmds, line, line, FALSE)
           done == IF c \in Attached THEN <<>> ELSE <<Item(Done, NoGroup, line, FALSE)>>
           new == typed \o done
           t == s \o new
<1>1. c \in Owners /\ queue \in Queues /\ s \in Seq(ItemSet) /\ line \in Nat /\ cmds \in Seq(Commands)
      /\ (s # <<>> => AllNew(Tail(s)))
  BY NextLineType, Constants, TailNew DEF Queues, Owners, IInv, Queued
<1>2. Line(typed, cmds, line, line)
  BY <1>1, ItemsAre
<1>3. /\ done \in Seq(ItemSet) /\ AllNew(done) /\ Len(done) \in {0, 1}
      /\ \A i \in 1..Len(done) :
           done[i].line = line /\ done[i].group = 0 /\ done[i].cmd.op = "done"
  <2> DEFINE x == Item(Done, NoGroup, line, FALSE)
  <2>1. x \in ItemSet /\ x.state = "new" /\ x.line = line /\ x.group = 0 /\ x.cmd.op = "done"
    BY <1>1 DEF Item, Done, NoGroup, ItemSet, Commands
  <2> HIDE DEF x, line
  <2>2. CASE c \in Attached
    BY <2>2, NothingBrought
  <2>3. CASE c \notin Attached
    <3>1. done = <<x>>
      BY <2>3 DEF x
    <3>2. <<x>> \in Seq(ItemSet) /\ Len(<<x>>) = 1 /\ <<x>>[1] = x /\ AllNew(<<x>>)
      BY <2>1, OneItem
    <3>3. \A i \in 1..1 : i = 1
      OBVIOUS
    <3> QED
      BY <2>1, <3>1, <3>2, <3>3
  <2> QED
    BY <2>2, <2>3
<1>4. queue' = [queue EXCEPT ![c] = t]
  <2>1. queue' = [queue EXCEPT ![c] = s \o typed \o done]
    BY DEF Request
  <2>2. s \in Seq(ItemSet) /\ typed \in Seq(ItemSet) /\ done \in Seq(ItemSet)
    BY <1>1, <1>2, <1>3 DEF Line
  <2> HIDE DEF typed, done, s
  <2>3. (s \o typed) \o done = s \o (typed \o done)
    BY <2>2, ConcatAssociative
  <2> QED
    BY <2>1, <2>3
<1> HIDE DEF typed, done
<1>5. new \in Seq(ItemSet) /\ AllNew(new)
  BY <1>2, <1>3, ConcatNew DEF Line
<1>6. /\ Len(new) = Len(cmds) + Len(done) /\ Len(cmds) \in Nat
      /\ \A i \in 1..Len(new) : new[i] = IF i <= Len(cmds) THEN typed[i] ELSE done[i - Len(cmds)]
  BY <1>2, <1>3, ConcatProperties DEF Line
<1> HIDE DEF new
<1>7. /\ \A i \in 1..Len(new) : i <= Len(cmds) =>
           /\ new[i].cmd = cmds[i] /\ new[i].group = line /\ new[i].line = line /\ i \in 1..Len(cmds)
      /\ \A i \in 1..Len(new) : ~(i <= Len(cmds)) =>
           new[i].cmd.op = "done" /\ new[i].group = 0 /\ new[i].line = line
  <2>1. ASSUME NEW i \in 1..Len(new), i <= Len(cmds)
        PROVE  new[i].cmd = cmds[i] /\ new[i].group = line /\ new[i].line = line /\ i \in 1..Len(cmds)
    <3>1. i \in 1..Len(cmds) /\ new[i] = typed[i]
      BY <2>1, <1>6
    <3> QED
      BY <3>1, <1>2 DEF Line
  <2>2. ASSUME NEW i \in 1..Len(new), ~(i <= Len(cmds))
        PROVE  new[i].cmd.op = "done" /\ new[i].group = 0 /\ new[i].line = line
    <3>1. i - Len(cmds) \in 1..Len(done) /\ new[i] = done[i - Len(cmds)]
      BY <2>2, <1>3, <1>6
    <3> QED
      BY <3>1, <1>3
  <2> QED
    BY <2>1, <2>2
<1> HIDE DEF line
<1>8. NewLine(line, new)
  <2>1. ASSUME NEW i \in 1..Len(new)
        PROVE  new[i].line = line /\ (new[i].group < 6 \/ new[i].group = line)
    <3>1. CASE i <= Len(cmds)
      BY <3>1, <1>7
    <3>2. CASE ~(i <= Len(cmds))
      BY <3>2, <1>7
    <3> QED
      BY <3>1, <3>2
  <2>2. ASSUME OwnLocks, NEW i \in 1..Len(new), NEW ch \in Channels, UnlockOf(new[i], ch)
        PROVE  /\ new[i].group = line
               /\ \E j \in 1..(i - 1) :
                    /\ LockOf(new[j], ch) /\ new[j].group = new[i].group
                    /\ \A k \in (j + 1)..(i - 1) : ~UnlockOf(new[k], ch)
    <3>1. i <= Len(cmds)
      <4> SUFFICES ASSUME ~(i <= Len(cmds)) PROVE FALSE
        OBVIOUS
      <4>1. new[i].cmd.op = "done"
        BY <1>7
      <4> QED
        BY <4>1, <2>2 DEF UnlockOf
    <3>2. i \in 1..Len(cmds) /\ new[i].group = line /\ cmds[i] = [op |-> "unlock", ch |-> ch]
      BY <3>1, <1>7, <2>2 DEF UnlockOf
    <3>3. PICK j \in 1..(i - 1) :
             /\ cmds[j] = [op |-> "lock", ch |-> ch]
             /\ \A k \in (j + 1)..(i - 1) : cmds[k] # cmds[i]
      BY <2>2, <3>2 DEF OwnLocks
    <3>4. \A k \in 1..(i - 1) : k \in 1..Len(new) /\ k <= Len(cmds)
      BY <3>2, <1>6
    <3>5. LockOf(new[j], ch) /\ new[j].group = new[i].group
      BY <3>2, <3>3, <3>4, <1>7 DEF LockOf
    <3>6. ASSUME NEW k \in (j + 1)..(i - 1) PROVE ~UnlockOf(new[k], ch)
      <4>1. k \in 1..(i - 1)
        OBVIOUS
      <4>2. new[k].cmd = cmds[k] /\ cmds[k] # cmds[i]
        BY <4>1, <3>3, <3>4, <1>7
      <4> QED
        BY <4>2, <3>2 DEF UnlockOf
    <3> QED
      BY <3>2, <3>5, <3>6
  <2> QED
    BY <2>1, <2>2 DEF NewLine
<1>9. Appended(s, t)
  BY <1>1, <1>5, <1>8, AppendIs DEF line
<1>10. queue'[c] = t /\ \A w \in Owners : w # c => queue'[w] = queue[w]
  BY <1>4, <1>1 DEF Queues
<1>11. ASSUME NEW ch \in Channels, Enters(t, ch) PROVE Enters(s, ch)
  <2>1. /\ s # <<>> => t # <<>> /\ Head(t) = Head(s)
        /\ s = <<>> /\ t # <<>> => Head(t).state = "new"
    BY <1>1, <1>5, AppendedQueue
  <2> HIDE DEF t
  <2> QED
    BY <2>1, <1>11 DEF Enters
<1> QED
  BY <1>9, <1>10, <1>11

LEMMA JobFollows ==
  ASSUME IInv, NEW o \in Owners, NEW succeeded, JobDone(o, succeeded)
  PROVE  /\ Moved(queue[o], queue'[o])
         /\ \A w \in Owners : w # o => queue'[w] = queue[w]
         /\ queue[o] # <<>> /\ First(o).cmd.op \in {"job", "if"}
         /\ \A ch \in Channels : ~Enters(queue'[o], ch)
<1> DEFINE s == queue[o]
           then == IF succeeded /\ First(o).cmd.op = "if"
                     THEN Items(Then, ThenGroup, First(o).line, First(o).nohooks)
                     ELSE <<>>
           t == <<Head(s)>> \o then \o Tail(s)
           q == [queue EXCEPT ![o] = t]
<1>1. /\ queue \in Queues /\ OnlyFirst(queue) /\ s # <<>> /\ s \in Seq(ItemSet)
      /\ First(o).cmd.op \in {"job", "if"}
      /\ Head(s) \in ItemSet /\ Tail(s) \in Seq(ItemSet) /\ AllNew(Tail(s)) /\ First(o) = Head(s)
  <2>1. Waiting(o) /\ First(o).cmd.op \in {"job", "if"}
    BY OneList DEF IInv, JobDone
  <2> QED
    BY <2>1, TailNew DEF Waiting, Queues, First, IInv, Queued
<1>2. then \in Seq(ItemSet) /\ AllNew(then) /\ Brought(s, then)
  <2>1. /\ ThenGroup \in Nat /\ ThenGroup \in 1..5 /\ First(o).line \in Nat
        /\ First(o).nohooks \in BOOLEAN /\ Then \in Seq(Commands)
    BY <1>1, Constants DEF ThenGroup, ItemSet
  <2>2. OwnLocks => \A i \in 1..Len(Then) : Then[i].op # "unlock"
    BY DEF OwnLocks
  <2>3. Brought(s, Items(Then, ThenGroup, First(o).line, First(o).nohooks))
    BY <1>1, <2>1, <2>2, ItemsBrought
  <2>4. /\ Items(Then, ThenGroup, First(o).line, First(o).nohooks) \in Seq(ItemSet)
        /\ AllNew(Items(Then, ThenGroup, First(o).line, First(o).nohooks))
    BY <2>1, ItemsAreNew
  <2> QED
    BY <2>3, <2>4, NothingBrought
<1>3. queue' = Woken(q, {o})
  BY DEF JobDone
<1> HIDE DEF then
<1>4. t = <<Head(s)>> \o (then \o Tail(s))
  <2> DEFINE front == <<Head(s)>>
             rest == Tail(s)
  <2>1. front \in Seq(ItemSet) /\ rest \in Seq(ItemSet)
    BY <1>1, OneItem
  <2> HIDE DEF front, rest
  <2>2. (front \o then) \o rest = front \o (then \o rest)
    BY <2>1, <1>2, ConcatAssociative
  <2> QED
    BY <2>2 DEF front, rest
<1> HIDE DEF t
<1>5. Follows(s, t)
  BY <1>1, <1>2, <1>4, BehindFollows
<1>6. t \in Seq(ItemSet) /\ AllNew(Tail(t))
  <2> DEFINE more == then \o Tail(s)
             x == Head(s)
  <2>1. more \in Seq(ItemSet) /\ AllNew(more) /\ x \in ItemSet /\ t = <<x>> \o more
    BY <1>1, <1>2, <1>4, ConcatNew
  <2> HIDE DEF more, x
  <2>2. t \in Seq(ItemSet) /\ Tail(t) = more
    BY <2>1, ConsIs
  <2> QED
    BY <2>1, <2>2
<1>7. q \in Queues /\ q[o] = t /\ \A w \in Owners : w # o => q[w] = queue[w]
  BY <1>1, <1>6 DEF Queues
<1> HIDE DEF q
<1>8. OnlyFirst(q)
  <2>1. \A w \in Owners : q[w] = <<>> \/ AllNew(Tail(q[w]))
    BY <1>1, <1>6, <1>7, OnlyFirstIs
  <2> QED
    BY <2>1, <1>7, OnlyFirstIs
<1>9. /\ Woken(q, {o}) \in Queues /\ \A w \in Owners : w \notin {o} => Woken(q, {o})[w] = q[w]
  BY <1>7, <1>8, WokenLeaves
<1>10. SameShape(t, queue'[o]) /\ queue'[o] \in Seq(ItemSet)
  <2>1. SameShape(q[o], Woken(q, {o})[o])
    BY <1>7, <1>8, WokenSame
  <2> QED
    BY <2>1, <1>3, <1>7, <1>9 DEF Queues
<1>11. Follows(s, queue'[o])
  BY <1>1, <1>5, <1>6, <1>10, FollowsSame DEF Follows
<1>12. Moves({}, {o})
  BY TypesHold, JobMoves, OneList, <1>1 DEF IInv, JobDone
<1>13. ASSUME NEW ch \in Channels PROVE ~Enters(queue'[o], ch)
  <2>1. First(o)'.cmd = First(o).cmd
    BY <1>1, <1>12 DEF Moves
  <2>2. First(o).cmd.op # "lock"
    BY <1>1
  <2> QED
    BY <2>1, <2>2 DEF Enters, LockOf, First
<1> QED
  BY <1>1, <1>3, <1>7, <1>9, <1>11, <1>13 DEF Moved

AllMoved == \A w \in Owners : Moved(queue[w], queue'[w])

AllTidy == \A o \in Owners : Tidy(queue[o])

\* Somebody is between lock and unlock, or the lock has passed to somebody, only
\* while the channel is locked, and it is one line at most.
OneInside(ch) ==
  /\ inside[ch] <= 1 /\ (forced[ch] => inside[ch] = 0)
  /\ ~forced[ch] =>
       /\ inside[ch] = 1 => channels[ch].locked
       /\ \A o \in Owners :
            /\ Enters(queue[o], ch) => inside[ch] = 0 /\ channels[ch].locked
            /\ Owes(queue[o], ch) => inside[ch] = 1
       /\ \A o, w \in Owners : Enters(queue[o], ch) /\ Enters(queue[w], ch) => o = w
       /\ \A o, w \in Owners : Owes(queue[o], ch) /\ Owes(queue[w], ch) => o = w

LockInv == \A ch \in Channels : OneInside(ch)

\* Nobody comes in and nobody gets to owe an unlock of the channel.
Calm(ch) ==
  /\ \A w \in Owners : Enters(queue'[w], ch) => Enters(queue[w], ch)
  /\ \A w \in Owners : Owes(queue'[w], ch) => Owes(queue[w], ch)

Kept(ch) ==
  /\ inside'[ch] = inside[ch] /\ forced'[ch] = forced[ch]
  /\ channels[ch].locked => channels'[ch].locked

LEMMA CalmHolds ==
  ASSUME NEW ch, OneInside(ch), Calm(ch), Kept(ch)
  PROVE  OneInside(ch)'
<1>1. /\ inside'[ch] <= 1 /\ (forced'[ch] => inside'[ch] = 0)
  BY DEF OneInside, Kept
<1>2. SUFFICES ASSUME ~forced'[ch]
      PROVE  /\ inside'[ch] = 1 => channels'[ch].locked
             /\ \A o \in Owners :
                  /\ Enters(queue'[o], ch) => inside'[ch] = 0 /\ channels'[ch].locked
                  /\ Owes(queue'[o], ch) => inside'[ch] = 1
             /\ \A o, w \in Owners : Enters(queue'[o], ch) /\ Enters(queue'[w], ch) => o = w
             /\ \A o, w \in Owners : Owes(queue'[o], ch) /\ Owes(queue'[w], ch) => o = w
  BY <1>1 DEF OneInside
<1> QED
  BY <1>2 DEF OneInside, Calm, Kept

LEMMA SameHeads ==
  ASSUME NEW s \in Seq(ItemSet), NEW t \in Seq(ItemSet), SameShape(s, t), NEW ch,
         Enters(t, ch)
  PROVE  s # <<>> /\ LockOf(Head(s), ch)
<1>1. t # <<>> /\ LockOf(Head(t), ch)
  BY DEF Enters
<1>2. Len(t) = Len(s) /\ \A i \in 1..Len(s) : SameItem(t[i], s[i])
  BY DEF SameShape
<1>3. Head(t) = t[1] /\ Len(t) \in Nat \ {0}
  BY <1>1, HeadTail
<1>4. s # <<>>
  BY <1>2, <1>3
<1>5. Head(s) = s[1] /\ 1 \in 1..Len(s)
  BY <1>4, HeadTail
<1> QED
  BY <1>1, <1>2, <1>3, <1>4, <1>5, SameLocks

LEMMA SameOwes ==
  ASSUME OwnLocks, NEW s \in Seq(ItemSet), NEW t \in Seq(ItemSet), SameShape(s, t),
         NEW ch \in Channels, Owes(t, ch)
  PROVE  Owes(s, ch)
  BY SameAppended, AppendedOwed DEF Owes

LEMMA AppendedOwes ==
  ASSUME OwnLocks, NEW s \in Seq(ItemSet), NEW t \in Seq(ItemSet), Appended(s, t),
         NEW ch \in Channels, Owes(t, ch)
  PROVE  Owes(s, ch)
  BY AppendedOwed DEF Owes

LEMMA BothQueues ==
  ASSUME IInv, IInv', NEW w \in Owners
  PROVE  queue[w] \in Seq(ItemSet) /\ queue'[w] \in Seq(ItemSet)
  BY DEF IInv, Queued, Queues

LEMMA PopsMoved ==
  ASSUME IInv, IInv', NEW o \in Owners, NEW woken, Pops(o, woken)
  PROVE  AllMoved
<1> SUFFICES ASSUME NEW w \in Owners PROVE Moved(queue[w], queue'[w])
  BY DEF AllMoved
<1>1. CASE w = o
  BY <1>1 DEF Pops, Moved
<1>2. CASE w # o
  <2>1. SameShape(queue[w], queue'[w])
    BY <1>2 DEF Pops
  <2> QED
    BY <2>1, BothQueues, SameAppended DEF Moved
<1> QED
  BY <1>1, <1>2

\* When the first item of a queue is done, the channel stays calm unless the item
\* or one that goes on wants its lock.
LEMMA PopsCalm ==
  ASSUME OwnLocks, IInv, IInv', NEW o \in Owners, NEW woken, Pops(o, woken),
         NEW ch \in Channels,
         \/ queue[o] # <<>> /\ ~LockOf(Head(queue[o]), ch)
         \/ Owes(queue'[o], ch) => Owes(queue[o], ch),
         \A w \in Owners : w \in woken => ~LockOf(Head(queue[w]), ch)
  PROVE  Calm(ch)
<1>1. ASSUME NEW w \in Owners, Enters(queue'[w], ch) PROVE Enters(queue[w], ch)
  <2>1. w # o
    BY <1>1 DEF Pops
  <2>2. SameShape(queue[w], queue'[w]) /\ (w \notin woken => queue'[w] = queue[w])
    BY <2>1 DEF Pops
  <2>3. LockOf(Head(queue[w]), ch)
    BY <2>2, <1>1, BothQueues, SameHeads
  <2> QED
    BY <2>2, <2>3, <1>1
<1>2. ASSUME NEW w \in Owners, Owes(queue'[w], ch) PROVE Owes(queue[w], ch)
  <2>1. CASE w # o
    <3>1. SameShape(queue[w], queue'[w])
      BY <2>1 DEF Pops
    <3> QED
      BY <3>1, <1>2, BothQueues, SameOwes
  <2>2. CASE w = o /\ queue[o] # <<>> /\ ~LockOf(Head(queue[o]), ch)
    <3>1. Moved(queue[o], queue'[o])
      BY DEF Pops, Moved
    <3>2. Head(queue[o]) = queue[o][1]
      BY <2>2, BothQueues, HeadTail
    <3> QED
      BY <2>2, <3>1, <3>2, <1>2, BothQueues, MovedOwes
  <2> QED
    BY <2>1, <2>2, <1>2
<1> QED
  BY <1>1, <1>2 DEF Calm

\* A queue that starts to wait changes nothing else.
LEMMA WaitsCalm ==
  ASSUME IInv, IInv', NEW o \in Owners, queue[o] # <<>>, Waits(o)
  PROVE  AllMoved /\ (OwnLocks => \A ch \in Channels : Calm(ch))
<1>1. /\ SameShape(queue[o], queue'[o]) /\ \A w \in Owners : w # o => queue'[w] = queue[w]
      /\ \A ch \in Channels : ~Enters(queue'[o], ch)
  BY WaitsSame
<1>2. \A w \in Owners : SameShape(queue[w], queue'[w])
  BY <1>1, BothQueues, SelfSame
<1>3. AllMoved
  BY <1>2, BothQueues, SameAppended DEF AllMoved, Moved
<1>4. ASSUME OwnLocks, NEW ch \in Channels PROVE Calm(ch)
  <2>1. \A w \in Owners : Enters(queue'[w], ch) => Enters(queue[w], ch)
    BY <1>1
  <2>2. \A w \in Owners : Owes(queue'[w], ch) => Owes(queue[w], ch)
    BY <1>2, <1>4, BothQueues, SameOwes
  <2> QED
    BY <2>1, <2>2 DEF Calm
<1> QED
  BY <1>3, <1>4

\* One channel changes and stays locked if it was.
LEMMA KeptChannels ==
  ASSUME IInv, UNCHANGED history, NEW ch \in Channels, NEW x,
         channels' = [channels EXCEPT ![ch] = x], channels[ch].locked => x.locked
  PROVE  \A c \in Channels : Kept(c)
<1>1. channels = [c \in Channels |-> channels[c]]
  BY DEF IInv, ChannelsGood
<1>2. channels'[ch] = x /\ \A c \in Channels : c # ch => channels'[c] = channels[c]
  BY <1>1
<1>3. inside' = inside /\ forced' = forced
  BY DEF history
<1> QED
  BY <1>2, <1>3 DEF Kept

LEMMA AllCalm ==
  ASSUME LockInv, \A ch \in Channels : Calm(ch) /\ Kept(ch)
  PROVE  LockInv'
  BY CalmHolds DEF LockInv

LEMMA UnchangedKept ==
  ASSUME UNCHANGED <<channels, history>>
  PROVE  \A ch \in Channels : Kept(ch)
  BY DEF Kept, history

\* What a step has to keep for the theorems about locks and order.
Orderly == AllMoved /\ (OwnLocks /\ AllTidy /\ LockInv => LockInv')

LEMMA NotLock ==
  ASSUME NEW x, x.cmd.op # "lock", NEW ch
  PROVE  ~LockOf(x, ch)
  BY DEF LockOf

\* The first item of a queue is done, and neither it nor one that goes on locks.
LEMMA PopsOrderly ==
  ASSUME IInv, IInv', NEW o \in Owners, queue[o] # <<>>, NEW woken, Pops(o, woken),
         \/ First(o).cmd.op # "lock"
         \/ OwnLocks => \A ch \in Channels : Owes(queue'[o], ch) => Owes(queue[o], ch),
         \A w \in Owners : w \in woken => First(w).cmd.op # "lock",
         \A ch \in Channels : Kept(ch)
  PROVE  Orderly
<1>1. AllMoved
  BY PopsMoved
<1>2. ASSUME OwnLocks, NEW ch \in Channels PROVE Calm(ch)
  <2>1. \A w \in Owners : w \in woken => ~LockOf(Head(queue[w]), ch)
    BY NotLock DEF First
  <2>2. \/ queue[o] # <<>> /\ ~LockOf(Head(queue[o]), ch)
        \/ Owes(queue'[o], ch) => Owes(queue[o], ch)
    BY <1>2, NotLock DEF First
  <2> QED
    BY <1>2, <2>1, <2>2, PopsCalm
<1> QED
  BY <1>1, <1>2, AllCalm DEF Orderly

LEMMA WaitsOrderly ==
  ASSUME IInv, IInv', NEW o \in Owners, queue[o] # <<>>, Waits(o), \A ch \in Channels : Kept(ch)
  PROVE  Orderly
  BY WaitsCalm, AllCalm DEF Orderly

LEMMA LockedKept ==
  ASSUME NEW w, Good(w)
  PROVE  /\ w.locked => Removed(w).locked /\ RemovedEmpty(w).locked
         /\ w.here /\ w.locked => Removed(w) = w
  BY DEF Removed, RemovedEmpty

LEMMA SignalOrderly ==
  ASSUME IInv, IInv', NEW o \in Owners, Signal(o)
  PROVE  Orderly
<1> DEFINE ch == First(o).cmd.ch
           w == Added(channels[ch])
           woken == channels[ch].waiters
           x == IF w.waiters = {} /\ ~w.woken THEN [w EXCEPT !.woken = TRUE]
                ELSE Removed([w EXCEPT !.waiters = {}])
<1>1. /\ queue[o] # <<>> /\ ~Waiting(o)
      /\ First(o).cmd \in Commands /\ First(o).cmd.op = "signal"
  BY TypesHold, FiresIs DEF Signal
<1>2. ch \in Channels
  BY <1>1, CommandIs
<1>3. Good(channels[ch])
  BY <1>2 DEF IInv, ChannelsGood
<1>4. Good(w) /\ w.waiters = woken /\ w.locked = channels[ch].locked
  BY <1>3, AddedGood
<1>5. channels' = [channels EXCEPT ![ch] = x] /\ Normal(o, woken) /\ UNCHANGED history
  <2>1. CASE w.waiters = {} /\ ~w.woken
    <3>1. channels' = [channels EXCEPT ![ch] = [w EXCEPT !.woken = TRUE]] /\ Normal(o, {})
      BY <2>1 DEF Signal
    <3> QED
      BY <2>1, <3>1, <1>4 DEF Signal
  <2>2. CASE ~(w.waiters = {} /\ ~w.woken)
    <3>1. channels' = [channels EXCEPT ![ch] = Removed([w EXCEPT !.waiters = {}])]
          /\ Normal(o, w.waiters)
      BY <2>2 DEF Signal
    <3> QED
      BY <2>2, <3>1, <1>4 DEF Signal
  <2> QED
    BY <2>1, <2>2
<1>6. channels[ch].locked => x.locked
  <2> DEFINE y == [w EXCEPT !.waiters = {}]
             z == [w EXCEPT !.woken = TRUE]
  <2>1. y.locked = w.locked /\ z.locked = w.locked
    BY <1>4 DEF Good
  <2> HIDE DEF y, z, w
  <2>2. w.locked => Removed(y).locked
    BY <2>1 DEF Removed
  <2> QED
    BY <1>4, <2>1, <2>2 DEF y, z
<1>7. \A l \in Owners : l \in woken => Waiting(l) /\ First(l).cmd.op # "lock"
  BY <1>2, OneList DEF IInv
<1> HIDE DEF x, w, woken
<1>8. \A c \in Channels : Kept(c)
  BY <1>2, <1>5, <1>6, KeptChannels
<1>9. Pops(o, woken)
  BY <1>1, <1>5, <1>7, NormalPops
<1> QED
  BY <1>1, <1>7, <1>8, <1>9, PopsOrderly

LEMMA WaitOrderly ==
  ASSUME IInv, IInv', NEW o \in Owners, Wait(o)
  PROVE  Orderly
<1> DEFINE ch == First(o).cmd.ch
           w == Added(channels[ch])
<1>1. /\ queue[o] # <<>> /\ ~Waiting(o)
      /\ First(o).cmd \in Commands /\ First(o).cmd.op = "wait"
  BY TypesHold, FiresIs DEF Wait
<1>2. ch \in Channels
  BY <1>1, CommandIs
<1>3. Good(channels[ch])
  BY <1>2 DEF IInv, ChannelsGood
<1>4. Good(w) /\ w.locked = channels[ch].locked
  BY <1>3, AddedGood
<1>5. UNCHANGED history
  BY DEF Wait
<1>6. CASE w.woken
  <2>1. channels' = [channels EXCEPT ![ch] = Removed(w)] /\ Normal(o, {})
    BY <1>6 DEF Wait
  <2> HIDE DEF w
  <2>2. channels[ch].locked => Removed(w).locked
    BY <1>4, LockedKept
  <2>3. \A c \in Channels : Kept(c)
    BY <1>2, <1>5, <2>1, <2>2, KeptChannels
  <2>4. Pops(o, {})
    BY <1>1, <2>1, NormalPops
  <2> QED
    BY <1>1, <2>3, <2>4, PopsOrderly
<1>7. CASE ~w.woken
  <2> DEFINE x == [w EXCEPT !.waiters = @ \cup {o}]
  <2>1. channels' = [channels EXCEPT ![ch] = x] /\ Waits(o)
    BY <1>7 DEF Wait
  <2> HIDE DEF w
  <2>2. channels[ch].locked => x.locked
    BY <1>4 DEF Good
  <2> HIDE DEF x
  <2>3. \A c \in Channels : Kept(c)
    BY <1>2, <1>5, <2>1, <2>2, KeptChannels
  <2> QED
    BY <1>1, <2>1, <2>3, WaitsOrderly
<1> QED
  BY <1>6, <1>7

LEMMA EventOrderly ==
  ASSUME IInv, IInv', NEW o \in Owners, WaitEvent(o) \/ Shell(o)
  PROVE  Orderly
<1>1. queue[o] # <<>> /\ Waits(o) /\ UNCHANGED <<channels, history>>
  BY DEF WaitEvent, Shell, Fires
<1> QED
  BY <1>1, UnchangedKept, WaitsOrderly

LEMMA RouseOrderly ==
  ASSUME IInv, IInv', NEW o \in Owners, Rouse(o)
  PROVE  Orderly
<1> DEFINE who == First(o).cmd.who
           e == First(o).cmd.on
<1>1. /\ queue[o] # <<>> /\ ~Waiting(o)
      /\ First(o).cmd \in Commands /\ First(o).cmd.op = "rouse"
  BY TypesHold, FiresIs DEF Rouse
<1>2. e \in Events
  BY <1>1, CommandIs
<1>3. who \in watching[e] /\ Normal(o, {who}) /\ UNCHANGED <<channels, history>>
  BY DEF Rouse
<1>4. \A l \in Owners : l \in watching[e] => Waiting(l) /\ First(l).cmd.op # "lock"
  BY <1>2, OneList DEF IInv
<1>5. \A l \in Owners : l \in {who} => Waiting(l) /\ First(l).cmd.op # "lock"
  BY <1>3, <1>4
<1>6. o \notin {who}
  BY <1>1, <1>5
<1>7. Pops(o, {who})
  BY <1>1, <1>3, <1>6, NormalPops
<1>8. \A c \in Channels : Kept(c)
  BY <1>3, UnchangedKept
<1>9. \A l \in Owners : l \in {who} => First(l).cmd.op # "lock"
  BY <1>5
<1>10. First(o).cmd.op # "lock"
  BY <1>1
<1> HIDE DEF who
<1> QED
  BY <1>1, <1>7, <1>8, <1>9, <1>10, PopsOrderly

LEMMA PlainOrderly ==
  ASSUME IInv, IInv', NEW o \in Owners, Plain(o)
  PROVE  Orderly
<1>1. /\ queue[o] # <<>> /\ ~Waiting(o) /\ First(o).cmd.op = "plain"
  BY TypesHold, FiresIs DEF Plain
<1>2. queue \in Queues /\ OnlyFirst(queue) /\ queue[o] \in Seq(ItemSet)
  BY DEF IInv, Queued, Queues
<1>3. "after" \in Events /\ \A l \in Owners : l \in watching["after"] => Waiting(l) /\ First(l).cmd.op # "lock"
  BY OneList DEF IInv, Events
<1>4. \A c \in Channels : Kept(c)
  BY UnchangedKept DEF Plain
<1>5. CASE First(o).nohooks
  <2>1. Normal(o, {})
    BY <1>5 DEF Plain
  <2>2. Pops(o, {})
    BY <1>1, <2>1, NormalPops
  <2> QED
    BY <1>1, <1>4, <2>2, PopsOrderly
<1>6. CASE ~First(o).nohooks
  <2>1. PICK seen \in SUBSET watching["after"] :
          queue' = Replace(Woken(queue, seen), o, HookItems("after", First(o)))
    BY <1>6 DEF Plain
  <2> DEFINE hook == HookItems("after", First(o))
  <2>2. Brought(queue[o], hook) /\ hook \in Seq(ItemSet) /\ AllNew(hook)
    BY <1>1, <1>2, <1>3, HookBrought DEF First
  <2>3. \A l \in Owners : l \in seen => Waiting(l) /\ First(l).cmd.op # "lock"
    BY <1>3
  <2> HIDE DEF hook
  <2>4. Pops(o, seen)
    BY <1>1, <1>2, <2>1, <2>2, <2>3, ReplacePops DEF hook
  <2> QED
    BY <1>1, <1>4, <2>3, <2>4, PopsOrderly
<1> QED
  BY <1>5, <1>6

LEMMA FailOrderly ==
  ASSUME IInv, IInv', NEW o \in Owners, Fail(o)
  PROVE  Orderly
<1>1. PICK op : Fires(o, op)
  BY DEF Fail
<1>2. queue[o] # <<>> /\ ~Waiting(o)
  BY <1>1, TypesHold, FiresIs
<1>3. Errors(o) /\ UNCHANGED <<channels, history>>
  BY DEF Fail
<1>4. "error" \in Events /\ \A l \in Owners : l \in watching["error"] => First(l).cmd.op # "lock"
  BY OneList DEF IInv, Events
<1>5. /\ \E woken \in SUBSET watching["error"] : Pops(o, woken)
      /\ OwnLocks => \A ch \in Channels : Owes(queue'[o], ch) => Owes(queue[o], ch)
  BY <1>2, <1>3, ErrorsPops
<1>6. PICK woken \in SUBSET watching["error"] : Pops(o, woken)
  BY <1>5
<1>7. \A l \in Owners : l \in woken => First(l).cmd.op # "lock"
  BY <1>4
<1>8. \A c \in Channels : Kept(c)
  BY <1>3, UnchangedKept
<1> QED
  BY <1>2, <1>5, <1>6, <1>7, <1>8, PopsOrderly

LEMMA CommandDoneOrderly ==
  ASSUME IInv, IInv', NEW o \in Owners, CommandDone(o)
  PROVE  Orderly
<1>1. queue[o] # <<>> /\ ~Waiting(o) /\ First(o).cmd.op # "lock"
  BY TypesHold, FiresIs DEF CommandDone
<1>2. Normal(o, {}) /\ \A c \in Channels : Kept(c)
  BY UnchangedKept DEF CommandDone
<1>3. Pops(o, {})
  BY <1>1, <1>2, NormalPops
<1> QED
  BY <1>1, <1>2, <1>3, PopsOrderly

-----------------------------------------------------------------------------
(* The steps that pass the lock on. *)

\* Nobody comes in and nobody but o gets to owe an unlock.
LEMMA PopsOthers ==
  ASSUME OwnLocks, IInv, IInv', NEW o \in Owners, NEW woken, Pops(o, woken),
         NEW ch \in Channels
  PROVE  /\ \A w \in Owners : w \notin woken /\ Enters(queue'[w], ch) =>
              w # o /\ Enters(queue[w], ch)
         /\ \A w \in Owners : w # o /\ Owes(queue'[w], ch) => Owes(queue[w], ch)
<1>1. ASSUME NEW w \in Owners, w \notin woken, Enters(queue'[w], ch)
      PROVE  w # o /\ Enters(queue[w], ch)
  BY <1>1 DEF Pops
<1>2. ASSUME NEW w \in Owners, w # o, Owes(queue'[w], ch)
      PROVE  Owes(queue[w], ch)
  <2>1. SameShape(queue[w], queue'[w])
    BY <1>2 DEF Pops
  <2> QED
    BY <2>1, <1>2, BothQueues, SameOwes
<1> QED
  BY <1>1, <1>2

\* A line goes past a lock.
LEMMA Passing ==
  ASSUME OwnLocks, IInv, IInv', NEW o \in Owners, Pops(o, {}), NEW ch \in Channels,
         OneInside(ch), inside[ch] = 0 \/ forced[ch],
         \A w \in Owners : Enters(queue[w], ch) /\ ~forced[ch] => w = o,
         inside' = Enter(inside, ch), inside \in [Channels -> Nat], forced' = forced,
         channels'[ch].locked
  PROVE  OneInside(ch)'
<1>1. CASE forced[ch]
  <2>1. inside'[ch] = 0 /\ forced'[ch]
    BY <1>1 DEF Enter, OneInside
  <2> QED
    BY <2>1 DEF OneInside
<1>2. CASE ~forced[ch]
  <2>1. inside'[ch] = 1 /\ ~forced'[ch] /\ inside[ch] = 0
    BY <1>2 DEF Enter
  <2>2. /\ \A w \in Owners : w \notin {} /\ Enters(queue'[w], ch) =>
              w # o /\ Enters(queue[w], ch)
        /\ \A w \in Owners : w # o /\ Owes(queue'[w], ch) => Owes(queue[w], ch)
    BY PopsOthers
  <2>3. \A w \in Owners : ~Enters(queue'[w], ch)
    BY <2>2, <1>2
  <2>4. \A w \in Owners : ~Owes(queue[w], ch)
    BY <1>2, <2>1 DEF OneInside
  <2>5. \A w \in Owners : Owes(queue'[w], ch) => w = o
    BY <2>2, <2>4
  <2> QED
    BY <2>1, <2>3, <2>5 DEF OneInside
<1> QED
  BY <1>1, <1>2

\* Nobody goes on but o, which does not pass a lock of the channel.
LEMMA EmptyCalm ==
  ASSUME OwnLocks, IInv, IInv', NEW o \in Owners, queue[o] # <<>>, Pops(o, {}),
         NEW ch \in Channels, ~LockOf(Head(queue[o]), ch)
  PROVE  Calm(ch)
<1> DEFINE nobody == {}
<1>1. \A w \in Owners : w \in nobody => ~LockOf(Head(queue[w]), ch)
  OBVIOUS
<1>2. Pops(o, nobody)
  OBVIOUS
<1>3. \/ queue[o] # <<>> /\ ~LockOf(Head(queue[o]), ch)
      \/ Owes(queue'[o], ch) => Owes(queue[o], ch)
  OBVIOUS
<1> HIDE DEF nobody
<1> QED
  BY <1>1, <1>2, <1>3, PopsCalm

LEMMA EnterElsewhere ==
  ASSUME NEW ch \in Channels, NEW c \in Channels, c # ch, inside \in [Channels -> Nat],
         inside' = Enter(inside, ch) \/ inside' = Leave(inside, ch)
  PROVE  inside'[c] = inside[c]
  BY DEF Enter, Leave

LEMMA LockOrderly ==
  ASSUME IInv, IInv', NEW o \in Owners, Lock(o)
  PROVE  Orderly
<1> DEFINE ch == First(o).cmd.ch
           w == Added(channels[ch])
<1>1. /\ queue[o] # <<>> /\ ~Waiting(o)
      /\ First(o).cmd \in Commands /\ First(o).cmd.op = "lock"
  BY TypesHold, FiresIs DEF Lock
<1>2. ch \in Channels /\ First(o).cmd = [op |-> "lock", ch |-> ch]
  BY <1>1, CommandIs
<1>3. Good(channels[ch])
  BY <1>2 DEF IInv, ChannelsGood
<1>4. Good(w) /\ w.locked = channels[ch].locked
  BY <1>3, AddedGood
<1>5. UNCHANGED forced /\ inside \in [Channels -> Nat] /\ channels = [c \in Channels |-> channels[c]]
  BY DEF Lock, IInv, Counted, ChannelsGood
<1>6. CASE w.locked
  <2> DEFINE x == [w EXCEPT !.lockers = Append(@, o)]
  <2>1. channels' = [channels EXCEPT ![ch] = x] /\ Waits(o) /\ UNCHANGED inside
    BY <1>6 DEF Lock
  <2>2. channels[ch].locked => x.locked
    BY <1>4 DEF Good
  <2> HIDE DEF x, w
  <2>3. \A c \in Channels : Kept(c)
    BY <1>2, <1>5, <2>1, <2>2, KeptChannels DEF history
  <2> QED
    BY <1>1, <2>1, <2>3, WaitsOrderly
<1>7. CASE ~w.locked
  <2> DEFINE x == [w EXCEPT !.locked = TRUE]
  <2>1. channels' = [channels EXCEPT ![ch] = x] /\ Normal(o, {}) /\ inside' = Enter(inside, ch)
    BY <1>7 DEF Lock
  <2>2. x.locked
    BY <1>4 DEF Good
  <2> HIDE DEF x, w
  <2>3. channels'[ch].locked /\ \A c \in Channels : c # ch => channels'[c] = channels[c]
    BY <1>2, <1>5, <2>1, <2>2
  <2>4. Pops(o, {})
    BY <1>1, <2>1, NormalPops
  <2>5. AllMoved
    BY <2>4, PopsMoved
  <2>6. ASSUME OwnLocks, LockInv, NEW c \in Channels PROVE OneInside(c)'
    <3>1. CASE c = ch
      <4>1. OneInside(c) /\ ~channels[c].locked /\ inside[c] \in Nat
        BY <1>4, <1>5, <1>7, <2>6, <3>1 DEF LockInv
      <4>2. inside[c] = 0 \/ forced[c]
        BY <4>1 DEF OneInside
      <4>3. \A l \in Owners : Enters(queue[l], c) /\ ~forced[c] => l = o
        BY <4>1 DEF OneInside
      <4>4. inside' = Enter(inside, c) /\ channels'[c].locked
        BY <2>1, <2>3, <3>1
      <4> HIDE DEF ch
      <4> QED
        BY <1>5, <2>4, <2>6, <4>1, <4>2, <4>3, <4>4, Passing
    <3>2. CASE c # ch
      <4>1. ~LockOf(Head(queue[o]), c)
        BY <3>2, <1>2 DEF LockOf, First
      <4>2. Calm(c)
        BY <1>1, <2>4, <2>6, <4>1, EmptyCalm
      <4>3. inside'[c] = inside[c]
        BY <3>2, <1>2, <1>5, <2>1, <2>6, EnterElsewhere
      <4>4. Kept(c)
        BY <3>2, <1>5, <2>3, <2>6, <4>3 DEF Kept
      <4> QED
        BY <2>6, <4>2, <4>4, CalmHolds DEF LockInv
    <3> QED
      BY <3>1, <3>2
  <2>7. OwnLocks /\ LockInv => LockInv'
    BY <2>6 DEF LockInv
  <2> QED
    BY <2>5, <2>7 DEF Orderly
<1> QED
  BY <1>6, <1>7

LEMMA ContinuedOrderly ==
  ASSUME IInv, IInv', NEW o \in Owners, Continued(o)
  PROVE  Orderly
<1>1. /\ queue[o] # <<>> /\ First(o).state = "woken" /\ queue' = Replace(queue, o, <<>>)
      /\ UNCHANGED <<channels, forced>>
      /\ inside' = IF First(o).cmd.op = "lock" THEN Enter(inside, First(o).cmd.ch) ELSE inside
  BY DEF Continued
<1>2. /\ queue \in Queues /\ OnlyFirst(queue) /\ First(o).cmd \in Commands
      /\ inside \in [Channels -> Nat]
  <2>1. queue \in Queues /\ OnlyFirst(queue) /\ inside \in [Channels -> Nat]
    BY DEF IInv, Queued, Counted
  <2>2. First(o) \in ItemSet
    BY <1>1, <2>1, TailNew DEF First
  <2> QED
    BY <2>1, <2>2 DEF ItemSet
<1>3. Pops(o, {})
  <2> DEFINE nobody == {}
             nothing == <<>>
  <2>1. Woken(queue, {}) = queue
    BY <1>2 DEF Woken, Queues
  <2>2. queue' = Replace(Woken(queue, nobody), o, nothing)
    BY <1>1, <2>1
  <2>3. nothing \in Seq(ItemSet) /\ AllNew(nothing) /\ Brought(queue[o], nothing) /\ o \notin nobody
    BY NothingBrought
  <2> HIDE DEF nobody, nothing
  <2>4. Pops(o, nobody)
    BY <1>1, <1>2, <2>2, <2>3, ReplacePops
  <2> QED
    BY <2>4 DEF nobody
<1>4. CASE First(o).cmd.op # "lock"
  <2>1. UNCHANGED <<channels, history>>
    BY <1>1, <1>4 DEF history
  <2> QED
    BY <1>1, <1>3, <1>4, <2>1, UnchangedKept, PopsOrderly
<1>5. CASE First(o).cmd.op = "lock"
  <2> DEFINE ch == First(o).cmd.ch
  <2>1. ch \in Channels /\ First(o).cmd = [op |-> "lock", ch |-> ch]
    BY <1>2, <1>5, CommandIs
  <2>2. inside' = Enter(inside, ch)
    BY <1>1, <1>5
  <2>3. AllMoved
    BY <1>3, PopsMoved
  <2> HIDE DEF ch
  <2>4. Enters(queue[o], ch)
    BY <1>1, <2>1 DEF Enters, LockOf, First
  <2>5. ASSUME OwnLocks, LockInv, NEW c \in Channels PROVE OneInside(c)'
    <3>1. CASE c = ch
      <4>1. OneInside(c) /\ Enters(queue[o], c) /\ inside' = Enter(inside, c)
        BY <2>2, <2>4, <2>5, <3>1 DEF LockInv
      <4>2. inside[c] = 0 \/ forced[c]
        BY <4>1 DEF OneInside
      <4>3. \A l \in Owners : Enters(queue[l], c) /\ ~forced[c] => l = o
        BY <4>1 DEF OneInside
      <4>4. CASE forced[c]
        <5>1. inside'[c] = 0 /\ forced'[c]
          BY <1>1, <4>1, <4>4 DEF Enter, OneInside
        <5> QED
          BY <5>1 DEF OneInside
      <4>5. CASE ~forced[c]
        <5>1. channels'[c].locked
          BY <1>1, <4>1, <4>5 DEF OneInside
        <5> QED
          BY <1>1, <1>2, <1>3, <2>5, <4>1, <4>2, <4>3, <5>1, Passing
      <4> QED
        BY <4>4, <4>5
    <3>2. CASE c # ch
      <4>1. ~LockOf(Head(queue[o]), c)
        BY <3>2, <2>1 DEF LockOf, First
      <4>2. Calm(c)
        BY <1>1, <1>3, <2>5, <4>1, EmptyCalm
      <4>3. inside'[c] = inside[c]
        BY <3>2, <1>2, <2>1, <2>2, <2>5, EnterElsewhere
      <4>4. Kept(c)
        BY <1>1, <4>3 DEF Kept
      <4> QED
        BY <2>5, <4>2, <4>4, CalmHolds DEF LockInv
    <3> QED
      BY <3>1, <3>2
  <2>6. OwnLocks /\ LockInv => LockInv'
    BY <2>5 DEF LockInv
  <2> QED
    BY <2>3, <2>6 DEF Orderly
<1> QED
  BY <1>4, <1>5

\* A step that passes on only the lock of one channel leaves the others calm.
LEMMA CalmElsewhere ==
  ASSUME OwnLocks, IInv, IInv', NEW o \in Owners, queue[o] # <<>>, First(o).cmd.op # "lock",
         NEW woken, Pops(o, woken), NEW ch \in Channels, NEW c \in Channels, c # ch,
         \A w \in Owners : w \in woken => First(w).cmd = [op |-> "lock", ch |-> ch]
  PROVE  Calm(c)
<1>1. ASSUME NEW w \in Owners, w \in woken PROVE ~LockOf(Head(queue[w]), c)
  <2>1. Head(queue[w]).cmd = [op |-> "lock", ch |-> ch]
    BY <1>1 DEF First
  <2>2. [op |-> "lock", ch |-> ch].ch # [op |-> "lock", ch |-> c].ch
    OBVIOUS
  <2> QED
    BY <2>1, <2>2 DEF LockOf
<1>2. \/ queue[o] # <<>> /\ ~LockOf(Head(queue[o]), c)
      \/ Owes(queue'[o], c) => Owes(queue[o], c)
  BY NotLock DEF First
<1> QED
  BY <1>1, <1>2, PopsCalm

\* The lock passes from the line that unlocks to one locker, or to nobody.
LEMMA HandedOn ==
  ASSUME OwnLocks, IInv, IInv', NEW o \in Owners, NEW woken, Pops(o, woken),
         NEW ch \in Channels, OneInside(ch), channels[ch].locked,
         \A v, w \in Owners : v \in woken /\ w \in woken => v = w,
         \A w \in Owners : w \in woken => channels'[ch].locked,
         Owes(queue[o], ch), ~Owes(queue'[o], ch),
         inside \in [Channels -> Nat], inside' = Leave(inside, ch), forced' = forced
  PROVE  OneInside(ch)'
<1>1. CASE forced[ch]
  <2>1. inside'[ch] = 0 /\ forced'[ch]
    BY <1>1 DEF Leave, OneInside
  <2> QED
    BY <2>1 DEF OneInside
<1>2. CASE ~forced[ch]
  <2>1. inside[ch] = 1 /\ inside'[ch] = 0 /\ ~forced'[ch]
    BY <1>2 DEF Leave, OneInside
  <2>2. /\ \A w \in Owners : w \notin woken /\ Enters(queue'[w], ch) =>
              w # o /\ Enters(queue[w], ch)
        /\ \A w \in Owners : w # o /\ Owes(queue'[w], ch) => Owes(queue[w], ch)
    BY PopsOthers
  <2>3. \A w \in Owners : Enters(queue'[w], ch) => w \in woken
    BY <2>1, <2>2, <1>2 DEF OneInside
  <2>4. \A w \in Owners : ~Owes(queue'[w], ch)
    BY <2>2, <1>2 DEF OneInside
  <2>5. \A w \in Owners : Enters(queue'[w], ch) => inside'[ch] = 0 /\ channels'[ch].locked
    BY <2>1, <2>3
  <2>6. \A v, w \in Owners : Enters(queue'[v], ch) /\ Enters(queue'[w], ch) => v = w
    BY <2>3
  <2> QED
    BY <2>1, <2>4, <2>5, <2>6 DEF OneInside
<1> QED
  BY <1>1, <1>2

LEMMA UnlockIs ==
  ASSUME NEW cmd \in Commands, cmd.op = "unlock"
  PROVE  cmd = [op |-> "unlock", ch |-> cmd.ch]
<1>1. cmd \in [op : {"wait", "signal", "lock", "unlock"}, ch : Channels]
  BY DEF Commands
<1> QED
  BY <1>1

LEMMA UnlockOrderly ==
  ASSUME IInv, IInv', NEW o \in Owners, Unlock(o)
  PROVE  Orderly
<1> DEFINE ch == First(o).cmd.ch
           w == channels[ch]
           x == IF w.lockers # <<>> THEN [w EXCEPT !.lockers = Tail(@)]
                ELSE Removed([w EXCEPT !.locked = FALSE])
           woken == IF w.lockers # <<>> THEN {Head(w.lockers)} ELSE {}
<1>1. /\ queue[o] # <<>> /\ ~Waiting(o) /\ w.locked
      /\ First(o).cmd \in Commands /\ First(o).cmd.op = "unlock"
  BY TypesHold, FiresIs DEF Unlock
<1>2. ch \in Channels /\ First(o).cmd = [op |-> "unlock", ch |-> ch]
  BY <1>1, CommandIs, UnlockIs
<1>3. Good(w)
  BY <1>2 DEF IInv, ChannelsGood
<1>4. inside' = Leave(inside, ch) /\ forced' = forced /\ inside \in [Channels -> Nat]
      /\ channels = [c \in Channels |-> channels[c]]
  BY DEF Unlock, IInv, Counted, ChannelsGood
<1>5. channels' = [channels EXCEPT ![ch] = x] /\ Normal(o, woken)
  BY DEF Unlock
<1>6. \A l \in Owners : l \in woken => l \in Range(w.lockers)
  BY <1>3, RangeTail DEF Good
<1>7. \A l \in Owners : l \in woken =>
         Waiting(l) /\ First(l).cmd = [op |-> "lock", ch |-> ch]
  BY <1>2, <1>6 DEF IInv, WaitersListed
<1>8. \A v, l \in Owners : v \in woken /\ l \in woken => v = l
  OBVIOUS
<1>9. \A l \in Owners : l \in woken => x.locked
  BY <1>1, <1>3 DEF Good
<1> HIDE DEF x, w, woken
<1>10. Pops(o, woken) /\ queue'[o] = Tail(queue[o])
  BY <1>1, <1>5, <1>7, NormalPops
<1>11. AllMoved
  BY <1>10, PopsMoved
<1>12. channels'[ch] = x /\ \A c \in Channels : c # ch => channels'[c] = channels[c]
  BY <1>2, <1>4, <1>5
<1>13. First(o).cmd.op # "lock"
  BY <1>1
<1>14. queue[o] \in Seq(ItemSet) /\ UnlockOf(queue[o][1], ch)
  <2>1. queue[o] \in Seq(ItemSet)
    BY BothQueues
  <2>2. Head(queue[o]) = queue[o][1]
    BY <1>1, <2>1, HeadTail
  <2> QED
    BY <1>2, <2>1, <2>2 DEF UnlockOf, First
<1>15. ASSUME OwnLocks, AllTidy, LockInv, NEW c \in Channels PROVE OneInside(c)'
  <2>1. CASE c = ch
    <3>1. Owes(queue[o], c) /\ ~Owes(queue'[o], c)
      BY <1>1, <1>10, <1>14, <1>15, <2>1, UnlockOwes DEF AllTidy
    <3>2. /\ OneInside(c) /\ channels[c].locked /\ inside' = Leave(inside, c)
          /\ \A l \in Owners : l \in woken => channels'[c].locked
      BY <1>1, <1>4, <1>9, <1>12, <1>15, <2>1 DEF LockInv, w
    <3> HIDE DEF ch
    <3> QED
      BY <1>4, <1>8, <1>10, <1>15, <3>1, <3>2, HandedOn
  <2>2. CASE c # ch
    <3>1. Calm(c)
      BY <1>1, <1>2, <1>7, <1>10, <1>13, <1>15, <2>2, CalmElsewhere
    <3>2. inside'[c] = inside[c]
      BY <1>2, <1>4, <1>15, <2>2, EnterElsewhere
    <3>3. Kept(c)
      BY <1>4, <1>12, <1>15, <2>2, <3>2 DEF Kept
    <3> QED
      BY <1>15, <3>1, <3>3, CalmHolds DEF LockInv
  <2> QED
    BY <2>1, <2>2
<1>16. OwnLocks /\ AllTidy /\ LockInv => LockInv'
  BY <1>15 DEF LockInv
<1> QED
  BY <1>11, <1>16 DEF Orderly

LEMMA WakeOrderly ==
  ASSUME IInv, IInv', NEW o \in Owners, Wake(o)
  PROVE  Orderly
<1> DEFINE ch == First(o).cmd.ch
           who == First(o).cmd.who
           w == channels[ch]
<1>1. /\ queue[o] # <<>> /\ ~Waiting(o)
      /\ First(o).cmd \in Commands /\ First(o).cmd.op = "wake" /\ First(o).cmd.op # "lock"
  BY TypesHold, FiresIs DEF Wake
<1>2. ch \in Channels
  BY <1>1, CommandIs
<1>3. Good(w) /\ w.waiters \subseteq Owners /\ Range(w.lockers) \subseteq Owners
  BY <1>2, RangeIs DEF IInv, ChannelsGood, Good
<1>4. channels = [c \in Channels |-> channels[c]] /\ inside \in [Channels -> Nat]
      /\ forced \in [Channels -> BOOLEAN]
  BY DEF IInv, Counted, ChannelsGood
<1>5. CASE who \in w.waiters
  <2> DEFINE y == [w EXCEPT !.waiters = @ \ {who}]
             woken == {who}
  <2>1. channels' = [channels EXCEPT ![ch] = RemovedEmpty(y)] /\ Normal(o, woken)
        /\ UNCHANGED history
    BY <1>5 DEF Wake
  <2>2. y.locked = w.locked
    BY <1>3 DEF Good
  <2> HIDE DEF y
  <2>3. channels[ch].locked => RemovedEmpty(y).locked
    BY <2>2 DEF RemovedEmpty
  <2>4. \A l \in Owners : l \in woken => Waiting(l) /\ First(l).cmd.op # "lock"
    BY <1>2, <1>5, OneList DEF IInv
  <2> HIDE DEF who, w, woken
  <2>5. \A c \in Channels : Kept(c)
    BY <1>2, <2>1, <2>3, KeptChannels
  <2>6. Pops(o, woken)
    BY <1>1, <2>1, <2>4, NormalPops
  <2>7. \A l \in Owners : l \in woken => First(l).cmd.op # "lock"
    BY <2>4
  <2>8. queue[o] # <<>> /\ First(o).cmd.op # "lock"
    BY <1>1
  <2> QED
    BY <2>5, <2>6, <2>7, <2>8, PopsOrderly
<1>6. CASE who \notin w.waiters /\ who \in Range(w.lockers)
  <2> DEFINE x == RemovedEmpty([w EXCEPT !.lockers = Without(@, who)])
             woken == {who}
  <2>1. channels' = [channels EXCEPT ![ch] = x] /\ Normal(o, woken)
        /\ forced' = [forced EXCEPT ![ch] = TRUE] /\ inside' = [inside EXCEPT ![ch] = 0]
    BY <1>6 DEF Wake
  <2>2. \A l \in Owners : l \in woken =>
          Waiting(l) /\ First(l).cmd = [op |-> "lock", ch |-> ch]
    <3>1. \A l \in Owners : l \in Range(w.lockers) =>
            Waiting(l) /\ First(l).cmd = [op |-> "lock", ch |-> ch]
      BY <1>2 DEF IInv, WaitersListed
    <3>2. \A l \in Owners : l \in woken => l \in Range(w.lockers)
      BY <1>6
    <3> QED
      BY <3>1, <3>2
  <2> HIDE DEF x, who, w, woken
  <2>3. Pops(o, woken)
    BY <1>1, <2>1, <2>2, NormalPops
  <2>4. AllMoved
    BY <2>3, PopsMoved
  <2>5. /\ inside'[ch] = 0 /\ forced'[ch]
        /\ \A c \in Channels : c # ch =>
             inside'[c] = inside[c] /\ forced'[c] = forced[c] /\ channels'[c] = channels[c]
    BY <1>2, <1>4, <2>1
  <2>6. ASSUME OwnLocks, LockInv, NEW c \in Channels PROVE OneInside(c)'
    <3>1. CASE c = ch
      BY <2>5, <3>1 DEF OneInside
    <3>2. CASE c # ch
      <4>1. Calm(c)
        BY <1>1, <1>2, <2>2, <2>3, <2>6, <3>2, CalmElsewhere
      <4>2. Kept(c)
        BY <2>5, <2>6, <3>2 DEF Kept
      <4> QED
        BY <2>6, <4>1, <4>2, CalmHolds DEF LockInv
    <3> QED
      BY <3>1, <3>2
  <2>7. OwnLocks /\ LockInv => LockInv'
    BY <2>6 DEF LockInv
  <2> QED
    BY <2>4, <2>7 DEF Orderly
<1>7. CASE who \notin w.waiters /\ who \notin Range(w.lockers)
  <2>1. Normal(o, {}) /\ UNCHANGED <<channels, history>>
    BY <1>7 DEF Wake
  <2>2. Pops(o, {})
    BY <1>1, <2>1, NormalPops
  <2> QED
    BY <1>1, <2>1, <2>2, UnchangedKept, PopsOrderly
<1> QED
  BY <1>5, <1>6, <1>7

\* At exit no lock passes on: each one that was taken is broken.
LEMMA AppendedThenSame ==
  ASSUME NEW s \in Seq(ItemSet), NEW t \in Seq(ItemSet), NEW u \in Seq(ItemSet),
         Appended(s, t), SameShape(t, u)
  PROVE  Appended(s, u)
<1>1. /\ Len(u) = Len(t) /\ Len(s) \in Nat /\ Len(t) \in Nat
      /\ \A i \in 1..Len(t) : u[i].cmd = t[i].cmd /\ u[i].group = t[i].group /\ u[i].line = t[i].line
  BY DEF SameShape, SameItem
<1>2. \A i \in 1..Len(t), ch \in Channels :
        (UnlockOf(u[i], ch) <=> UnlockOf(t[i], ch)) /\ (LockOf(u[i], ch) <=> LockOf(t[i], ch))
  BY <1>1 DEF UnlockOf, LockOf
<1>3. Len(s) <= Len(u) /\ \A i \in 1..Len(s) : SameItem(u[i], s[i])
  BY <1>1 DEF Appended, SameItem
<1>4. ASSUME NEW i \in (Len(s) + 1)..Len(u)
      PROVE  /\ u[i].line = NextLine(s) /\ (u[i].group < 6 \/ u[i].group = NextLine(s))
             /\ OwnLocks => \A ch \in Channels : UnlockOf(u[i], ch) =>
                  /\ u[i].group = NextLine(s)
                  /\ \E j \in (Len(s) + 1)..(i - 1) :
                       /\ LockOf(u[j], ch) /\ u[j].group = u[i].group
                       /\ \A k \in (j + 1)..(i - 1) : ~UnlockOf(u[k], ch)
  <2>1. i \in (Len(s) + 1)..Len(t) /\ i \in 1..Len(t)
    BY <1>1
  <2>2. u[i].line = NextLine(s) /\ (u[i].group < 6 \/ u[i].group = NextLine(s))
    BY <1>1, <2>1 DEF Appended
  <2>3. ASSUME OwnLocks, NEW ch \in Channels, UnlockOf(u[i], ch)
        PROVE  /\ u[i].group = NextLine(s)
               /\ \E j \in (Len(s) + 1)..(i - 1) :
                    /\ LockOf(u[j], ch) /\ u[j].group = u[i].group
                    /\ \A k \in (j + 1)..(i - 1) : ~UnlockOf(u[k], ch)
    <3>1. UnlockOf(t[i], ch)
      BY <1>2, <2>1, <2>3
    <3>2. /\ t[i].group = NextLine(s)
          /\ \E j \in (Len(s) + 1)..(i - 1) :
               /\ LockOf(t[j], ch) /\ t[j].group = t[i].group
               /\ \A k \in (j + 1)..(i - 1) : ~UnlockOf(t[k], ch)
      BY <2>1, <2>3, <3>1 DEF Appended
    <3>3. PICK j \in (Len(s) + 1)..(i - 1) :
            /\ LockOf(t[j], ch) /\ t[j].group = t[i].group
            /\ \A k \in (j + 1)..(i - 1) : ~UnlockOf(t[k], ch)
      BY <3>2
    <3>4. j \in 1..Len(t) /\ \A k \in (j + 1)..(i - 1) : k \in 1..Len(t)
      BY <1>1, <2>1
    <3>5. /\ LockOf(u[j], ch) /\ u[j].group = u[i].group
          /\ \A k \in (j + 1)..(i - 1) : ~UnlockOf(u[k], ch)
      BY <1>1, <1>2, <2>1, <3>3, <3>4
    <3> QED
      BY <1>1, <2>1, <3>2, <3>5
  <2> QED
    BY <2>2, <2>3
<1> QED
  BY <1>3, <1>4 DEF Appended

\* A hook behind the global queue and an end of waits keep the items in order.
LEMMA HookedAppends ==
  ASSUME NEW q \in Queues, OnlyFirst(q), NEW e \in Events,
         NEW r, r = q \/ r = HookQueued(q, e),
         NEW on, \A o \in Owners : o \in on => q[o] # <<>>, NEW w \in Owners
  PROVE  /\ Appended(q[w], Woken(r, on)[w])
         /\ w # Global => SameShape(q[w], Woken(r, on)[w])
         /\ \A ch \in Channels : Enters(Woken(r, on)[w], ch) =>
              /\ q[w] # <<>> /\ LockOf(Head(q[w]), ch)
              /\ w \notin on => Enters(q[w], ch)
<1> DEFINE t == Woken(r, on)
<1>1. /\ r \in Queues /\ OnlyFirst(r) /\ Global \in Owners
      /\ Appended(q[Global], r[Global])
      /\ \A o \in Owners : /\ o # Global => r[o] = q[o]
                           /\ q[o] # <<>> => r[o] # <<>> /\ Head(r[o]) = Head(q[o])
                           /\ q[o] = <<>> /\ r[o] # <<>> => Head(r[o]).state = "new"
  <2>1. CASE r = q
    <3>1. Global \in Owners /\ q[Global] \in Seq(ItemSet)
      BY DEF Owners, Queues
    <3> QED
      BY <2>1, <3>1, SelfSame, SameAppended
  <2>2. CASE r = HookQueued(q, e)
    BY <2>2, HookAppends, HookQueuedIs DEF Owners
  <2> QED
    BY <2>1, <2>2
<1>2. /\ t \in Queues /\ OnlyFirst(t) /\ SameShape(r[w], t[w])
      /\ w \notin on \/ r[w] = <<>> => t[w] = r[w]
      /\ w \in on /\ r[w] # <<>> =>
           t[w] # <<>> /\ Head(t[w]) = [Head(r[w]) EXCEPT !.state = "woken"]
  BY <1>1, WokenIs, WokenSame
<1>3. q[w] \in Seq(ItemSet) /\ r[w] \in Seq(ItemSet) /\ t[w] \in Seq(ItemSet)
  BY <1>1, <1>2 DEF Queues
<1> HIDE DEF t
<1>4. Appended(q[w], r[w])
  <2>1. CASE w = Global
    BY <1>1, <2>1
  <2>2. CASE w # Global
    BY <1>1, <1>3, <2>2, SelfSame, SameAppended
  <2> QED
    BY <2>1, <2>2
<1>5. Appended(q[w], t[w])
  BY <1>2, <1>3, <1>4, AppendedThenSame
<1>6. w # Global => SameShape(q[w], t[w])
  BY <1>1, <1>2
<1>7. ASSUME NEW ch \in Channels, Enters(t[w], ch)
      PROVE  /\ q[w] # <<>> /\ LockOf(Head(q[w]), ch)
             /\ w \notin on => Enters(q[w], ch)
  <2>1. r[w] # <<>> /\ LockOf(Head(r[w]), ch)
    BY <1>2, <1>3, <1>7, SameHeads
  <2>2. w \notin on => Enters(r[w], ch)
    BY <1>2, <1>7
  <2> QED
    BY <1>1, <2>1, <2>2 DEF Enters
<1> QED
  BY <1>5, <1>6, <1>7 DEF t

LEMMA FlushOrderly ==
  ASSUME IInv, IInv', LoopFlush
  PROVE  Orderly
<1> DEFINE all == UNION ({channels[ch].waiters \cup Range(channels[ch].lockers) :
                            ch \in Channels}
                           \cup {watching[e] : e \in Events})
<1> DEFINE hooked == HookQueued(queue, "resized")
<1>0. queue' = Woken(queue, all) \/ queue' = Woken(hooked, all)
  BY DEF LoopFlush
<1> HIDE DEF hooked
<1>1. /\ forced' = [ch \in Channels |-> forced[ch] \/ channels[ch].locked]
      /\ inside' = [ch \in Channels |-> IF forced'[ch] THEN 0 ELSE inside[ch]]
  BY DEF LoopFlush
<1>2. \A o :
        o \in all <=>
          \/ \E ch \in Channels : o \in channels[ch].waiters \cup Range(channels[ch].lockers)
          \/ \E e \in Events : o \in watching[e]
  OBVIOUS
<1> HIDE DEF all
<1>3. queue \in Queues /\ OnlyFirst(queue) /\ inside \in [Channels -> Nat]
  BY DEF IInv, Queued, Counted
<1>4. ASSUME NEW w \in Owners
      PROVE  /\ Appended(queue[w], queue'[w])
             /\ \A ch \in Channels : Enters(queue'[w], ch) =>
                  /\ queue[w] # <<>> /\ LockOf(Head(queue[w]), ch)
                  /\ w \notin all => Enters(queue[w], ch)
  <2>1. "resized" \in Events
    BY DEF Events
  <2>2. \A o \in Owners : o \in all => queue[o] # <<>>
    BY <1>2, OneList DEF IInv, Waiting
  <2>3. PICK r : queue' = Woken(r, all) /\ (r = queue \/ r = HookQueued(queue, "resized"))
    BY <1>0 DEF hooked
  <2> QED
    BY <1>3, <2>1, <2>2, <2>3, HookedAppends
<1>5. AllMoved
  BY <1>4 DEF AllMoved, Moved
<1>6. ASSUME OwnLocks, LockInv, NEW c \in Channels PROVE OneInside(c)'
  <2>1. CASE forced'[c]
    <3>1. inside'[c] = 0
      BY <1>1, <1>6, <2>1
    <3> QED
      BY <2>1, <3>1 DEF OneInside
  <2>2. CASE ~forced'[c]
    <3>1. ~forced[c] /\ ~channels[c].locked /\ inside'[c] = inside[c]
      BY <1>1, <1>6, <2>2
    <3>2. OneInside(c) /\ inside[c] \in Nat
      BY <1>3, <1>6 DEF LockInv
    <3>3. inside'[c] = 0
      BY <3>1, <3>2 DEF OneInside
    <3>4. \A w \in Owners : ~Owes(queue'[w], c)
      <4>1. \A w \in Owners : ~Owes(queue[w], c)
        BY <3>1, <3>2, <3>3 DEF OneInside
      <4> QED
        BY <1>4, <1>6, <4>1, BothQueues, AppendedOwes
    <3>5. ASSUME NEW w \in Owners, Enters(queue'[w], c) PROVE FALSE
      <4>1. queue[w] # <<>> /\ LockOf(Head(queue[w]), c)
        BY <1>4, <3>5
      <4>2. First(w).cmd = [op |-> "lock", ch |-> c] /\ First(w).cmd.op = "lock"
            /\ First(w).cmd.ch = c
        BY <4>1 DEF LockOf, First
      <4>3. w \in all
        <5>1. CASE w \notin all
          <6>1. Enters(queue[w], c)
            BY <1>4, <3>5, <5>1
          <6> QED
            BY <3>1, <3>2, <6>1 DEF OneInside
        <5> QED
          BY <5>1
      <4>4. PICK ch \in Channels : w \in Range(channels[ch].lockers)
        <5>1. /\ \A ch \in Channels : w \notin channels[ch].waiters
              /\ \A e \in Events : w \notin watching[e]
          BY <4>2, OneList DEF IInv
        <5> QED
          BY <1>2, <4>3, <5>1
      <4>5. ch = c
        BY <4>2, <4>4, OneList DEF IInv
      <4>6. channels[c].lockers # <<>>
        BY <4>4, <4>5 DEF Range
      <4>7. Good(channels[c])
        BY <1>6 DEF IInv, ChannelsGood
      <4> QED
        BY <3>1, <4>6, <4>7 DEF Good
    <3> QED
      BY <2>2, <3>3, <3>4, <3>5 DEF OneInside
  <2> QED
    BY <2>1, <2>2
<1>7. OwnLocks /\ LockInv => LockInv'
  BY <1>6 DEF LockInv
<1> QED
  BY <1>5, <1>7 DEF Orderly

-----------------------------------------------------------------------------
(* Events, and the steps that leave the queues alone.                      *)

\* Queues that only grow, or whose item goes on but wants no lock.
LEMMA QuietOrderly ==
  ASSUME IInv, IInv', AllMoved, \A ch \in Channels : Kept(ch),
         \A w \in Owners, ch \in Channels :
           /\ Enters(queue'[w], ch) => Enters(queue[w], ch)
           /\ OwnLocks /\ Owes(queue'[w], ch) => Owes(queue[w], ch)
  PROVE  Orderly
<1>1. ASSUME OwnLocks, NEW ch \in Channels PROVE Calm(ch)
  BY <1>1 DEF Calm
<1> QED
  BY <1>1, AllCalm DEF Orderly

LEMMA StillOrderly ==
  ASSUME IInv, IInv', UNCHANGED <<queue, channels, history>>
  PROVE  Orderly
<1>1. queue' = queue /\ \A ch \in Channels : Kept(ch)
  BY UnchangedKept
<1>2. AllMoved
  BY <1>1, BothQueues, SelfSame, SameAppended DEF AllMoved, Moved
<1> QED
  BY <1>1, <1>2, QuietOrderly

\* What the window's event brings comes last, and those that go on wait for it.
LEMMA LoopEndOrderly ==
  ASSUME IInv, IInv', LoopEnd
  PROVE  Orderly
<1>1. CheckWindows /\ UNCHANGED <<channels, history>>
  BY DEF LoopEnd
<1>2. CASE UNCHANGED queue
  BY <1>1, <1>2, StillOrderly
<1>3. CASE ~UNCHANGED queue
  <2>1. PICK on \in SUBSET watching["resized"] :
          queue' = Woken(HookQueued(queue, "resized"), on)
    BY <1>1, <1>3 DEF CheckWindows
  <2>2. "resized" \in Events /\ queue \in Queues /\ OnlyFirst(queue)
    BY DEF Events, IInv, Queued
  <2>3. \A w \in Owners : w \in on => queue[w] # <<>> /\ First(w).cmd.op = "event"
    BY <2>2, OneList DEF IInv, Waiting
  <2>4. PICK r : r = HookQueued(queue, "resized") /\ queue' = Woken(r, on)
    BY <2>1
  <2>5. ASSUME NEW w \in Owners
        PROVE  /\ Appended(queue[w], queue'[w])
               /\ \A ch \in Channels : Enters(queue'[w], ch) =>
                    /\ queue[w] # <<>> /\ LockOf(Head(queue[w]), ch)
                    /\ w \notin on => Enters(queue[w], ch)
    BY <2>2, <2>3, <2>4, HookedAppends
  <2>6. AllMoved
    BY <2>5 DEF AllMoved, Moved
  <2>7. \A ch \in Channels : Kept(ch)
    BY <1>1, UnchangedKept
  <2>8. ASSUME NEW w \in Owners, NEW ch \in Channels, Enters(queue'[w], ch)
        PROVE  Enters(queue[w], ch)
    <3>1. LockOf(First(w), ch) => w \notin on
      BY <2>3 DEF LockOf
    <3> QED
      BY <2>5, <2>8, <3>1 DEF First
  <2>9. ASSUME OwnLocks, NEW w \in Owners, NEW ch \in Channels, Owes(queue'[w], ch)
        PROVE  Owes(queue[w], ch)
    BY <2>5, <2>9, BothQueues, AppendedOwes
  <2> QED
    BY <2>6, <2>7, <2>8, <2>9, QuietOrderly
<1> QED
  BY <1>2, <1>3

LEMMA RequestOrderly ==
  ASSUME IInv, IInv', NEW c \in Clients, NEW cmds \in Lines, Request(c, cmds)
  PROVE  Orderly
<1>1. /\ Appended(queue[c], queue'[c])
      /\ \A ch \in Channels : Enters(queue'[c], ch) => Enters(queue[c], ch)
      /\ \A w \in Owners : w # c => queue'[w] = queue[w]
  BY RequestAppends
<1>2. \A ch \in Channels : Kept(ch)
  BY UnchangedKept DEF Request
<1>3. \A w \in Owners : Appended(queue[w], queue'[w])
  BY <1>1, BothQueues, SelfSame, SameAppended
<1>4. AllMoved
  BY <1>3 DEF AllMoved, Moved
<1>5. ASSUME OwnLocks, NEW w \in Owners, NEW ch \in Channels, Owes(queue'[w], ch)
      PROVE  Owes(queue[w], ch)
  BY <1>3, <1>5, BothQueues, AppendedOwes
<1>6. \A w \in Owners, ch \in Channels : Enters(queue'[w], ch) => Enters(queue[w], ch)
  BY <1>1
<1> QED
  BY <1>2, <1>4, <1>5, <1>6, QuietOrderly

LEMMA JobOrderly ==
  ASSUME IInv, IInv', NEW o \in Owners, NEW succeeded, JobDone(o, succeeded)
  PROVE  Orderly
<1>1. /\ Moved(queue[o], queue'[o])
      /\ \A w \in Owners : w # o => queue'[w] = queue[w]
      /\ queue[o] # <<>> /\ First(o).cmd.op \in {"job", "if"}
      /\ \A ch \in Channels : ~Enters(queue'[o], ch)
  BY JobFollows
<1>2. \A ch \in Channels : Kept(ch)
  BY UnchangedKept DEF JobDone
<1>3. AllMoved
  BY <1>1, BothQueues, SelfSame, SameAppended DEF AllMoved, Moved
<1>4. ASSUME NEW ch \in Channels PROVE ~LockOf(queue[o][1], ch)
  <2>1. Head(queue[o]) = queue[o][1]
    BY <1>1, BothQueues, HeadTail
  <2>2. First(o).cmd.op # "lock"
    BY <1>1
  <2> QED
    BY <2>1, <2>2 DEF First, LockOf
<1>5. ASSUME OwnLocks, NEW w \in Owners, NEW ch \in Channels, Owes(queue'[w], ch)
      PROVE  Owes(queue[w], ch)
  <2>1. CASE w = o
    BY <1>1, <1>4, <1>5, <2>1, BothQueues, MovedOwes
  <2>2. CASE w # o
    BY <1>1, <1>5, <2>2
  <2> QED
    BY <2>1, <2>2
<1>6. \A w \in Owners, ch \in Channels : Enters(queue'[w], ch) => Enters(queue[w], ch)
  BY <1>1
<1> QED
  BY <1>2, <1>3, <1>5, <1>6, QuietOrderly

\* A lost client's queue is run, those that waited for client-detached go on and
\* its hook goes behind the global queue.
LEMMA LostOrderly ==
  ASSUME IInv, IInv', NEW c \in Clients, Lost(c)
  PROVE  Orderly
<1> DEFINE q == [queue EXCEPT ![c] = LostQueue(c)]
<1>1. PICK on, r :
        /\ \A w \in Owners : w \in on => w \in watching["detached"] /\ w # c
        /\ r = HookQueued(q, "detached") \/ r = q
        /\ queue' = Woken(r, on)
  <2> DEFINE left == [e \in Events |-> watching[e] \ {c}]
  <2>0. "detached" \in Events /\ left["detached"] = watching["detached"] \ {c}
    BY DEF Events
  <2>1. CASE c \in Attached
    <3>1. PICK seen \in SUBSET left["detached"] : queue' = Woken(HookQueued(q, "detached"), seen)
      BY <2>1 DEF Lost
    <3> QED
      BY <2>0, <3>1
  <2>2. CASE c \notin Attached
    <3>1. queue' = q
      BY <2>2 DEF Lost
    <3>2. q = Woken(q, {})
      BY DEF Woken, IInv, Queued, Queues
    <3> DEFINE nobody == {}
    <3>3. /\ queue' = Woken(q, nobody)
          /\ \A w \in Owners : w \in nobody => w \in watching["detached"] /\ w # c
      BY <3>1, <3>2
    <3> HIDE DEF nobody, q
    <3> QED
      BY <3>3
  <2> QED
    BY <2>1, <2>2
<1>2. /\ queue \in Queues /\ OnlyFirst(queue) /\ c \in Owners /\ c # Global /\ Global \in Owners
      /\ "detached" \in Events
  BY Constants DEF IInv, Queued, Owners, Events
<1>3. /\ q[c] = queue[c] \/ q[c] = <<>>
      /\ \A w \in Owners : w # c => q[w] = queue[w]
  BY <1>2 DEF Queues, LostQueue
<1>4. q \in Queues /\ OnlyFirst(q)
  <2>1. q \in Queues
    <3>1. LostQueue(c) \in Seq(ItemSet)
      BY <1>2 DEF LostQueue, Queues
    <3> QED
      BY <1>2, <3>1 DEF Queues
  <2>2. \A w \in Owners : q[w] = <<>> \/ AllNew(Tail(q[w]))
    BY <1>2, <1>3, OnlyFirstIs
  <2> QED
    BY <2>1, <2>2, OnlyFirstIs
<1> HIDE DEF q
<1>5. \A w \in Owners : w \in on => First(w).cmd.op = "event" /\ q[w] # <<>>
  BY <1>1, <1>2, <1>3, OneList DEF IInv, Waiting
<1>6. ASSUME NEW w \in Owners
      PROVE  /\ Appended(q[w], queue'[w])
             /\ w # Global => SameShape(q[w], queue'[w])
             /\ \A ch \in Channels : Enters(queue'[w], ch) =>
                  /\ q[w] # <<>> /\ LockOf(Head(q[w]), ch)
                  /\ w \notin on => Enters(q[w], ch)
  BY <1>1, <1>2, <1>4, <1>5, HookedAppends
<1>9. ASSUME NEW w \in Owners
      PROVE  Appended(queue[w], queue'[w]) \/ queue'[w] = <<>>
  <2>1. CASE q[w] = queue[w]
    BY <1>6, <2>1
  <2>2. CASE q[w] # queue[w]
    <3>1. q[w] = <<>> /\ w # Global
      BY <1>2, <1>3, <2>2
    <3>2. Len(queue'[w]) = Len(q[w])
      BY <1>6, <3>1 DEF SameShape
    <3>3. Len(queue'[w]) = 0 /\ queue'[w] \in Seq(ItemSet)
      BY <3>1, <3>2, BothQueues
    <3> QED
      BY <3>3
  <2> QED
    BY <2>1, <2>2
<1>10. AllMoved
  BY <1>9, BothQueues, EmptyFollows DEF AllMoved, Moved
<1>11. ASSUME OwnLocks, NEW w \in Owners, NEW ch \in Channels, Owes(queue'[w], ch)
       PROVE  Owes(queue[w], ch)
  <2>1. queue'[w] # <<>>
    <3> SUFFICES ASSUME queue'[w] = <<>> PROVE FALSE
      OBVIOUS
    <3>1. 1..Len(queue'[w]) = {}
      OBVIOUS
    <3> QED
      BY <1>11, <3>1 DEF Owes
  <2> QED
    BY <1>9, <1>11, <2>1, BothQueues, AppendedOwes
<1>12. ASSUME NEW w \in Owners, NEW ch \in Channels, Enters(queue'[w], ch)
       PROVE  Enters(queue[w], ch)
  <2>1. q[w] # <<>> /\ LockOf(Head(q[w]), ch)
    BY <1>6, <1>12
  <2>2. q[w] = queue[w]
    BY <1>3, <2>1
  <2>3. w \notin on
    BY <1>5, <2>1, <2>2 DEF LockOf, First
  <2> QED
    BY <1>6, <1>12, <2>2, <2>3
<1>13. ASSUME NEW ch \in Channels PROVE Kept(ch)
  <2> DEFINE w == channels[ch]
             y == [w EXCEPT !.waiters = @ \ {c}, !.lockers = Without(@, c)]
  <2>1. channels'[ch] = RemovedEmpty(y) /\ UNCHANGED history
    BY DEF Lost, WithoutWaiter
  <2>2. Good(w)
    BY DEF IInv, ChannelsGood
  <2>3. y.locked = w.locked
    BY <2>2 DEF Good
  <2> HIDE DEF y
  <2>4. w.locked => RemovedEmpty(y).locked
    BY <2>3 DEF RemovedEmpty
  <2> QED
    BY <2>1, <2>4 DEF Kept, history
<1> QED
  BY <1>10, <1>11, <1>12, <1>13, QuietOrderly

-----------------------------------------------------------------------------
LEMMA RunItemOrderly ==
  ASSUME IInv, IInv', NEW o \in Owners, RunItem(o)
  PROVE  Orderly
<1>1. CASE Signal(o) \/ Wait(o)
  BY <1>1, SignalOrderly, WaitOrderly
<1>2. CASE Lock(o) \/ Unlock(o)
  BY <1>2, LockOrderly, UnlockOrderly
<1>3. CASE Wake(o) \/ Rouse(o)
  BY <1>3, WakeOrderly, RouseOrderly
<1>4. CASE WaitEvent(o) \/ Shell(o)
  BY <1>4, EventOrderly
<1>5. CASE Plain(o) \/ Fail(o)
  BY <1>5, PlainOrderly, FailOrderly
<1>6. CASE CommandDone(o) \/ Continued(o)
  BY <1>6, CommandDoneOrderly, ContinuedOrderly
<1> QED
  BY <1>1, <1>2, <1>3, <1>4, <1>5, <1>6 DEF RunItem

LEMMA StepOrderly == IInv /\ IInv' /\ [Next]_vars => Orderly
<1> SUFFICES ASSUME IInv, IInv', [Next]_vars PROVE Orderly
  OBVIOUS
<1>1. CASE LoopStart \/ NextQueue \/ LoopAgain \/ UNCHANGED vars
  <2>1. UNCHANGED <<queue, channels, history>>
    BY <1>1 DEF LoopStart, NextQueue, LoopAgain, vars, history
  <2> QED
    BY <2>1, StillOrderly
<1>2. CASE LoopEnd \/ LoopFlush
  BY <1>2, LoopEndOrderly, FlushOrderly
<1>3. ASSUME NEW o \in Owners, RunItem(o) PROVE Orderly
  BY <1>3, RunItemOrderly
<1>4. ASSUME NEW c \in Clients, Connect(c) PROVE Orderly
  <2>1. UNCHANGED <<queue, channels, history>>
    BY <1>4 DEF Connect
  <2> QED
    BY <2>1, StillOrderly
<1>5. ASSUME NEW c \in Clients, Lost(c) PROVE Orderly
  BY <1>5, LostOrderly
<1>6. ASSUME NEW c \in Clients, NEW cmds \in Lines, Request(c, cmds) PROVE Orderly
  BY <1>6, RequestOrderly
<1>7. ASSUME NEW o \in Owners, NEW succeeded \in BOOLEAN, JobDone(o, succeeded) PROVE Orderly
  BY <1>7, JobOrderly
<1> QED
  BY <1>1, <1>2, <1>3, <1>4, <1>5, <1>6, <1>7 DEF Next, ServerLoop

AllSorted == \A o \in Owners : Sorted(queue[o])

LEMMA SortedStep == IInv /\ IInv' /\ AllSorted /\ [Next]_vars => AllSorted'
  BY StepOrderly, BothQueues, MovedSorted DEF Orderly, AllMoved, AllSorted

LEMMA LocksStep ==
  ASSUME OwnLocks
  PROVE  IInv /\ IInv' /\ AllTidy /\ LockInv /\ [Next]_vars => AllTidy' /\ LockInv'
<1> SUFFICES ASSUME IInv, IInv', AllTidy, LockInv, [Next]_vars PROVE AllTidy' /\ LockInv'
  OBVIOUS
<1>1. AllMoved /\ LockInv'
  BY StepOrderly DEF Orderly
<1>2. AllTidy'
  BY <1>1, BothQueues, MovedTidy DEF AllMoved, AllTidy
<1> QED
  BY <1>1, <1>2

LEMMA InitOrderly == Init => AllSorted /\ AllTidy /\ LockInv
<1> SUFFICES ASSUME Init PROVE AllSorted /\ AllTidy /\ LockInv
  OBVIOUS
<1>1. \A o \in Owners : queue[o] = <<>>
  BY DEF Init
<1>2. Tidy(<<>>) /\ \A ch : ~Enters(<<>>, ch) /\ ~Owes(<<>>, ch)
  <2>1. 1..Len(<<>>) = {}
    OBVIOUS
  <2> QED
    BY <2>1 DEF Tidy, Sorted, Grouped, Paired, Started, Enters, Owes
<1>3. \A ch \in Channels : inside[ch] = 0 /\ ~forced[ch]
  BY DEF Init
<1>4. LockInv
  BY <1>1, <1>2, <1>3 DEF LockInv, OneInside
<1> QED
  BY <1>1, <1>2, <1>4 DEF AllSorted, AllTidy, Tidy

LEMMA SortedInOrder == IInv /\ AllSorted => InOrder
<1> SUFFICES ASSUME IInv, AllSorted, NEW o \in Owners, NEW i \in 1..(Len(queue[o]) - 1)
             PROVE  queue[o][i].line <= queue[o][i + 1].line
  BY DEF InOrder
<1>1. queue[o] \in Seq(ItemSet)
  BY DEF IInv, Queued, Queues
<1>2. i \in 1..Len(queue[o]) /\ i + 1 \in 1..Len(queue[o]) /\ i < i + 1
  BY <1>1
<1> QED
  BY <1>2 DEF AllSorted, Sorted

\* What a command inserts comes before the lines that were asked for after its
\* own, whatever hooks and if-shell run and however long a queue waited
\* (cmdq_insert_after, cmdq_insert_hook, cmdq_append).
THEOREM Ordered == Spec => []InOrder
<1>1. Init => AllSorted
  BY InitOrderly
<1>2. IInv /\ IInv' /\ AllSorted /\ [Next]_vars => AllSorted'
  BY SortedStep
<1>3. Spec => []IInv
  BY Invariance
<1>4. IInv /\ AllSorted => InOrder
  BY SortedInOrder
<1> QED
  BY <1>1, <1>2, <1>3, <1>4, PTL DEF Spec

\* At most one line is past wait-for -L of a channel and not yet at its -U, as
\* long as every line unlocks only what it locked (cmd_wait_for_lock,
\* cmd_wait_for_unlock): the lock goes from hand to hand without a gap in which
\* another line could take it.
THEOREM Exclusive ==
  ASSUME OwnLocks
  PROVE  Spec => []LockExclusive
<1>1. Init => AllTidy /\ LockInv
  BY InitOrderly
<1>2. IInv /\ IInv' /\ AllTidy /\ LockInv /\ [Next]_vars => AllTidy' /\ LockInv'
  BY LocksStep
<1>3. Spec => []IInv
  BY Invariance
<1>4. LockInv => LockExclusive
  BY DEF LockInv, OneInside, LockExclusive
<1> QED
  BY <1>1, <1>2, <1>3, <1>4, PTL DEF Spec
=============================================================================
