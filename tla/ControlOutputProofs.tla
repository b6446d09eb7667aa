------------------------ MODULE ControlOutputProofs -------------------------
(***************************************************************************)
(* Theorems about the output of a control mode client, for any number of   *)
(* panes, any buffer sizes and any number of lines and bytes.              *)
(***************************************************************************)
EXTENDS ControlOutputProps, FiniteSetTheorems, SequenceTheorems, TLAPS

-----------------------------------------------------------------------------
(***************************************************************************)
(* Places in a queue.                                                      *)
(***************************************************************************)

\* How many of some places are up to one.
Rank(S, i) == Cardinality({j \in S : j <= i})

LEMMA RankIs ==
  ASSUME NEW S, NEW i, NEW U \in SUBSET S, \A j \in S : j \in U <=> j <= i
  PROVE  Rank(S, i) = Cardinality(U)
PROOF
  <1>1. {j \in S : j <= i} = U
    OBVIOUS
  <1>2. Rank(S, i) = Cardinality({j \in S : j <= i})
    BY Zenon DEF Rank
  <1> QED
    BY <1>1, <1>2

\* Places in a queue are finitely many.
LEMMA PlacesFinite ==
  ASSUME NEW n \in Nat, NEW S \in SUBSET (1..n)
  PROVE  /\ IsFiniteSet(S) /\ Cardinality(S) \in Nat
         /\ \A i : IsFiniteSet({j \in S : j <= i}) /\ Rank(S, i) \in Nat
PROOF
  <1>0. IsFiniteSet(1..n)
    BY FS_Interval
  <1>1. ASSUME NEW T \in SUBSET (1..n) PROVE IsFiniteSet(T) /\ Cardinality(T) \in Nat
    <2>1. IsFiniteSet(T)
      BY <1>0, FS_Subset
    <2> QED
      BY <2>1, FS_CardinalityType
  <1>2. \A i : {j \in S : j <= i} \in SUBSET (1..n)
    OBVIOUS
  <1>3. ASSUME NEW i PROVE IsFiniteSet({j \in S : j <= i}) /\ Rank(S, i) \in Nat
    BY <1>1, <1>2, Zenon DEF Rank
  <1> QED
    BY <1>1, <1>3, Zenon

\* Ranks grow with the places, up to the number of them.
LEMMA RankGrows ==
  ASSUME NEW n \in Nat, NEW S \in SUBSET (1..n)
  PROVE  /\ \A i \in S : Rank(S, i) \in 1..Cardinality(S)
         /\ \A i, k \in S : i < k => Rank(S, i) < Rank(S, k)
PROOF
  <1>1. \A i : IsFiniteSet({j \in S : j <= i}) /\ Rank(S, i) \in Nat
    BY PlacesFinite
  <1>2. IsFiniteSet(S) /\ Cardinality(S) \in Nat
    BY PlacesFinite
  <1>3. ASSUME NEW i \in S PROVE Rank(S, i) \in 1..Cardinality(S)
    <2> DEFINE T == {j \in S : j <= i}
    <2>1. i \in T
      OBVIOUS
    <2>2. Cardinality(T) # 0
      BY <2>1, <1>1, FS_EmptySet
    <2>3. T \in SUBSET S
      OBVIOUS
    <2>4. Rank(S, i) = Cardinality(T) /\ Rank(S, i) \in Nat
      BY <1>1, Zenon DEF Rank
    <2> HIDE DEF T
    <2>5. Cardinality(T) <= Cardinality(S)
      BY <1>2, <2>3, FS_Subset
    <2> QED
      BY <2>2, <2>5, <2>4, <1>2
  <1>4. ASSUME NEW i \in S, NEW k \in S, i < k PROVE Rank(S, i) < Rank(S, k)
    <2> DEFINE T == {j \in S : j <= i}
               U == {j \in S : j <= k}
    <2>0. i \in Nat /\ k \in Nat /\ S \subseteq Nat
      OBVIOUS
    <2>1. T \in SUBSET U /\ k \in U /\ k \notin T
      <3>1. \A j \in S : j <= i => j <= k
        BY <1>4, <2>0
      <3>2. k <= k /\ ~(k <= i)
        BY <1>4, <2>0
      <3> QED
        BY <3>1, <3>2
    <2>2. T # U
      BY <2>1
    <2>3. IsFiniteSet(U)
      BY <1>1
    <2>4. /\ Rank(S, i) = Cardinality(T) /\ Rank(S, k) = Cardinality(U)
          /\ Rank(S, i) \in Nat /\ Rank(S, k) \in Nat
      BY <1>1, Zenon DEF Rank
    <2> HIDE DEF T, U
    <2>5. Cardinality(T) <= Cardinality(U) /\ Cardinality(U) # Cardinality(T)
      BY <2>1, <2>2, <2>3, FS_Subset
    <2> QED
      BY <2>4, <2>5
  <1> QED
    BY <1>3, <1>4

\* Each rank has its place: some places are numbered from 1 without a gap.
LEMMA RankFills ==
  ASSUME NEW n \in Nat, NEW S \in SUBSET (1..n), NEW k \in 1..Cardinality(S)
  PROVE  /\ Nth(S, k) \in S /\ Rank(S, Nth(S, k)) = k
         /\ \A i \in S : Rank(S, i) = k => i = Nth(S, k)
PROOF
  <1> DEFINE m == Cardinality(S)
             f == [i \in S |-> Rank(S, i)]
  <1>1. IsFiniteSet(S) /\ m \in Nat
    BY PlacesFinite
  <1>2. /\ \A i \in S : Rank(S, i) \in 1..m
        /\ \A i, j \in S : i < j => Rank(S, i) < Rank(S, j)
    BY RankGrows
  <1>3. \A i, j \in S : Rank(S, i) = Rank(S, j) => i = j
    <2> SUFFICES ASSUME NEW i \in S, NEW j \in S, Rank(S, i) = Rank(S, j), i # j PROVE FALSE
      OBVIOUS
    <2>1. i < j \/ j < i
      OBVIOUS
    <2> QED
      BY <2>1, <1>2
  <1>4. f \in Injection(S, 1..m)
    BY <1>2, <1>3 DEF Injection, IsInjective
  <1>5. IsFiniteSet(1..m) /\ Cardinality(1..m) = m
    BY <1>1, FS_Interval
  <1>6. f \in Surjection(S, 1..m)
    BY <1>4, <1>5, FS_Injection
  <1>7. \E i \in S : Rank(S, i) = k
    BY <1>6 DEF Surjection
  <1>8. Nth(S, k) = CHOOSE i \in S : Rank(S, i) = k
    BY DEF Nth, Rank
  <1>9. Nth(S, k) \in S /\ Rank(S, Nth(S, k)) = k
    BY <1>7, <1>8
  <1> QED
    BY <1>9, <1>3

\* The order of some places is that of their numbers.
LEMMA NthGrows ==
  ASSUME NEW n \in Nat, NEW S \in SUBSET (1..n),
         NEW k \in 1..Cardinality(S), NEW m \in 1..Cardinality(S)
  PROVE  Nth(S, m) <= Nth(S, k) <=> m <= k
PROOF
  <1> DEFINE i == Nth(S, k)
             j == Nth(S, m)
  <1>1. i \in S /\ Rank(S, i) = k /\ j \in S /\ Rank(S, j) = m
    BY RankFills
  <1>2. Cardinality(S) \in Nat
    BY PlacesFinite
  <1> HIDE DEF i, j
  <1>3. (i < j => k < m) /\ (j < i => m < k)
    BY <1>1, RankGrows
  <1>4. i \in Nat /\ j \in Nat /\ k \in Nat /\ m \in Nat
    BY <1>1, <1>2
  <1>5. i = j => k = m
    BY <1>1
  <1>6. j <= i <=> m <= k
    BY <1>3, <1>4, <1>5
  <1> QED
    BY <1>6 DEF i, j

\* What is at some places, and no more.
LEMMA OnlyPlaces ==
  ASSUME NEW E, NEW s \in Seq(E), NEW S \in SUBSET DOMAIN s
  PROVE  /\ Only(s, S) \in Seq(E) /\ Len(Only(s, S)) = Cardinality(S)
         /\ DOMAIN Only(s, S) = 1..Cardinality(S) /\ Cardinality(S) \in Nat
         /\ \A k \in 1..Cardinality(S) : Nth(S, k) \in S /\ Only(s, S)[k] = s[Nth(S, k)]
PROOF
  <1> DEFINE m == Cardinality(S)
             o == Only(s, S)
  <1>1. Len(s) \in Nat /\ DOMAIN s = 1..Len(s) /\ \A i \in DOMAIN s : s[i] \in E
    BY LenProperties, ElementOfSeq
  <1>2. m \in Nat
    BY <1>1, PlacesFinite
  <1>3. \A k \in 1..m : Nth(S, k) \in S
    BY <1>1, RankFills
  <1>4. o = [k \in 1..m |-> s[Nth(S, k)]]
    BY DEF Only
  <1> HIDE DEF o, m
  <1>5. o \in [1..m -> E]
    BY <1>1, <1>3, <1>4
  <1>6. o \in Seq(E)
    BY <1>2, <1>5, SeqDef
  <1>7. DOMAIN o = 1..m /\ DOMAIN o = 1..Len(o) /\ Len(o) \in Nat
    BY <1>4, <1>6, LenProperties
  <1>8. Len(o) = m
    BY <1>2, <1>7
  <1>9. \A k \in 1..m : Nth(S, k) \in S /\ o[k] = s[Nth(S, k)]
    BY <1>3, <1>4
  <1> QED
    BY <1>2, <1>6, <1>7, <1>8, <1>9 DEF o, m

\* Where some places are among others that they belong to.
Among(S, T) == {k \in 1..Cardinality(S) : Nth(S, k) \in T}

\* There they are as many ...
LEMMA AmongSame ==
  ASSUME NEW n \in Nat, NEW S \in SUBSET (1..n), NEW T \in SUBSET S
  PROVE  Cardinality(Among(S, T)) = Cardinality(T)
PROOF
  <1> DEFINE U == Among(S, T)
             f == [k \in U |-> Nth(S, k)]
  <1>1. U \in SUBSET (1..Cardinality(S)) /\ Cardinality(S) \in Nat
    BY PlacesFinite DEF Among
  <1>2. IsFiniteSet(U)
    BY <1>1, PlacesFinite
  <1>3. \A k \in U : Nth(S, k) \in T
    BY DEF Among
  <1>4. ASSUME NEW i \in T PROVE \E k \in U : Nth(S, k) = i
    <2>1. Rank(S, i) \in 1..Cardinality(S)
      BY RankGrows
    <2>2. Nth(S, Rank(S, i)) = i
      BY <2>1, RankFills
    <2> QED
      BY <2>1, <2>2 DEF Among
  <1>5. ASSUME NEW k \in U, NEW m \in U, Nth(S, k) = Nth(S, m) PROVE k = m
    <2>1. Rank(S, Nth(S, k)) = k /\ Rank(S, Nth(S, m)) = m
      BY <1>1, RankFills
    <2> QED
      BY <1>5, <2>1
  <1> HIDE DEF U
  <1>6. f \in Injection(U, T)
    BY <1>3, <1>5 DEF Injection, IsInjective
  <1>7. f \in Surjection(U, T)
    BY <1>3, <1>4 DEF Surjection
  <1>8. ExistsBijection(U, T)
    BY <1>6, <1>7 DEF ExistsBijection, Bijection
  <1>9. Cardinality(T) = Cardinality(U)
    BY <1>2, <1>8, FS_Bijection
  <1> QED
    BY <1>9 DEF U

\* ... and in the same order.
LEMMA AmongRank ==
  ASSUME NEW n \in Nat, NEW S \in SUBSET (1..n), NEW T \in SUBSET S,
         NEW k \in 1..Cardinality(S)
  PROVE  Rank(Among(S, T), k) = Rank(T, Nth(S, k))
PROOF
  <1> DEFINE V == {j \in T : j <= Nth(S, k)}
  <1>1. \A m \in 1..Cardinality(S) : Nth(S, m) <= Nth(S, k) <=> m <= k
    BY NthGrows
  <1>2. Among(S, V) = {m \in Among(S, T) : m <= k}
    BY <1>1 DEF Among
  <1>3. V \in SUBSET S
    OBVIOUS
  <1>4. Cardinality(Among(S, V)) = Cardinality(V)
    BY <1>3, AmongSame
  <1> QED
    BY <1>2, <1>4 DEF Rank

\* A place has a rank one above that of what is before it.
LEMMA RankNext ==
  ASSUME NEW n \in Nat, NEW S \in SUBSET (1..n), NEW i \in Nat, i + 1 \in S
  PROVE  Rank(S, i + 1) = Rank(S, i) + 1
PROOF
  <1> DEFINE T == {j \in S : j <= i}
  <1>1. IsFiniteSet(T)
    BY PlacesFinite
  <1>2. \A j \in S : j \in T \cup {i + 1} <=> j <= i + 1
    OBVIOUS
  <1>2a. T \cup {i + 1} \in SUBSET S
    OBVIOUS
  <1>3. i + 1 \notin T
    OBVIOUS
  <1>4. Rank(S, i) = Cardinality(T) /\ Rank(S, i + 1) = Cardinality(T \cup {i + 1})
    BY <1>2, <1>2a, RankIs
  <1> HIDE DEF T
  <1>5. Cardinality(T \cup {i + 1}) = Cardinality(T) + 1
    BY <1>1, <1>3, FS_AddElement
  <1> QED
    BY <1>4, <1>5

\* All places are up to the last.
LEMMA RankLast ==
  ASSUME NEW n \in Nat, NEW S \in SUBSET (1..n)
  PROVE  Rank(S, n) = Cardinality(S)
PROOF
  <1>1. \A j \in S : j \in S <=> j <= n
    OBVIOUS
  <1> QED
    BY <1>1, RankIs

\* Without a gap from the first, a place is its own rank.
LEMMA RankLead ==
  ASSUME NEW n \in Nat, NEW S \in SUBSET (1..n), NEW i \in 0..n, 1..i \subseteq S
  PROVE  Rank(S, i) = i
PROOF
  <1>1. \A j \in S : j \in 1..i <=> j <= i
    OBVIOUS
  <1>2. Rank(S, i) = Cardinality(1..i)
    BY <1>1, RankIs
  <1> QED
    BY <1>2, FS_Interval

\* Places behind the others.
LEMMA RankAfter ==
  ASSUME NEW n \in Nat, NEW S \in SUBSET (1..n), NEW m \in Nat
  PROVE  /\ Cardinality(S \cup ((n + 1)..(n + m))) = Cardinality(S) + m
         /\ \A i \in 0..n : Rank(S \cup ((n + 1)..(n + m)), i) = Rank(S, i)
         /\ \A i \in 0..m : Rank(S \cup ((n + 1)..(n + m)), n + i) = Cardinality(S) + i
PROOF
  <1> DEFINE More(i) == (n + 1)..(n + i)
  <1>1. ASSUME NEW i \in 0..m PROVE Cardinality(S \cup More(i)) = Cardinality(S) + i
    <2>1. IsFiniteSet(More(i)) /\ Cardinality(More(i)) = i
      BY FS_Interval
    <2>2. S \cap More(i) = {}
      OBVIOUS
    <2>3. IsFiniteSet(S) /\ Cardinality(S) \in Nat
      BY PlacesFinite
    <2> HIDE DEF More
    <2>4. Cardinality(S \cup More(i)) = Cardinality(S) + Cardinality(More(i)) - Cardinality(S \cap More(i))
      BY <2>1, <2>3, FS_Union
    <2>5. Cardinality(S \cap More(i)) = 0
      BY <2>2, FS_EmptySet
    <2> QED
      BY <2>1, <2>3, <2>4, <2>5
  <1>2. ASSUME NEW i \in 0..n PROVE Rank(S \cup More(m), i) = Rank(S, i)
    <2>1. \A j \in S \cup More(m) : j \in {h \in S : h <= i} <=> j <= i
      OBVIOUS
    <2>2. Rank(S \cup More(m), i) = Cardinality({h \in S : h <= i})
      BY <2>1, RankIs
    <2> QED
      BY <2>2, Zenon DEF Rank
  <1>3. ASSUME NEW i \in 0..m PROVE Rank(S \cup More(m), n + i) = Cardinality(S) + i
    <2>1. \A j \in S \cup More(m) : j \in S \cup More(i) <=> j <= n + i
      OBVIOUS
    <2>2. S \cup More(i) \in SUBSET (S \cup More(m))
      OBVIOUS
    <2>3. Rank(S \cup More(m), n + i) = Cardinality(S \cup More(i))
      <3> HIDE DEF More
      <3> QED
        BY ONLY <2>1, <2>2, RankIs
    <2> QED
      BY <1>1, <2>3
  <1> QED
    BY <1>1, <1>2, <1>3

\* When the first places are all there, the others are behind them.
LEMMA RankShift ==
  ASSUME NEW n \in Nat, NEW S \in SUBSET (1..n), NEW k \in 0..n, 1..k \subseteq S,
         NEW T \in SUBSET (1..(n - k)), \A j \in 1..(n - k) : j \in T <=> j + k \in S
  PROVE  /\ Cardinality(T) = Cardinality(S) - k
         /\ \A i \in 0..(n - k) : Rank(T, i) = Rank(S, i + k) - k
PROOF
  <1> DEFINE Up(i) == {j \in T : j <= i}
             To(i) == {j \in S : j <= i + k}
             Behind(i) == To(i) \ (1..k)
             f(i) == [j \in Up(i) |-> j + k]
  <1>0. T \in SUBSET (1..(n - k)) /\ n - k \in Nat
    OBVIOUS
  <1>1. ASSUME NEW i \in 0..(n - k) PROVE Cardinality(Up(i)) = Cardinality(To(i)) - k
    <2>1. IsFiniteSet(Up(i)) /\ IsFiniteSet(To(i)) /\ Cardinality(To(i)) \in Nat
      <3>1. To(i) \in SUBSET (1..n) /\ Up(i) \in SUBSET (1..(n - k))
        BY <1>0
      <3> HIDE DEF To, Up
      <3> QED
        BY <1>0, <3>1, PlacesFinite
    <2>2. \A j \in Up(i) : j + k \in Behind(i)
      OBVIOUS
    <2>3. \A j \in Behind(i) : j - k \in Up(i) /\ (j - k) + k = j
      OBVIOUS
    <2>4a. T \subseteq Nat
      BY <1>0
    <2>4b. Up(i) \subseteq T
      OBVIOUS
    <2>4c. k \in Nat
      BY ONLY k \in 0..n, n \in Nat
    <2>4. Up(i) \subseteq Nat /\ k \in Nat
      BY ONLY <2>4a, <2>4b, <2>4c
    <2>5. To(i) \cap (1..k) = 1..k
      OBVIOUS
    <2>6. IsFiniteSet(1..k) /\ Cardinality(1..k) = k
      BY FS_Interval
    <2>7. Cardinality(Behind(i)) = Cardinality(To(i)) - k
      <3> HIDE DEF To
      <3>1. Cardinality(Behind(i)) = Cardinality(To(i)) - Cardinality(To(i) \cap (1..k))
        BY <2>1, FS_Difference
      <3> QED
        BY <3>1, <2>5, <2>6
    <2> HIDE DEF Up, Behind, To
    <2>8. f(i) \in Injection(Up(i), Behind(i))
      BY <2>2, <2>4 DEF Injection, IsInjective
    <2>9. f(i) \in Surjection(Up(i), Behind(i))
      <3>1. f(i) \in [Up(i) -> Behind(i)]
        BY <2>2
      <3>2. ASSUME NEW j \in Behind(i) PROVE \E m \in Up(i) : f(i)[m] = j
        BY <2>3
      <3> QED
        BY <3>1, <3>2 DEF Surjection
    <2>10. ExistsBijection(Up(i), Behind(i))
      BY <2>8, <2>9 DEF ExistsBijection, Bijection
    <2>11. Cardinality(Behind(i)) = Cardinality(Up(i))
      BY <2>1, <2>10, FS_Bijection
    <2> QED
      BY <2>7, <2>11
  <1>2. ASSUME NEW i \in 0..(n - k) PROVE Rank(T, i) = Rank(S, i + k) - k
    <2>1. Rank(T, i) = Cardinality(Up(i)) /\ Rank(S, i + k) = Cardinality(To(i))
      BY Zenon DEF Rank
    <2> QED
      BY <1>1, <2>1
  <1>3. Cardinality(T) = Cardinality(S) - k
    <2>1. Rank(T, n - k) = Cardinality(T) /\ Rank(S, n) = Cardinality(S)
      BY <1>0, RankLast
    <2>2. n - k \in 0..(n - k) /\ (n - k) + k = n
      OBVIOUS
    <2> QED
      BY <1>2, <2>1, <2>2
  <1> QED
    BY <1>2, <1>3

\* The first of some places.
LEMMA FirstPlace ==
  ASSUME NEW n \in Nat, NEW S \in SUBSET (1..n), S # {}
  PROVE  /\ Nth(S, 1) \in S
         /\ \A i \in S : Nth(S, 1) <= i
PROOF
  <1>1. IsFiniteSet(S) /\ Cardinality(S) \in Nat
    BY PlacesFinite
  <1>2. Cardinality(S) # 0
    BY <1>1, FS_EmptySet
  <1>3. 1 \in 1..Cardinality(S)
    BY <1>1, <1>2
  <1>4. Nth(S, 1) \in S /\ Rank(S, Nth(S, 1)) = 1
    BY <1>3, RankFills
  <1>5. ASSUME NEW i \in S, i < Nth(S, 1) PROVE FALSE
    <2>1. Rank(S, i) < Rank(S, Nth(S, 1)) /\ Rank(S, i) \in 1..Cardinality(S)
      BY <1>4, <1>5, RankGrows
    <2> QED
      BY <2>1, <1>1, <1>4
  <1>6. S \subseteq Nat
    OBVIOUS
  <1>7. Nth(S, 1) \in Nat
    BY ONLY <1>4, <1>6
  <1> QED
    BY <1>4, <1>5, <1>6, <1>7

-----------------------------------------------------------------------------
(***************************************************************************)
(* Bytes that blocks announce.                                             *)
(***************************************************************************)

\* The bytes of the blocks at some places.
Bytes(s, T) == UNION {{i} \X (1..s[i].size) : i \in T}

LEMMA BytesAre ==
  ASSUME NEW s, NEW T
  PROVE  /\ \A i \in T : \A b \in 1..s[i].size : <<i, b>> \in Bytes(s, T)
         /\ \A x \in Bytes(s, T) : x[1] \in T /\ x[2] \in 1..s[x[1]].size /\ x = <<x[1], x[2]>>
PROOF
  <1>1. ASSUME NEW i \in T, NEW b \in 1..s[i].size PROVE <<i, b>> \in Bytes(s, T)
    <2>1. <<i, b>> \in {i} \X (1..s[i].size)
      OBVIOUS
    <2> QED
      BY <2>1 DEF Bytes
  <1>2. ASSUME NEW x \in Bytes(s, T)
        PROVE  x[1] \in T /\ x[2] \in 1..s[x[1]].size /\ x = <<x[1], x[2]>>
    <2>1. PICK i \in T : x \in {i} \X (1..s[i].size)
      BY DEF Bytes
    <2> QED
      BY <2>1
  <1> QED
    BY <1>1, <1>2

LEMMA BytesSame ==
  ASSUME NEW s, NEW t, NEW T, \A i \in T : s[i].size = t[i].size
  PROVE  Bytes(s, T) = Bytes(t, T)
PROOF
  <1>1. \A i \in T : {i} \X (1..s[i].size) = {i} \X (1..t[i].size)
    OBVIOUS
  <1>2. {{i} \X (1..s[i].size) : i \in T} = {{i} \X (1..t[i].size) : i \in T}
    BY <1>1
  <1> QED
    BY <1>2 DEF Bytes

LEMMA BytesFinite ==
  ASSUME NEW s, NEW T, IsFiniteSet(T), \A i \in T : s[i].size \in Nat
  PROVE  IsFiniteSet(Bytes(s, T)) /\ Cardinality(Bytes(s, T)) \in Nat
PROOF
  <1> DEFINE Of(i) == {i} \X (1..s[i].size)
             W == {Of(i) : i \in T}
             f == [i \in T |-> Of(i)]
  <1>1. f \in Surjection(T, W)
    <2>1. f \in [T -> W]
      OBVIOUS
    <2>2. \A w \in W : \E i \in T : f[i] = w
      OBVIOUS
    <2> HIDE DEF f, W
    <2> QED
      BY <2>1, <2>2 DEF Surjection
  <1>2. IsFiniteSet(W)
    <2> HIDE DEF f, W
    <2> QED
      BY <1>1, FS_Surjection
  <1>3. ASSUME NEW w \in W PROVE IsFiniteSet(w)
    <2>1. PICK i \in T : w = Of(i)
      OBVIOUS
    <2> DEFINE size == s[i].size
    <2>0. size \in Nat
      OBVIOUS
    <2>2a. IsFiniteSet(1..size)
      <3> HIDE DEF size
      <3> QED
        BY <2>0, FS_Interval
    <2>2. IsFiniteSet({i}) /\ IsFiniteSet(1..s[i].size)
      BY <2>2a, FS_Singleton
    <2> QED
      BY <2>1, <2>2, FS_Product
  <1>4. Bytes(s, T) = UNION W
    BY DEF Bytes
  <1> HIDE DEF W
  <1>5. IsFiniteSet(Bytes(s, T))
    BY <1>2, <1>3, <1>4, FS_UNION
  <1> QED
    BY <1>5, FS_CardinalityType

\* A block's bytes are as many as it announces.
LEMMA BytesWithout ==
  ASSUME NEW s, NEW T, IsFiniteSet(T), \A i \in T : s[i].size \in Nat, NEW i \in T
  PROVE  Cardinality(Bytes(s, T)) = Cardinality(Bytes(s, T \ {i})) + s[i].size
PROOF
  <1> DEFINE A == Bytes(s, T \ {i})
             B == {i} \X (1..s[i].size)
  <1>1. Bytes(s, T) = A \cup B
    <2>1. \A j \in T : j \in T \ {i} \/ j = i
      OBVIOUS
    <2>2. {{j} \X (1..s[j].size) : j \in T} = {{j} \X (1..s[j].size) : j \in T \ {i}} \cup {B}
      BY <2>1
    <2> QED
      BY <2>2 DEF Bytes
  <1>2. A \cap B = {}
    <2> SUFFICES ASSUME NEW x \in A, x \in B PROVE FALSE
      OBVIOUS
    <2>1. x[1] \in T \ {i}
      BY BytesAre
    <2>2. x[1] = i
      OBVIOUS
    <2> QED
      BY <2>1, <2>2
  <1>3. IsFiniteSet(A) /\ Cardinality(A) \in Nat
    <2>1. IsFiniteSet(T \ {i})
      BY FS_RemoveElement
    <2>2. \A j \in T \ {i} : s[j].size \in Nat
      OBVIOUS
    <2> QED
      BY <2>1, <2>2, BytesFinite
  <1>4. IsFiniteSet(B) /\ Cardinality(B) = s[i].size
    <2>1. IsFiniteSet({i}) /\ Cardinality({i}) = 1
      BY FS_Singleton
    <2>0. s[i].size \in Nat
      OBVIOUS
    <2> DEFINE size == s[i].size
    <2> HIDE DEF size
    <2>2a. size \in Nat
      BY <2>0 DEF size
    <2>2b. IsFiniteSet(1..size) /\ Cardinality(1..size) = size
      BY <2>2a, FS_Interval
    <2>2. IsFiniteSet(1..s[i].size) /\ Cardinality(1..s[i].size) = s[i].size
      BY <2>2b DEF size
    <2>3. IsFiniteSet(B) /\ Cardinality(B) = Cardinality({i}) * Cardinality(1..s[i].size)
      BY <2>1, <2>2, FS_Product
    <2> QED
      BY <2>1, <2>2, <2>3
  <1> HIDE DEF A, B
  <1>5. Cardinality(A \cup B) = Cardinality(A) + Cardinality(B) - Cardinality(A \cap B)
    BY <1>3, <1>4, FS_Union
  <1>6. Cardinality(A \cap B) = 0
    BY <1>2, FS_EmptySet
  <1>7. Cardinality(A \cup B) = Cardinality(A) + s[i].size
    BY <1>3, <1>4, <1>5, <1>6
  <1> QED
    BY <1>1, <1>7 DEF A

\* A block at each of some places of a queue is at a place of its own in another.
Moved(s, S, t, T, g) ==
  /\ IsFiniteSet(S) /\ \A i \in S : s[i].size \in Nat
  /\ g \in [S -> T] /\ \A i \in S : t[g[i]].size = s[i].size
  /\ \A i, j \in S : g[i] = g[j] => i = j
  /\ \A j \in T : \E i \in S : g[i] = j

\* Blocks that are elsewhere in another queue announce what they did.
LEMMA BytesMoved ==
  ASSUME NEW s, NEW S, NEW t, NEW T, NEW g, Moved(s, S, t, T, g)
  PROVE  Cardinality(Bytes(t, T)) = Cardinality(Bytes(s, S))
PROOF
  <1>0. /\ IsFiniteSet(S) /\ \A i \in S : s[i].size \in Nat
        /\ g \in [S -> T] /\ \A i \in S : t[g[i]].size = s[i].size
        /\ \A i, j \in S : g[i] = g[j] => i = j
        /\ \A j \in T : \E i \in S : g[i] = j
    BY Zenon DEF Moved
  <1> DEFINE A == Bytes(s, S)
             B == Bytes(t, T)
             h == [x \in A |-> <<g[x[1]], x[2]>>]
  <1>1. ASSUME NEW x \in A PROVE h[x] \in B
    <2>1. x[1] \in S /\ x[2] \in 1..s[x[1]].size
      BY BytesAre
    <2>2. g[x[1]] \in T /\ x[2] \in 1..t[g[x[1]]].size
      BY <2>1, <1>0
    <2>3. <<g[x[1]], x[2]>> \in B
      BY <2>2, BytesAre
    <2> QED
      BY <2>3
  <1>2. ASSUME NEW x \in A, NEW y \in A, h[x] = h[y] PROVE x = y
    <2>1. x[1] \in S /\ x = <<x[1], x[2]>> /\ y[1] \in S /\ y = <<y[1], y[2]>>
      BY BytesAre
    <2>2. g[x[1]] = g[y[1]] /\ x[2] = y[2]
      BY <1>2
    <2>3. x[1] = y[1]
      BY <2>1, <2>2, <1>0
    <2> QED
      BY <2>1, <2>2, <2>3
  <1>3. ASSUME NEW y \in B PROVE \E x \in A : h[x] = y
    <2>1. y[1] \in T /\ y[2] \in 1..t[y[1]].size /\ y = <<y[1], y[2]>>
      BY BytesAre
    <2>2. PICK i \in S : g[i] = y[1]
      BY <2>1, <1>0
    <2>3. y[2] \in 1..s[i].size
      BY <2>1, <2>2, <1>0
    <2>4. <<i, y[2]>> \in A
      BY <2>3, BytesAre
    <2>5. h[<<i, y[2]>>] = y
      BY <2>1, <2>2, <2>4
    <2> QED
      BY <2>4, <2>5
  <1>4. IsFiniteSet(A)
    BY <1>0, BytesFinite
  <1> HIDE DEF A, B
  <1>5. h \in [A -> B]
    BY <1>1
  <1> HIDE DEF h
  <1>6. h \in Injection(A, B)
    BY <1>2, <1>5 DEF Injection, IsInjective
  <1>7. h \in Surjection(A, B)
    BY <1>3, <1>5 DEF Surjection
  <1>8. ExistsBijection(A, B)
    BY <1>6, <1>7 DEF ExistsBijection, Bijection
  <1>9. Cardinality(B) = Cardinality(A)
    BY <1>4, <1>8, FS_Bijection
  <1> QED
    BY <1>9 DEF A, B

-----------------------------------------------------------------------------
(***************************************************************************)
(* The queue of a client: some of it removed.                              *)
(***************************************************************************)

\* The places of a queue.
LEMMA Queue ==
  ASSUME NEW s \in Seq(Entry)
  PROVE  /\ Len(s) \in Nat /\ DOMAIN s = 1..Len(s) /\ \A i \in DOMAIN s : s[i] \in Entry
         /\ LineBlocks(s) \in SUBSET (1..Len(s)) /\ Cardinality(LineBlocks(s)) \in Nat
         /\ IsFiniteSet(LineBlocks(s))
         /\ \A i \in 1..Len(s) : i \in LineBlocks(s) <=> s[i].what \notin Panes
PROOF
  <1>1. Len(s) \in Nat /\ DOMAIN s = 1..Len(s) /\ \A i \in DOMAIN s : s[i] \in Entry
    BY LenProperties, ElementOfSeq
  <1>2. LineBlocks(s) \in SUBSET (1..Len(s))
    BY <1>1 DEF LineBlocks
  <1>3. \A i \in 1..Len(s) : i \in LineBlocks(s) <=> s[i].what \notin Panes
    BY <1>1 DEF LineBlocks, IsOutput
  <1> QED
    BY <1>1, <1>2, <1>3, PlacesFinite

\* The places of a pane's blocks, and the bytes they announce.
LEMMA QueueOf ==
  ASSUME NEW s \in Seq(Entry), NEW p
  PROVE  /\ Blocks(s, p) \in SUBSET (1..Len(s)) /\ IsFiniteSet(Blocks(s, p))
         /\ \A i \in 1..Len(s) : i \in Blocks(s, p) <=> s[i].what = p
         /\ Size(s, p) = Cardinality(Bytes(s, Blocks(s, p))) /\ Size(s, p) \in Nat
         /\ \A i \in Blocks(s, p) : s[i].size \in Nat
PROOF
  <1>1. Len(s) \in Nat /\ DOMAIN s = 1..Len(s) /\ \A i \in DOMAIN s : s[i] \in Entry
    BY Queue
  <1>2. Blocks(s, p) \in SUBSET (1..Len(s)) /\ \A i \in 1..Len(s) : i \in Blocks(s, p) <=> s[i].what = p
    BY <1>1 DEF Blocks
  <1>3. IsFiniteSet(Blocks(s, p))
    BY <1>1, <1>2, PlacesFinite
  <1>4. \A i \in Blocks(s, p) : s[i].size \in Nat
    BY <1>1, <1>2 DEF Entry
  <1>5. Size(s, p) = Cardinality(Bytes(s, Blocks(s, p)))
    BY DEF Size, Bytes
  <1>6. Cardinality(Bytes(s, Blocks(s, p))) \in Nat
    BY <1>3, <1>4, BytesFinite
  <1> QED
    BY <1>2, <1>3, <1>4, <1>5, <1>6

\* What stays of a pane's blocks announces what it did.
LEMMA OnlyBlocks ==
  ASSUME NEW s \in Seq(Entry), NEW S \in SUBSET DOMAIN s, NEW p
  PROVE  /\ Blocks(Only(s, S), p) = Among(S, Blocks(s, p) \cap S)
         /\ Blocks(Only(s, S), p) = {} <=> Blocks(s, p) \cap S = {}
         /\ Size(Only(s, S), p) = Cardinality(Bytes(s, Blocks(s, p) \cap S))
PROOF
  <1> DEFINE o == Only(s, S)
             T == Blocks(s, p) \cap S
             g == [k \in Blocks(o, p) |-> Nth(S, k)]
  <1>1. Len(s) \in Nat /\ DOMAIN s = 1..Len(s) /\ S \in SUBSET (1..Len(s))
    BY Queue
  <1>2. /\ o \in Seq(Entry) /\ Len(o) = Cardinality(S) /\ Len(o) \in Nat
        /\ \A k \in 1..Len(o) : Nth(S, k) \in S /\ o[k] = s[Nth(S, k)]
    BY OnlyPlaces
  <1> HIDE DEF o
  <1>3. /\ Blocks(o, p) \in SUBSET (1..Len(o)) /\ IsFiniteSet(Blocks(o, p))
        /\ \A i \in 1..Len(o) : i \in Blocks(o, p) <=> o[i].what = p
        /\ Size(o, p) = Cardinality(Bytes(o, Blocks(o, p)))
        /\ \A i \in Blocks(o, p) : o[i].size \in Nat
    BY <1>2, QueueOf
  <1>4. \A i \in 1..Len(s) : i \in Blocks(s, p) <=> s[i].what = p
    BY QueueOf
  <1>5. \A k \in 1..Len(o) : k \in Blocks(o, p) <=> Nth(S, k) \in T
    BY <1>1, <1>2, <1>3, <1>4
  <1>6. Blocks(o, p) = Among(S, T)
    BY <1>2, <1>3, <1>5 DEF Among
  <1>7. ASSUME NEW i \in T PROVE \E k \in Blocks(o, p) : g[k] = i
    <2>1. Rank(S, i) \in 1..Cardinality(S)
      BY <1>1, RankGrows
    <2>2. Nth(S, Rank(S, i)) = i
      BY <1>1, <2>1, RankFills
    <2>3. Rank(S, i) \in Blocks(o, p)
      BY <2>1, <2>2, <1>2, <1>5
    <2> QED
      BY <2>2, <2>3
  <1>8. ASSUME NEW i \in Blocks(o, p), NEW k \in Blocks(o, p), g[i] = g[k] PROVE i = k
    <2>1. i \in 1..Cardinality(S) /\ k \in 1..Cardinality(S)
      BY <1>2, <1>3
    <2>2. Rank(S, Nth(S, i)) = i /\ Rank(S, Nth(S, k)) = k
      BY <1>1, <2>1, RankFills
    <2> QED
      BY <1>8, <2>2
  <1>9. g \in [Blocks(o, p) -> T]
    BY <1>3, <1>5
  <1>10. \A k \in Blocks(o, p) : s[g[k]].size = o[k].size
    BY <1>2, <1>3
  <1>11. T = {} => Blocks(o, p) = {}
    BY <1>9
  <1>12. Blocks(o, p) = {} => T = {}
    BY <1>7
  <1> HIDE DEF g, T
  <1>13. Cardinality(Bytes(s, T)) = Cardinality(Bytes(o, Blocks(o, p)))
    <2>1. Moved(o, Blocks(o, p), s, T, g)
      BY <1>3, <1>7, <1>8, <1>9, <1>10, Zenon DEF Moved
    <2> QED
      BY ONLY <2>1, BytesMoved
  <1> QED
    BY <1>3, <1>6, <1>11, <1>12, <1>13 DEF o, T

\* Without output, all lines stay, in their order.
LEMMA OnlyLines ==
  ASSUME NEW s \in Seq(Entry), NEW S \in SUBSET DOMAIN s, LineBlocks(s) \subseteq S
  PROVE  /\ Cardinality(LineBlocks(Only(s, S))) = Cardinality(LineBlocks(s))
         /\ \A k \in 1..Cardinality(S) :
              Rank(LineBlocks(Only(s, S)), k) = Rank(LineBlocks(s), Nth(S, k))
PROOF
  <1> DEFINE o == Only(s, S)
             T == LineBlocks(s)
  <1>1. /\ Len(s) \in Nat /\ DOMAIN s = 1..Len(s) /\ S \in SUBSET (1..Len(s))
        /\ \A i \in 1..Len(s) : i \in T <=> s[i].what \notin Panes
    BY Queue
  <1>2. /\ o \in Seq(Entry) /\ Len(o) = Cardinality(S) /\ Len(o) \in Nat
        /\ \A k \in 1..Len(o) : Nth(S, k) \in S /\ o[k] = s[Nth(S, k)]
    BY OnlyPlaces
  <1> HIDE DEF o
  <1>3. /\ LineBlocks(o) \in SUBSET (1..Len(o))
        /\ \A i \in 1..Len(o) : i \in LineBlocks(o) <=> o[i].what \notin Panes
    BY <1>2, Queue
  <1>4. \A k \in 1..Len(o) : k \in LineBlocks(o) <=> Nth(S, k) \in T
    BY <1>1, <1>2, <1>3
  <1>5. LineBlocks(o) = Among(S, T)
    BY <1>2, <1>3, <1>4 DEF Among
  <1>6. T \in SUBSET S
    OBVIOUS
  <1> HIDE DEF T
  <1>7. Cardinality(Among(S, T)) = Cardinality(T)
    BY <1>1, <1>6, AmongSame
  <1>8. \A k \in 1..Cardinality(S) : Rank(Among(S, T), k) = Rank(T, Nth(S, k))
    BY <1>1, <1>6, AmongRank
  <1> QED
    BY <1>5, <1>7, <1>8 DEF o, T

-----------------------------------------------------------------------------
(***************************************************************************)
(* The queue of a client: the order of what is in it.                      *)
(***************************************************************************)

\* Output waits for the lines before it.
Outputs(s, n) ==
  \A i \in DOMAIN s : IsOutput(s[i]) => n + Rank(LineBlocks(s), i) <= s[i].no

\* Lines are numbered from n on.
Counted(s, n) == \A i \in LineBlocks(s) : s[i].no = n + Rank(LineBlocks(s), i)

\* A block of a command that is opened is closed at once, unless it is the one
\* of the command that runs.
Paired(s, open) ==
  /\ \A i \in DOMAIN s :
       s[i].what = "begin" =>
         (i + 1 \in DOMAIN s /\ s[i + 1].what = "end") \/ (open /\ i = Len(s))
  /\ open /\ s # <<>> => s[Len(s)].what = "begin"

\* What a line says is no pane.
LEMMA NoPaneSays ==
  /\ "begin" \notin Panes /\ "end" \notin Panes
  /\ \A k \in Kinds : k \notin Panes
BY ControlAssumption DEF ControlAssumption, Kinds

\* Removing output leaves all that in order.
LEMMA OnlyOrder ==
  ASSUME NEW s \in Seq(Entry), NEW S \in SUBSET DOMAIN s, LineBlocks(s) \subseteq S,
         NEW n \in Nat, NEW open \in BOOLEAN
  PROVE  /\ Outputs(s, n) => Outputs(Only(s, S), n)
         /\ Counted(s, n) => Counted(Only(s, S), n)
         /\ Paired(s, open) => Paired(Only(s, S), open)
         /\ s = <<>> => Only(s, S) = <<>>
         /\ Paired(s, open) /\ open /\ s # <<>> => Only(s, S) # <<>>
PROOF
  <1> DEFINE o == Only(s, S)
             m == Cardinality(S)
             L == LineBlocks(s)
             M == LineBlocks(o)
  <1>1. /\ Len(s) \in Nat /\ DOMAIN s = 1..Len(s) /\ S \in SUBSET (1..Len(s))
        /\ L \in SUBSET (1..Len(s)) /\ \A i \in 1..Len(s) : i \in L <=> s[i].what \notin Panes
    BY Queue
  <1>2. /\ o \in Seq(Entry) /\ Len(o) = m /\ m \in Nat /\ DOMAIN o = 1..m
        /\ \A k \in 1..m : Nth(S, k) \in S /\ o[k] = s[Nth(S, k)]
    BY OnlyPlaces
  <1>3. \A k \in 1..m : Rank(M, k) = Rank(L, Nth(S, k))
    BY OnlyLines
  <1>4. /\ \A i \in S : Rank(S, i) \in 1..m /\ Nth(S, Rank(S, i)) = i
        /\ \A k \in 1..m : Rank(S, Nth(S, k)) = k
    BY <1>1, RankGrows, RankFills
  <1>5. M \in SUBSET (1..m) /\ \A i \in 1..m : i \in M <=> o[i].what \notin Panes
    <2> HIDE DEF o, m
    <2> QED
      BY <1>2, Queue
  <1>6. L \subseteq S
    OBVIOUS
  <1> HIDE DEF o, m, L, M
  <1>7. ASSUME Outputs(s, n) PROVE Outputs(o, n)
    <2>1. \A i \in DOMAIN s : s[i].what \in Panes => n + Rank(L, i) <= s[i].no
      BY <1>7 DEF Outputs, IsOutput, L
    <2>2. \A k \in DOMAIN o : o[k].what \in Panes => n + Rank(M, k) <= o[k].no
      BY <2>1, <1>1, <1>2, <1>3
    <2> QED
      BY <2>2 DEF Outputs, IsOutput, M
  <1>8. ASSUME Counted(s, n) PROVE Counted(o, n)
    <2>1. \A i \in L : s[i].no = n + Rank(L, i)
      BY <1>8 DEF Counted, L
    <2>2. \A k \in M : Nth(S, k) \in L
      BY <1>1, <1>2, <1>5
    <2>3. \A k \in M : o[k].no = n + Rank(M, k)
      BY <2>1, <2>2, <1>2, <1>3, <1>5
    <2> QED
      BY <2>3 DEF Counted, M
  <1>9. ASSUME open, s # <<>>, s[Len(s)].what = "begin" PROVE m > 0 /\ o[m].what = "begin"
    <2>1. Len(s) \in 1..Len(s)
      BY <1>1, <1>9, EmptySeq
    <2>2. Len(s) \in S
      BY <2>1, <1>1, <1>6, <1>9, NoPaneSays
    <2>3. Rank(S, Len(s)) = m
      BY <1>1, RankLast DEF m
    <2>4. m \in 1..m /\ Nth(S, m) = Len(s)
      BY <2>2, <2>3, <1>4
    <2> QED
      BY <2>4, <1>2, <1>9
  <1>10. ASSUME Paired(s, open), NEW k \in 1..m, o[k].what = "begin"
         PROVE  (k + 1 \in 1..m /\ o[k + 1].what = "end") \/ (open /\ k = m)
    <2> DEFINE i == Nth(S, k)
    <2>1. i \in S /\ i \in DOMAIN s /\ i \in 1..Len(s) /\ s[i].what = "begin" /\ Rank(S, i) = k
      BY <1>1, <1>2, <1>4, <1>10
    <2> HIDE DEF i
    <2>2. (i + 1 \in DOMAIN s /\ s[i + 1].what = "end") \/ (open /\ i = Len(s))
      BY <2>1, <1>10 DEF Paired
    <2>3. CASE i + 1 \in DOMAIN s /\ s[i + 1].what = "end"
      <3>1. i + 1 \in S
        BY <2>3, <1>1, <1>6, NoPaneSays
      <3>0. i \in Nat
        BY <2>1, <1>1
      <3>2. Rank(S, i + 1) = Rank(S, i) + 1
        BY ONLY <3>0, <3>1, <1>1, RankNext
      <3>3. k + 1 \in 1..m /\ Nth(S, k + 1) = i + 1
        BY <3>1, <3>2, <2>1, <1>4
      <3> QED
        BY <3>3, <2>3, <1>2
    <2>4. CASE open /\ i = Len(s)
      <3>1. Rank(S, Len(s)) = m
        BY <1>1, RankLast DEF m
      <3> QED
        BY <3>1, <2>1, <2>4
    <2> QED
      BY <2>2, <2>3, <2>4
  <1>11. o = <<>> <=> m = 0
    BY <1>2, EmptySeq
  <1>12. ASSUME Paired(s, open) PROVE Paired(o, open)
    <2>1. s = <<>> => m = 0
      BY <1>1, <1>4, <1>2, EmptySeq, FS_EmptySet DEF m
    <2>2. open /\ s # <<>> => s[Len(s)].what = "begin"
      BY <1>12 DEF Paired
    <2>3. open /\ o # <<>> => o[m].what = "begin"
      BY <2>1, <2>2, <1>9, <1>11
    <2> QED
      BY <2>3, <1>2, <1>10, <1>12 DEF Paired
  <1>13. s = <<>> => o = <<>>
    <2>1. s = <<>> => S = {}
      BY <1>1, EmptySeq
    <2> QED
      BY <2>1, <1>11, FS_EmptySet DEF m
  <1>14. Paired(s, open) /\ open /\ s # <<>> => o # <<>>
    BY <1>9, <1>11 DEF Paired
  <1> QED
    BY <1>7, <1>8, <1>12, <1>13, <1>14 DEF o

\* Removing lines from its head leaves the queue in order.
LEMMA DropLines ==
  ASSUME NEW s \in Seq(Entry), NEW k \in 0..Len(s), 1..k \subseteq LineBlocks(s)
  PROVE  LET t == SubSeq(s, k + 1, Len(s))
         IN  /\ t \in Seq(Entry) /\ Len(t) = Len(s) - k
             /\ \A i \in 1..Len(t) : t[i] = s[i + k]
             /\ Cardinality(LineBlocks(t)) = Cardinality(LineBlocks(s)) - k
             /\ \A i \in 0..Len(t) : Rank(LineBlocks(t), i) = Rank(LineBlocks(s), i + k) - k
PROOF
  <1> DEFINE t == SubSeq(s, k + 1, Len(s))
             L == LineBlocks(s)
             M == LineBlocks(t)
  <1>1. /\ Len(s) \in Nat /\ DOMAIN s = 1..Len(s) /\ \A i \in 1..Len(s) : s[i] \in Entry
        /\ L \in SUBSET (1..Len(s)) /\ \A i \in 1..Len(s) : i \in L <=> s[i].what \notin Panes
    BY Queue
  <1>2. t \in Seq(Entry) /\ Len(t) = Len(s) - k /\ \A i \in 1..Len(t) : t[i] = s[i + k]
    <2>1. k + 1 \in Int /\ Len(s) \in Int /\ \A i \in (k + 1)..Len(s) : s[i] \in Entry
      BY <1>1
    <2>2. /\ t \in Seq(Entry)
          /\ Len(t) = IF k + 1 <= Len(s) THEN Len(s) - (k + 1) + 1 ELSE 0
          /\ \A i \in 1..(Len(s) - (k + 1) + 1) : t[i] = s[(k + 1) + i - 1]
      BY <2>1, SubSeqProperties
    <2> HIDE DEF t
    <2>2a. k \in Nat /\ Len(s) \in Nat /\ k <= Len(s)
      BY <1>1
    <2>3. Len(t) = Len(s) - k
      BY <2>2, <2>2a
    <2>3a. Len(s) - (k + 1) + 1 = Len(t) /\ Len(t) \in Nat
      BY <2>3, <2>2a
    <2>4. \A i \in 1..Len(t) : i \in 1..(Len(s) - (k + 1) + 1) /\ (k + 1) + i - 1 = i + k
      BY <2>3a, <2>2a
    <2> QED
      BY <2>2, <2>3, <2>4
  <1> HIDE DEF t
  <1>3. M \in SUBSET (1..Len(t)) /\ \A i \in 1..Len(t) : i \in M <=> t[i].what \notin Panes
    BY <1>2, Queue
  <1>4. M \in SUBSET (1..(Len(s) - k)) /\ \A j \in 1..(Len(s) - k) : j \in M <=> j + k \in L
    <2> HIDE DEF L, M
    <2>1. \A j \in 1..(Len(s) - k) : j + k \in 1..Len(s) /\ j + k \in Nat
      BY <1>1
    <2>2. \A j \in 1..(Len(s) - k) : j \in M <=> j + k \in L
      BY <2>1, <1>1, <1>2, <1>3
    <2>3. M \in SUBSET (1..(Len(s) - k))
      BY <1>2, <1>3
    <2> QED
      BY <2>2, <2>3
  <1>5. 1..k \subseteq L
    OBVIOUS
  <1> HIDE DEF L, M
  <1>6. Cardinality(M) = Cardinality(L) - k /\ \A i \in 0..(Len(s) - k) : Rank(M, i) = Rank(L, i + k) - k
    BY ONLY <1>1, <1>4, <1>5, k \in 0..Len(s), RankShift
  <1> QED
    BY <1>2, <1>6 DEF t, L, M

LEMMA DropBlocks ==
  ASSUME NEW s \in Seq(Entry), NEW k \in 0..Len(s), 1..k \subseteq LineBlocks(s), NEW p \in Panes
  PROVE  LET t == SubSeq(s, k + 1, Len(s))
         IN  /\ Blocks(t, p) = {} <=> Blocks(s, p) = {}
             /\ Size(t, p) = Size(s, p)
PROOF
  <1> DEFINE t == SubSeq(s, k + 1, Len(s))
             B == Blocks(s, p)
             C == Blocks(t, p)
             g == [i \in C |-> i + k]
  <1>1. /\ Len(s) \in Nat
        /\ \A i \in 1..Len(s) : i \in LineBlocks(s) <=> s[i].what \notin Panes
    BY Queue
  <1>2. /\ B \in SUBSET (1..Len(s)) /\ \A i \in 1..Len(s) : i \in B <=> s[i].what = p
        /\ Size(s, p) = Cardinality(Bytes(s, B))
    BY QueueOf
  <1>3. t \in Seq(Entry) /\ Len(t) = Len(s) - k /\ \A i \in 1..Len(t) : t[i] = s[i + k]
    BY DropLines
  <1> HIDE DEF t
  <1>4. /\ C \in SUBSET (1..Len(t)) /\ \A i \in 1..Len(t) : i \in C <=> t[i].what = p
        /\ Size(t, p) = Cardinality(Bytes(t, C)) /\ IsFiniteSet(C)
        /\ \A i \in C : t[i].size \in Nat
    BY <1>3, QueueOf
  <1> HIDE DEF B, C
  <1>5. ASSUME NEW i \in C PROVE i \in Nat /\ i + k \in B /\ s[i + k] = t[i]
    <2>1. i \in 1..Len(t)
      BY <1>4
    <2>2. i + k \in 1..Len(s) /\ i \in Nat
      BY <2>1, <1>1, <1>3
    <2> QED
      BY <2>1, <2>2, <1>2, <1>3, <1>4
  <1>6. \A i \in B : i > k
    BY <1>1, <1>2
  <1>7. ASSUME NEW i \in B PROVE i - k \in C /\ (i - k) + k = i
    <2>1. i \in 1..Len(s) /\ i > k
      BY <1>2, <1>6
    <2>2. i - k \in 1..Len(t) /\ (i - k) + k = i
      BY <2>1, <1>1, <1>3
    <2>3. t[i - k] = s[i]
      BY <2>2, <1>3
    <2> QED
      BY <2>1, <2>2, <2>3, <1>2, <1>4
  <1>8. g \in [C -> B]
    BY <1>5
  <1>9. \A i \in C : s[g[i]].size = t[i].size
    BY <1>5
  <1>10. \A i, j \in C : g[i] = g[j] => i = j
    BY <1>5
  <1>11. \A j \in B : \E i \in C : g[i] = j
    BY <1>7
  <1> HIDE DEF g
  <1>12. Cardinality(Bytes(s, B)) = Cardinality(Bytes(t, C))
    <2>1. Moved(t, C, s, B, g)
      BY <1>4, <1>8, <1>9, <1>10, <1>11, Zenon DEF Moved
    <2> QED
      BY ONLY <2>1, BytesMoved
  <1>13. C = {} <=> B = {}
    BY <1>8, <1>11
  <1> QED
    BY <1>2, <1>4, <1>12, <1>13 DEF t, B, C

LEMMA DropOrder ==
  ASSUME NEW s \in Seq(Entry), NEW k \in 0..Len(s), 1..k \subseteq LineBlocks(s),
         NEW n \in Nat
  PROVE  LET t == SubSeq(s, k + 1, Len(s))
         IN  /\ Outputs(s, n) => Outputs(t, n + k)
             /\ Counted(s, n) => Counted(t, n + k)
             /\ Paired(s, FALSE) => Paired(t, FALSE)
PROOF
  <1> DEFINE t == SubSeq(s, k + 1, Len(s))
             L == LineBlocks(s)
             M == LineBlocks(t)
  <1>1. /\ Len(s) \in Nat /\ DOMAIN s = 1..Len(s)
        /\ L \in SUBSET (1..Len(s)) /\ \A i \in 1..Len(s) : i \in L <=> s[i].what \notin Panes
    BY Queue
  <1>2. /\ t \in Seq(Entry) /\ Len(t) = Len(s) - k /\ \A i \in 1..Len(t) : t[i] = s[i + k]
        /\ \A i \in 0..Len(t) : Rank(M, i) = Rank(L, i + k) - k
    BY DropLines
  <1> HIDE DEF t
  <1>3. DOMAIN t = 1..Len(t) /\ M \in SUBSET (1..Len(t)) /\ \A i \in 1..Len(t) : i \in M <=> t[i].what \notin Panes
    BY <1>2, Queue
  <1>4. \A i : Rank(L, i) \in Nat
    BY <1>1, PlacesFinite
  <1> HIDE DEF L, M
  <1>5. \A i \in 1..Len(t) : i + k \in 1..Len(s) /\ i \in 0..Len(t)
    BY <1>1, <1>2
  <1>6. ASSUME Outputs(s, n) PROVE Outputs(t, n + k)
    <2>1. \A i \in 1..Len(s) : s[i].what \in Panes => n + Rank(L, i) <= s[i].no
      BY <1>6, <1>1 DEF Outputs, IsOutput, L
    <2>2. ASSUME NEW i \in 1..Len(t), t[i].what \in Panes PROVE n + k + Rank(M, i) <= t[i].no
      <3>1. n + Rank(L, i + k) <= t[i].no
        BY <2>1, <2>2, <1>2, <1>5
      <3>2. Rank(M, i) = Rank(L, i + k) - k /\ Rank(L, i + k) \in Nat
        BY <1>2, <1>4, <1>5
      <3>3. n + k + Rank(M, i) = n + Rank(L, i + k)
        BY <3>2
      <3> QED
        BY <3>1, <3>3
    <2> QED
      BY <2>2, <1>3 DEF Outputs, IsOutput, M
  <1>7. ASSUME Counted(s, n) PROVE Counted(t, n + k)
    <2>1. \A i \in L : s[i].no = n + Rank(L, i)
      BY <1>7 DEF Counted, L
    <2>2. ASSUME NEW i \in M PROVE t[i].no = n + k + Rank(M, i)
      <3>1. i \in 1..Len(t) /\ i + k \in L
        BY <1>1, <1>2, <1>3, <1>5
      <3>2. t[i].no = n + Rank(L, i + k)
        BY <3>1, <2>1, <1>2
      <3>3. Rank(M, i) = Rank(L, i + k) - k /\ Rank(L, i + k) \in Nat
        BY <3>1, <1>2, <1>4, <1>5
      <3> QED
        BY <3>2, <3>3
    <2> QED
      BY <2>2 DEF Counted, M
  <1>8. ASSUME Paired(s, FALSE) PROVE Paired(t, FALSE)
    <2>1. \A i \in 1..Len(s) : s[i].what = "begin" => i + 1 \in 1..Len(s) /\ s[i + 1].what = "end"
      BY <1>8, <1>1 DEF Paired
    <2>2. ASSUME NEW i \in 1..Len(t), t[i].what = "begin"
          PROVE  i + 1 \in 1..Len(t) /\ t[i + 1].what = "end"
      <3>1. (i + k) + 1 \in 1..Len(s) /\ s[(i + k) + 1].what = "end"
        BY <2>1, <2>2, <1>2, <1>5
      <3>2. i + 1 \in 1..Len(t) /\ (i + k) + 1 = (i + 1) + k
        BY <3>1, <1>1, <1>2
      <3> QED
        BY <3>1, <3>2, <1>2
    <2> QED
      BY <2>2, <1>3 DEF Paired
  <1> QED
    BY <1>6, <1>7, <1>8 DEF t

\* Some lines.
Fits(kinds, open, after) ==
  /\ kinds \in Seq(Kinds) /\ Len(kinds) > 0
  /\ open => kinds[1] = "end"
  /\ \A i \in 1..(Len(kinds) - 1) : kinds[i] = "begin" => kinds[i + 1] = "end"
  /\ after <=> kinds[Len(kinds)] = "begin"

\* Adding lines at the end of the queue ...
LEMMA AddLines ==
  ASSUME NEW s \in Seq(Entry), NEW w \in Seq(Entry), \A i \in 1..Len(w) : w[i].what \in Kinds
  PROVE  /\ s \o w \in Seq(Entry) /\ Len(s \o w) = Len(s) + Len(w)
         /\ \A i \in 1..Len(s) : (s \o w)[i] = s[i]
         /\ \A i \in 1..Len(w) : (s \o w)[Len(s) + i] = w[i]
         /\ LineBlocks(s \o w) = LineBlocks(s) \cup ((Len(s) + 1)..(Len(s) + Len(w)))
         /\ Cardinality(LineBlocks(s \o w)) = Cardinality(LineBlocks(s)) + Len(w)
         /\ \A i \in 0..Len(s) : Rank(LineBlocks(s \o w), i) = Rank(LineBlocks(s), i)
         /\ \A i \in 0..Len(w) :
              Rank(LineBlocks(s \o w), Len(s) + i) = Cardinality(LineBlocks(s)) + i
         /\ \A p \in Panes : Blocks(s \o w, p) = Blocks(s, p) /\ Size(s \o w, p) = Size(s, p)
PROOF
  <1> DEFINE t == s \o w
             n == Len(s)
             m == Len(w)
             L == LineBlocks(s)
             M == LineBlocks(t)
  <1>1. /\ n \in Nat /\ L \in SUBSET (1..n) /\ \A i \in 1..n : i \in L <=> s[i].what \notin Panes
        /\ m \in Nat /\ \A i \in 1..m : w[i] \in Entry
    BY Queue
  <1>2. /\ t \in Seq(Entry) /\ Len(t) = n + m
        /\ \A i \in 1..(n + m) : t[i] = IF i <= n THEN s[i] ELSE w[i - n]
    BY ConcatProperties
  <1> HIDE DEF t, n, m
  <1>3. \A i \in 1..n : t[i] = s[i]
    BY <1>1, <1>2
  <1>4. ASSUME NEW i \in 1..m PROVE t[n + i] = w[i] /\ t[n + i].what \notin Panes
    <2>1. n + i \in 1..(n + m) /\ ~(n + i <= n) /\ (n + i) - n = i
      BY <1>1
    <2>2. t[n + i] = w[i]
      BY <2>1, <1>2
    <2> QED
      BY <2>2, NoPaneSays DEF m
  <1>5. M \in SUBSET (1..(n + m)) /\ \A i \in 1..(n + m) : i \in M <=> t[i].what \notin Panes
    BY <1>2, Queue
  <1>6. ASSUME NEW i \in (n + 1)..(n + m) PROVE i \in 1..(n + m) /\ t[i].what \notin Panes
    <2>1. i - n \in 1..m /\ n + (i - n) = i /\ i \in 1..(n + m)
      BY <1>1
    <2> QED
      BY <2>1, <1>4
  <1>7. \A i \in 1..(n + m) : i \in 1..n \/ i \in (n + 1)..(n + m)
    BY <1>1
  <1>8. \A i \in 1..n : i \in 1..(n + m) /\ i \notin (n + 1)..(n + m)
    BY <1>1
  <1> HIDE DEF L, M
  <1>9. M = L \cup ((n + 1)..(n + m))
    <2>1. \A i \in 1..(n + m) : i \in M <=> i \in L \/ i \in (n + 1)..(n + m)
      BY <1>1, <1>3, <1>5, <1>6, <1>7, <1>8
    <2>2. L \cup ((n + 1)..(n + m)) \subseteq 1..(n + m)
      BY <1>1, <1>6, <1>8
    <2> QED
      BY <2>1, <2>2, <1>5
  <1>10. /\ Cardinality(M) = Cardinality(L) + m
         /\ \A i \in 0..n : Rank(M, i) = Rank(L, i)
         /\ \A i \in 0..m : Rank(M, n + i) = Cardinality(L) + i
    BY <1>1, <1>9, RankAfter
  <1>11. ASSUME NEW p \in Panes PROVE Blocks(t, p) = Blocks(s, p) /\ Size(t, p) = Size(s, p)
    <2>1. /\ Blocks(s, p) \in SUBSET (1..n) /\ \A i \in 1..n : i \in Blocks(s, p) <=> s[i].what = p
          /\ Size(s, p) = Cardinality(Bytes(s, Blocks(s, p)))
      BY QueueOf DEF n
    <2>2. /\ Blocks(t, p) \in SUBSET (1..(n + m))
          /\ \A i \in 1..(n + m) : i \in Blocks(t, p) <=> t[i].what = p
          /\ Size(t, p) = Cardinality(Bytes(t, Blocks(t, p)))
      BY <1>2, QueueOf
    <2>3. \A i \in 1..n : i \in Blocks(t, p) <=> i \in Blocks(s, p)
      BY <2>1, <2>2, <1>3, <1>8
    <2>4. \A i \in (n + 1)..(n + m) : i \notin Blocks(t, p)
      BY <2>2, <1>6
    <2>5. Blocks(t, p) = Blocks(s, p)
      BY <2>1, <2>2, <2>3, <2>4, <1>7
    <2>6. \A i \in Blocks(s, p) : t[i].size = s[i].size
      BY <2>1, <1>3
    <2>7. Bytes(t, Blocks(s, p)) = Bytes(s, Blocks(s, p))
      BY <2>6, BytesSame
    <2> QED
      BY <2>1, <2>2, <2>5, <2>7
  <1> QED
    BY <1>2, <1>3, <1>4, <1>9, <1>10, <1>11 DEF t, n, m, L, M

\* ... leaves it in order when they fit there.
LEMMA AddOrder ==
  ASSUME NEW s \in Seq(Entry), NEW w \in Seq(Entry), NEW n \in Nat,
         NEW kinds, NEW open \in BOOLEAN, NEW after \in BOOLEAN, Fits(kinds, open, after),
         Len(w) = Len(kinds), \A i \in 1..Len(w) : w[i].what = kinds[i]
  PROVE  /\ Outputs(s, n) => Outputs(s \o w, n)
         /\ Counted(s, n) /\ (\A i \in 1..Len(w) : w[i].no = n + Cardinality(LineBlocks(s)) + i)
              => Counted(s \o w, n)
         /\ s # <<>> /\ Paired(s, open) => Paired(s \o w, after)
PROOF
  <1> DEFINE t == s \o w
             h == Len(s)
             m == Len(w)
             L == LineBlocks(s)
             M == LineBlocks(t)
  <1>0. /\ kinds \in Seq(Kinds) /\ m > 0 /\ (open => w[1].what = "end")
        /\ \A i \in 1..(m - 1) : w[i].what = "begin" => w[i + 1].what = "end"
        /\ after <=> w[m].what = "begin"
    <2>0. m \in Nat
      BY Queue
    <2>1. /\ kinds \in Seq(Kinds) /\ m > 0 /\ (open => kinds[1] = "end")
          /\ \A i \in 1..(m - 1) : kinds[i] = "begin" => kinds[i + 1] = "end"
          /\ after <=> kinds[m] = "begin"
      BY DEF Fits
    <2>2. \A i \in 1..m : w[i].what = kinds[i]
      OBVIOUS
    <2> HIDE DEF m
    <2>3. m \in 1..m /\ 1 \in 1..m /\ \A i \in 1..(m - 1) : i \in 1..m /\ i + 1 \in 1..m
      BY <2>0, <2>1
    <2> QED
      BY <2>1, <2>2, <2>3
  <1>1. \A i \in 1..m : w[i].what \in Kinds
    BY <1>0, ElementOfSeq
  <1>2. /\ h \in Nat /\ m \in Nat /\ DOMAIN s = 1..h /\ L \in SUBSET (1..h)
        /\ \A i \in 1..h : i \in L <=> s[i].what \notin Panes
        /\ Cardinality(L) \in Nat
    BY Queue
  <1>3. /\ t \in Seq(Entry) /\ Len(t) = h + m
        /\ \A i \in 1..h : t[i] = s[i]
        /\ \A i \in 1..m : t[h + i] = w[i]
        /\ M = L \cup ((h + 1)..(h + m))
        /\ \A i \in 0..h : Rank(M, i) = Rank(L, i)
        /\ \A i \in 0..m : Rank(M, h + i) = Cardinality(L) + i
    BY <1>1, AddLines
  <1>4. DOMAIN t = 1..(h + m) /\ M \in SUBSET (1..(h + m)) /\ \A i \in 1..(h + m) : i \in M <=> t[i].what \notin Panes
    <2> HIDE DEF t, h, m
    <2> QED
      BY <1>3, Queue
  <1> HIDE DEF t, h, m, L, M
  <1>5. ASSUME NEW i \in 1..(h + m), i \notin 1..h PROVE i - h \in 1..m /\ i = h + (i - h)
    BY <1>2, <1>5
  <1>6. ASSUME Outputs(s, n) PROVE Outputs(t, n)
    <2>1. \A i \in 1..h : s[i].what \in Panes => n + Rank(L, i) <= s[i].no
      BY <1>2, <1>6 DEF Outputs, IsOutput, L
    <2>2. ASSUME NEW i \in 1..(h + m), t[i].what \in Panes PROVE n + Rank(M, i) <= t[i].no
      <3>1. i \in 1..h
        BY <2>2, <1>5, <1>1, <1>3, NoPaneSays
      <3>2. i \in 0..h
        BY <3>1
      <3> QED
        BY <3>1, <3>2, <2>1, <2>2, <1>3
    <2> QED
      BY <2>2, <1>4 DEF Outputs, IsOutput, M
  <1>7. ASSUME Counted(s, n), \A i \in 1..m : w[i].no = n + Cardinality(L) + i PROVE Counted(t, n)
    <2>1. \A i \in L : s[i].no = n + Rank(L, i)
      BY <1>7 DEF Counted, L
    <2>2. ASSUME NEW i \in M PROVE t[i].no = n + Rank(M, i)
      <3>1. CASE i \in 1..h
        <4>1. i \in L /\ i \in 0..h
          BY <3>1, <1>2, <1>3
        <4> QED
          BY <3>1, <4>1, <2>1, <1>3
      <3>2. CASE i \notin 1..h
        <4>1. i - h \in 1..m /\ i = h + (i - h)
          BY <3>2, <1>4, <1>5
        <4>2. i - h \in 0..m
          BY <4>1
        <4>3. Rank(M, h + (i - h)) = Cardinality(L) + (i - h)
          BY <4>2, <1>3
        <4>4. t[h + (i - h)].no = n + Cardinality(L) + (i - h)
          BY <4>1, <1>3, <1>7
        <4>5. n + Cardinality(L) + (i - h) = n + (Cardinality(L) + (i - h))
          BY <4>1, <1>2
        <4> QED
          BY <4>1, <4>3, <4>4, <4>5
      <3> QED
        BY <3>1, <3>2
    <2> QED
      BY <2>2 DEF Counted, M
  <1>8. ASSUME s # <<>>, Paired(s, open) PROVE Paired(t, after)
    <2>1. /\ \A i \in 1..h : s[i].what = "begin" =>
               (i + 1 \in 1..h /\ s[i + 1].what = "end") \/ (open /\ i = h)
          /\ open => s[h].what = "begin"
      BY <1>2, <1>8 DEF Paired, h
    <2>2. ASSUME NEW i \in 1..(h + m), t[i].what = "begin"
          PROVE  (i + 1 \in 1..(h + m) /\ t[i + 1].what = "end") \/ (after /\ i = h + m)
      <3>1. CASE i \in 1..h
        <4>1. s[i].what = "begin"
          BY <3>1, <2>2, <1>3
        <4>2. CASE i + 1 \in 1..h /\ s[i + 1].what = "end"
          <5>1. i + 1 \in 1..(h + m)
            BY <4>2, <1>2
          <5> QED
            BY <5>1, <4>2, <1>3
        <4>3. CASE open /\ i = h
          <5>1. 1 \in 1..m /\ h + 1 \in 1..(h + m)
            BY <1>0, <1>2
          <5>2. t[h + 1] = w[1]
            BY <5>1, <1>3
          <5> QED
            BY <5>1, <5>2, <4>3, <1>0
        <4> QED
          BY <3>1, <4>1, <4>2, <4>3, <2>1
      <3>2. CASE i \notin 1..h
        <4> DEFINE j == i - h
        <4>1. j \in 1..m /\ i = h + j
          BY <3>2, <1>5
        <4> HIDE DEF j
        <4>2. w[j].what = "begin"
          BY <4>1, <2>2, <1>3
        <4>3. CASE j = m
          BY <4>1, <4>2, <4>3, <1>0
        <4>4. CASE j # m
          <5>1. j \in 1..(m - 1) /\ j + 1 \in 1..m /\ i + 1 = h + (j + 1) /\ i + 1 \in 1..(h + m)
            BY <4>1, <4>4, <1>2
          <5>2. w[j + 1].what = "end"
            BY <5>1, <4>2, <1>0
          <5> QED
            BY <5>1, <5>2, <1>3
        <4> QED
          BY <4>3, <4>4
      <3> QED
        BY <3>1, <3>2
    <2>3. after => t[h + m].what = "begin"
      <3>1. m \in 1..m
        BY <1>0, <1>2
      <3> QED
        BY <3>1, <1>0, <1>3
    <2> QED
      BY <2>2, <2>3, <1>3, <1>4 DEF Paired
  <1> QED
    BY <1>6, <1>7, <1>8 DEF t, m, L

\* Adding output at the end of the queue.
LEMMA AddOutput ==
  ASSUME NEW s \in Seq(Entry), NEW b \in Entry, b.what \in Panes, NEW n \in Nat,
         n + Cardinality(LineBlocks(s)) <= b.no
  PROVE  LET t == Append(s, b)
         IN  /\ t \in Seq(Entry) /\ LineBlocks(t) = LineBlocks(s)
             /\ \A p \in Panes : p # b.what => Blocks(t, p) = Blocks(s, p) /\ Size(t, p) = Size(s, p)
             /\ Size(t, b.what) = Size(s, b.what) + b.size
             /\ Outputs(s, n) => Outputs(t, n)
             /\ Counted(s, n) => Counted(t, n)
             /\ Paired(s, FALSE) => Paired(t, FALSE)
PROOF
  <1> DEFINE t == Append(s, b)
             h == Len(s)
             L == LineBlocks(s)
  <1>1. /\ h \in Nat /\ DOMAIN s = 1..h /\ L \in SUBSET (1..h) /\ Cardinality(L) \in Nat
        /\ \A i \in 1..h : i \in L <=> s[i].what \notin Panes
    BY Queue
  <1>2. t \in Seq(Entry) /\ Len(t) = h + 1 /\ t[h + 1] = b /\ \A i \in 1..h : t[i] = s[i]
    BY AppendProperties
  <1> HIDE DEF t, h
  <1>3. /\ DOMAIN t = 1..(h + 1) /\ LineBlocks(t) \in SUBSET (1..(h + 1))
        /\ \A i \in 1..(h + 1) : i \in LineBlocks(t) <=> t[i].what \notin Panes
    BY <1>2, Queue
  <1>4. \A i \in 1..(h + 1) : i \in 1..h \/ i = h + 1
    BY <1>1
  <1>5. h + 1 \notin 1..h /\ h + 1 \in 1..(h + 1) /\ \A i \in 1..h : i \in 1..(h + 1)
    BY <1>1
  <1> HIDE DEF L
  <1>6. LineBlocks(t) = L
    <2>1. h + 1 \notin LineBlocks(t) /\ h + 1 \notin L
      BY <1>1, <1>2, <1>3, <1>5
    <2>2. \A i \in 1..h : i \in LineBlocks(t) <=> i \in L
      BY <1>1, <1>2, <1>3, <1>5
    <2> QED
      BY <2>1, <2>2, <1>1, <1>3, <1>4
  <1>7. \A p : /\ Blocks(s, p) \in SUBSET (1..h) /\ \A i \in 1..h : i \in Blocks(s, p) <=> s[i].what = p
               /\ Size(s, p) = Cardinality(Bytes(s, Blocks(s, p)))
    BY QueueOf DEF h
  <1>8. \A p : /\ Blocks(t, p) \in SUBSET (1..(h + 1)) /\ IsFiniteSet(Blocks(t, p))
               /\ \A i \in 1..(h + 1) : i \in Blocks(t, p) <=> t[i].what = p
               /\ \A i \in Blocks(t, p) : t[i].size \in Nat
               /\ Size(t, p) = Cardinality(Bytes(t, Blocks(t, p)))
    BY <1>2, QueueOf
  <1>9. \A p : Bytes(t, Blocks(s, p)) = Bytes(s, Blocks(s, p))
    <2> TAKE p
    <2>1. \A i \in Blocks(s, p) : t[i].size = s[i].size
      BY <1>2, <1>7
    <2> QED
      BY <2>1, BytesSame
  <1>10. ASSUME NEW p \in Panes, p # b.what PROVE Blocks(t, p) = Blocks(s, p) /\ Size(t, p) = Size(s, p)
    <2>1. \A i \in 1..h : i \in Blocks(t, p) <=> i \in Blocks(s, p)
      BY <1>2, <1>5, <1>7, <1>8
    <2>2. h + 1 \notin Blocks(t, p)
      BY <1>2, <1>5, <1>8, <1>10
    <2>2a. Blocks(t, p) \in SUBSET (1..(h + 1)) /\ Blocks(s, p) \in SUBSET (1..h)
      BY <1>7, <1>8
    <2>3. Blocks(t, p) = Blocks(s, p)
      BY ONLY <2>1, <2>2, <2>2a, <1>4, <1>5
    <2> QED
      BY <2>3, <1>7, <1>8, <1>9
  <1>11. Size(t, b.what) = Size(s, b.what) + b.size
    <2> DEFINE q == b.what
    <2>1. \A i \in 1..h : i \in Blocks(t, q) <=> i \in Blocks(s, q)
      BY <1>2, <1>5, <1>7, <1>8
    <2>2. h + 1 \in Blocks(t, q)
      BY <1>2, <1>5, <1>8
    <2>3. Blocks(t, q) \ {h + 1} = Blocks(s, q)
      BY <2>1, <2>2, <1>4, <1>5, <1>7, <1>8
    <2> HIDE DEF q
    <2>4. IsFiniteSet(Blocks(t, q)) /\ \A i \in Blocks(t, q) : t[i].size \in Nat
      BY <1>8
    <2>5. Cardinality(Bytes(t, Blocks(t, q))) = Cardinality(Bytes(t, Blocks(t, q) \ {h + 1})) + t[h + 1].size
      BY <2>2, <2>4, BytesWithout
    <2>5a. /\ Size(t, q) = Cardinality(Bytes(t, Blocks(t, q)))
           /\ Size(s, q) = Cardinality(Bytes(s, Blocks(s, q)))
           /\ Bytes(t, Blocks(s, q)) = Bytes(s, Blocks(s, q)) /\ t[h + 1] = b
      BY <1>2, <1>7, <1>8, <1>9
    <2>6. Size(t, q) = Size(s, q) + b.size
      BY ONLY <2>3, <2>5, <2>5a
    <2> QED
      BY <2>6 DEF q
  <1>12. ASSUME Outputs(s, n) PROVE Outputs(t, n)
    <2>1. \A i \in 1..h : s[i].what \in Panes => n + Rank(L, i) <= s[i].no
      BY <1>1, <1>12 DEF Outputs, IsOutput, L
    <2>2. Rank(L, h + 1) = Cardinality(L)
      BY <1>1, <1>3, <1>6, RankLast
    <2>3. n + Rank(L, h + 1) <= b.no
      BY <2>2 DEF L
    <2>4. \A i \in 1..(h + 1) : t[i].what \in Panes => n + Rank(L, i) <= t[i].no
      BY <2>1, <2>3, <1>2, <1>4
    <2> QED
      BY <2>4, <1>3, <1>6 DEF Outputs, IsOutput
  <1>13. ASSUME Counted(s, n) PROVE Counted(t, n)
    <2>1. \A i \in L : s[i].no = n + Rank(L, i)
      BY <1>13 DEF Counted, L
    <2>2. \A i \in L : t[i] = s[i]
      BY <1>1, <1>2
    <2> QED
      BY <2>1, <2>2, <1>6 DEF Counted
  <1>14. ASSUME Paired(s, FALSE) PROVE Paired(t, FALSE)
    <2>1. \A i \in 1..h : s[i].what = "begin" => i + 1 \in 1..h /\ s[i + 1].what = "end"
      BY <1>14, <1>1 DEF Paired
    <2>2. ASSUME NEW i \in 1..(h + 1), t[i].what = "begin"
          PROVE  i + 1 \in 1..(h + 1) /\ t[i + 1].what = "end"
      <3>1. i # h + 1
        BY <2>2, <1>2, NoPaneSays
      <3>2. i \in 1..h
        BY <3>1, <1>4
      <3> QED
        BY <3>2, <2>1, <2>2, <1>2, <1>5
    <2> QED
      BY <2>2, <1>3 DEF Paired
  <1> QED
    BY <1>2, <1>6, <1>10, <1>11, <1>12, <1>13, <1>14 DEF t, L

\* Of the output of a pane so much has been sent, and nothing else.
Sent(s, t, q, n) ==
  /\ t \in Seq(Entry) /\ Cardinality(LineBlocks(t)) = Cardinality(LineBlocks(s))
  /\ \A p \in Panes : Blocks(s, p) = {} => Blocks(t, p) = {}
  /\ \A p \in Panes : p # q => Size(t, p) = Size(s, p)
  /\ Size(t, q) = Size(s, q) - n
  /\ \A m \in Nat : (Outputs(s, m) => Outputs(t, m)) /\ (Counted(s, m) => Counted(t, m))
  /\ Paired(s, FALSE) => Paired(t, FALSE)
  /\ s = <<>> => t = <<>>

\* Sending part of a block.
LEMMA Shorten ==
  ASSUME NEW s \in Seq(Entry), NEW q \in Panes, NEW k \in Blocks(s, q), NEW r \in Nat
  PROVE  Sent(s, [s EXCEPT ![k].size = r], q, s[k].size - r)
PROOF
  <1> DEFINE e == [s[k] EXCEPT !.size = r]
             t == [s EXCEPT ![k] = e]
             h == Len(s)
  <1>1. /\ h \in Nat /\ DOMAIN s = 1..h /\ LineBlocks(s) \in SUBSET (1..h)
        /\ \A i \in 1..h : s[i] \in Entry
        /\ \A i \in 1..h : i \in LineBlocks(s) <=> s[i].what \notin Panes
    BY Queue
  <1>2. \A p : /\ Blocks(s, p) \in SUBSET (1..h) /\ \A i \in 1..h : i \in Blocks(s, p) <=> s[i].what = p
               /\ IsFiniteSet(Blocks(s, p)) /\ \A i \in Blocks(s, p) : s[i].size \in Nat
               /\ Size(s, p) = Cardinality(Bytes(s, Blocks(s, p))) /\ Size(s, p) \in Nat
    BY QueueOf
  <1>3. k \in 1..h /\ s[k] \in Entry
    BY <1>1, <1>2
  <1>4. e \in Entry /\ e.size = r /\ e.what = s[k].what /\ e.no = s[k].no
    BY <1>3 DEF Entry
  <1>5. t = [s EXCEPT ![k].size = r]
    OBVIOUS
  <1> HIDE DEF e
  <1>6. t \in Seq(Entry) /\ Len(t) = h /\ \A i \in 1..h : t[i] = IF i = k THEN e ELSE s[i]
    BY <1>3, <1>4, ExceptSeq
  <1> HIDE DEF t, h
  <1>7. \A i \in 1..h : /\ t[i].what = s[i].what /\ t[i].no = s[i].no
                        /\ t[i].size = IF i = k THEN r ELSE s[i].size
    BY <1>3, <1>4, <1>6
  <1>8. DOMAIN t = 1..h /\ LineBlocks(t) \in SUBSET (1..h)
        /\ \A i \in 1..h : i \in LineBlocks(t) <=> t[i].what \notin Panes
    BY <1>6, Queue
  <1>9. LineBlocks(t) = LineBlocks(s)
    BY <1>1, <1>7, <1>8
  <1>10. \A p : /\ Blocks(t, p) \in SUBSET (1..h) /\ \A i \in 1..h : i \in Blocks(t, p) <=> t[i].what = p
                /\ IsFiniteSet(Blocks(t, p)) /\ \A i \in Blocks(t, p) : t[i].size \in Nat
                /\ Size(t, p) = Cardinality(Bytes(t, Blocks(t, p)))
    BY <1>6, QueueOf
  <1>11. ASSUME NEW p PROVE Blocks(t, p) = Blocks(s, p)
    <2>1. \A i \in 1..h : i \in Blocks(t, p) <=> i \in Blocks(s, p)
      BY <1>2, <1>7, <1>10
    <2>2. Blocks(t, p) \in SUBSET (1..h) /\ Blocks(s, p) \in SUBSET (1..h)
      BY <1>2, <1>10
    <2> QED
      BY ONLY <2>1, <2>2
  <1>12. ASSUME NEW p \in Panes, p # q PROVE Size(t, p) = Size(s, p)
    <2>1. \A i \in Blocks(s, p) : i # k
      BY <1>2, <1>3, <1>12
    <2>2. \A i \in Blocks(s, p) : t[i].size = s[i].size
      BY <2>1, <1>2, <1>7
    <2>3. Bytes(t, Blocks(s, p)) = Bytes(s, Blocks(s, p))
      BY <2>2, BytesSame
    <2> QED
      BY <2>3, <1>2, <1>10, <1>11
  <1>13. Size(t, q) = (Size(s, q) - s[k].size) + r
    <2> DEFINE B == Blocks(s, q)
               C == B \ {k}
    <2>1. IsFiniteSet(B) /\ k \in B /\ (\A i \in B : s[i].size \in Nat) /\ B \subseteq 1..h
      BY <1>2
    <2>2. \A i \in B : t[i].size \in Nat
      BY <1>10, <1>11
    <2>3. \A i \in C : t[i].size = s[i].size
      BY <2>1, <1>7
    <2>4. Bytes(t, C) = Bytes(s, C)
      BY <2>3, BytesSame
    <2>5. IsFiniteSet(C) /\ \A i \in C : s[i].size \in Nat
      BY <2>1, FS_RemoveElement
    <2>6. Size(s, q) = Cardinality(Bytes(s, B)) /\ Size(t, q) = Cardinality(Bytes(t, B))
      BY <1>2, <1>10, <1>11
    <2> HIDE DEF B
    <2>7. Cardinality(Bytes(s, B)) = Cardinality(Bytes(s, C)) + s[k].size
      BY <2>1, BytesWithout
    <2>8. Cardinality(Bytes(t, B)) = Cardinality(Bytes(t, C)) + t[k].size
      BY <2>1, <2>2, BytesWithout
    <2> HIDE DEF C
    <2>9. Cardinality(Bytes(s, C)) \in Nat /\ s[k].size \in Nat
      BY <2>1, <2>5, BytesFinite
    <2>10. t[k].size = r
      BY <1>3, <1>7
    <2> QED
      BY <2>4, <2>6, <2>7, <2>8, <2>9, <2>10
  <1>14. ASSUME NEW m \in Nat, Outputs(s, m) PROVE Outputs(t, m)
    BY <1>1, <1>7, <1>8, <1>9, <1>14 DEF Outputs, IsOutput
  <1>15. ASSUME NEW m \in Nat, Counted(s, m) PROVE Counted(t, m)
    BY <1>1, <1>7, <1>9, <1>15 DEF Counted
  <1>16. ASSUME Paired(s, FALSE) PROVE Paired(t, FALSE)
    BY <1>1, <1>7, <1>8, <1>16 DEF Paired
  <1>17. Size(t, q) = Size(s, q) - (s[k].size - r)
    <2>1. Size(s, q) \in Nat /\ s[k].size \in Nat
      BY <1>2
    <2> QED
      BY <2>1, <1>13
  <1>18. Cardinality(LineBlocks(t)) = Cardinality(LineBlocks(s))
    BY <1>9
  <1>19. s = <<>> => t = <<>>
    BY <1>5
  <1>20. Sent(s, t, q, s[k].size - r)
    BY <1>6, <1>11, <1>12, <1>14, <1>15, <1>16, <1>17, <1>18, <1>19, Zenon DEF Sent
  <1> QED
    BY <1>5, <1>20

\* Sending all of a block.
LEMMA SendBlock ==
  ASSUME NEW s \in Seq(Entry), NEW q \in Panes, NEW k \in Blocks(s, q)
  PROVE  Sent(s, Only(s, DOMAIN s \ {k}), q, s[k].size)
PROOF
  <1> DEFINE S == DOMAIN s \ {k}
             o == Only(s, S)
  <1>1. /\ DOMAIN s = 1..Len(s) /\ LineBlocks(s) \in SUBSET (1..Len(s))
        /\ \A i \in 1..Len(s) : i \in LineBlocks(s) <=> s[i].what \notin Panes
    BY Queue
  <1>2. \A p : /\ Blocks(s, p) \in SUBSET (1..Len(s))
               /\ \A i \in 1..Len(s) : i \in Blocks(s, p) <=> s[i].what = p
               /\ IsFiniteSet(Blocks(s, p)) /\ \A i \in Blocks(s, p) : s[i].size \in Nat
               /\ Size(s, p) = Cardinality(Bytes(s, Blocks(s, p))) /\ Size(s, p) \in Nat
    BY QueueOf
  <1>3. k \in 1..Len(s) /\ s[k].what = q
    BY <1>2
  <1>4. S \in SUBSET DOMAIN s /\ LineBlocks(s) \subseteq S
    BY <1>1, <1>3
  <1>5. \A p : Blocks(s, p) \cap S = Blocks(s, p) \ {k}
    BY <1>1, <1>2
  <1> HIDE DEF S
  <1>6. \A p : /\ Blocks(o, p) = {} <=> Blocks(s, p) \cap S = {}
               /\ Size(o, p) = Cardinality(Bytes(s, Blocks(s, p) \cap S))
    BY <1>4, OnlyBlocks
  <1> HIDE DEF o
  <1>7. ASSUME NEW p \in Panes, p # q PROVE Size(o, p) = Size(s, p)
    <2>1. Blocks(s, p) \cap S = Blocks(s, p)
      BY <1>2, <1>3, <1>5, <1>7
    <2> QED
      BY <2>1, <1>2, <1>6
  <1>8. \A p \in Panes : Blocks(s, p) = {} => Blocks(o, p) = {}
    BY <1>6
  <1>9. Size(o, q) = Size(s, q) - s[k].size
    <2> DEFINE B == Blocks(s, q)
               C == B \ {k}
    <2>1. IsFiniteSet(B) /\ k \in B /\ \A i \in B : s[i].size \in Nat
      BY <1>2
    <2>2. Size(o, q) = Cardinality(Bytes(s, C)) /\ Size(s, q) = Cardinality(Bytes(s, B))
      BY <1>2, <1>5, <1>6
    <2>3. IsFiniteSet(C) /\ \A i \in C : s[i].size \in Nat
      BY <2>1, FS_RemoveElement
    <2> HIDE DEF B
    <2>4. Cardinality(Bytes(s, B)) = Cardinality(Bytes(s, C)) + s[k].size
      BY <2>1, BytesWithout
    <2> HIDE DEF C
    <2>5. Cardinality(Bytes(s, C)) \in Nat /\ s[k].size \in Nat
      BY <2>1, <2>3, BytesFinite
    <2> QED
      BY <2>2, <2>4, <2>5
  <1>10. o \in Seq(Entry)
    BY <1>4, OnlyPlaces DEF o
  <1>11. Cardinality(LineBlocks(o)) = Cardinality(LineBlocks(s))
    BY <1>4, OnlyLines DEF o
  <1>12. ASSUME NEW m \in Nat, NEW open \in BOOLEAN
         PROVE  /\ Outputs(s, m) => Outputs(o, m)
                /\ Counted(s, m) => Counted(o, m)
                /\ Paired(s, open) => Paired(o, open)
                /\ s = <<>> => o = <<>>
    BY <1>4, OnlyOrder DEF o
  <1>13. Paired(s, FALSE) => Paired(o, FALSE)
    <2>1. FALSE \in BOOLEAN /\ 0 \in Nat
      OBVIOUS
    <2> QED
      BY ONLY <2>1, <1>12
  <1>14. s = <<>> => o = <<>>
    <2>1. FALSE \in BOOLEAN /\ 0 \in Nat
      OBVIOUS
    <2> QED
      BY ONLY <2>1, <1>12
  <1>15. \A m \in Nat : (Outputs(s, m) => Outputs(o, m)) /\ (Counted(s, m) => Counted(o, m))
    <2>1. FALSE \in BOOLEAN
      OBVIOUS
    <2> QED
      BY ONLY <2>1, <1>12
  <1>16. Sent(s, o, q, s[k].size)
    BY <1>7, <1>8, <1>9, <1>10, <1>11, <1>13, <1>14, <1>15, Zenon DEF Sent
  <1> QED
    BY <1>16 DEF o, S

-----------------------------------------------------------------------------
(***************************************************************************)
(* The client.                                                             *)
(***************************************************************************)
ToldOf == [n : Nat, open : BOOLEAN, ok : BOOLEAN]
Clients ==
  [all : Seq(Entry), told : ToldOf, evb : Nat, lines : Nat, writing : BOOLEAN, exit : BOOLEAN,
   discard : BOOLEAN, timer : BOOLEAN, exited : BOOLEAN, lost : BOOLEAN]

\* The lines that are before the first output.
LEMMA LeadingLines ==
  ASSUME NEW s \in Seq(Entry)
  PROVE  /\ Leading(s) \in 0..Len(s) /\ 1..Leading(s) \subseteq LineBlocks(s)
         /\ Leading(s) < Len(s) => s[Leading(s) + 1].what \in Panes
PROOF
  <1> DEFINE output == DOMAIN s \ LineBlocks(s)
             n == Leading(s)
  <1>1. /\ Len(s) \in Nat /\ DOMAIN s = 1..Len(s)
        /\ \A i \in 1..Len(s) : i \in LineBlocks(s) <=> s[i].what \notin Panes
    BY Queue
  <1>2. output \in SUBSET (1..Len(s)) /\ \A i \in 1..Len(s) : i \in output <=> i \notin LineBlocks(s)
    BY <1>1
  <1>3. n = IF output = {} THEN Len(s) ELSE Nth(output, 1) - 1
    BY DEF Leading
  <1> HIDE DEF output, n
  <1>4. CASE output = {}
    <2>1. n = Len(s)
      BY <1>3, <1>4
    <2>2. 1..n \subseteq LineBlocks(s)
      BY <2>1, <1>2, <1>4
    <2>3. n \in 0..Len(s) /\ ~(n < Len(s))
      BY <2>1, <1>1
    <2> QED
      BY <2>2, <2>3 DEF n
  <1>5. CASE output # {}
    <2>1. Nth(output, 1) \in output /\ \A i \in output : Nth(output, 1) <= i
      BY <1>1, <1>2, <1>5, FirstPlace
    <2>2. n + 1 \in output /\ n \in 0..Len(s) /\ \A i \in output : n + 1 <= i
      <3>1. Nth(output, 1) \in 1..Len(s)
        BY <2>1, <1>2
      <3>2. n = Nth(output, 1) - 1
        BY <1>3, <1>5
      <3>3. n + 1 = Nth(output, 1) /\ n \in 0..Len(s)
        BY <3>1, <3>2, <1>1
      <3> QED
        BY <2>1, <3>3
    <2>3. ASSUME NEW i \in 1..n PROVE i \in LineBlocks(s)
      <3>1. i \in 1..Len(s) /\ ~(n + 1 <= i)
        BY <2>2, <1>1
      <3> QED
        BY <3>1, <2>2, <1>2
    <2>4. s[n + 1].what \in Panes
      BY <2>2, <1>1, <1>2
    <2> QED
      BY <2>2, <2>3, <2>4 DEF n
  <1> QED
    BY <1>4, <1>5

\* What the client is told.
LEMMA ToldType ==
  ASSUME NEW told \in ToldOf, NEW w \in Seq(Entry)
  PROVE  /\ Told(told, w) \in ToldOf /\ Told(told, w).n = told.n + Len(w)
         /\ Told(told, w).open = IF Len(w) = 0 THEN told.open ELSE w[Len(w)].what = "begin"
PROOF
  <1> DEFINE open == IF Len(w) = 0 THEN told.open ELSE w[Len(w)].what = "begin"
             ok == Told(told, w).ok
  <1>1. Len(w) \in Nat
    BY LenProperties
  <1>2. told.n \in Nat /\ told.open \in BOOLEAN
    BY DEF ToldOf
  <1>3. open \in BOOLEAN
    BY <1>2
  <1>4. Told(told, w) = [n |-> told.n + Len(w), open |-> open, ok |-> ok]
    BY DEF Told
  <1>5. ok \in BOOLEAN
    BY DEF Told
  <1> HIDE DEF open, ok
  <1>6. [n |-> told.n + Len(w), open |-> open, ok |-> ok] \in ToldOf
    BY <1>1, <1>2, <1>3, <1>5 DEF ToldOf
  <1> QED
    BY <1>4, <1>6 DEF open

LEMMA ToldRight ==
  ASSUME NEW told \in ToldOf, NEW w \in Seq(Entry), told.ok,
         \A i \in 1..Len(w) : w[i].no = told.n + i,
         told.open /\ Len(w) > 0 => w[1].what = "end",
         \A i \in 1..(Len(w) - 1) : w[i].what = "begin" => w[i + 1].what = "end"
  PROVE  Told(told, w).ok
PROOF
  <1>1. Len(w) \in Nat /\ DOMAIN w = 1..Len(w)
    BY LenProperties
  <1>2. Told(told, w).ok =
          (/\ told.ok
           /\ \A i \in DOMAIN w :
                /\ w[i].no = told.n + i
                /\ (IF i - 1 = 0 THEN told.open ELSE w[i - 1].what = "begin") => w[i].what = "end")
    BY DEF Told
  <1>3. ASSUME NEW i \in 1..Len(w), IF i - 1 = 0 THEN told.open ELSE w[i - 1].what = "begin"
        PROVE  w[i].what = "end"
    <2>1. CASE i = 1
      BY <2>1, <1>1, <1>3
    <2>2. CASE i # 1
      <3>1. i - 1 \in 1..(Len(w) - 1) /\ (i - 1) + 1 = i /\ i - 1 # 0
        BY <2>2, <1>1
      <3> QED
        BY <3>1, <1>3
    <2> QED
      BY <2>1, <2>2
  <1> QED
    BY <1>1, <1>2, <1>3

\* What was sent and what waits fit together: output waits for the lines before
\* it ...
Sorted(c) ==
  /\ c.told.n + Cardinality(LineBlocks(c.all)) <= c.lines
  /\ Outputs(c.all, c.told.n)

\* ... and while the client is not too far behind its lines are numbered without
\* a gap and no block of a command is open, except that of the command that runs.
Orderly(c, open) ==
  /\ Sorted(c)
  /\ ~c.discard =>
       /\ c.told.ok /\ (c.told.open <=> open /\ c.all = <<>>)
       /\ Counted(c.all, c.told.n) /\ Paired(c.all, open)
       /\ ~c.exited => c.lines = c.told.n + Cardinality(LineBlocks(c.all))

\* How much waits for the client.
Waits(c) == c.evb + Cardinality(LineBlocks(c.all))

\* No output comes, and lines only while the client is not too far behind.
Follows(c, d) ==
  /\ d.exited = c.exited /\ d.lost = c.lost /\ d.timer = c.timer
  /\ (c.exit => d.exit) /\ (c.writing => d.writing)
  /\ \A p \in Panes : /\ Blocks(c.all, p) = {} => Blocks(d.all, p) = {}
                      /\ Size(d.all, p) <= Size(c.all, p)
  /\ Cardinality(LineBlocks(d.all)) <= Larger(Cardinality(LineBlocks(c.all)), MaxReplies - 1)
  /\ Waits(d) <= Larger(Waits(c), MaxReplies - 1)

LEMMA LargerIs ==
  ASSUME NEW i \in Int, NEW k \in Int
  PROVE  Larger(i, k) \in {i, k} /\ i <= Larger(i, k) /\ k <= Larger(i, k)
BY DEF Larger

LEMMA WaitsIs ==
  ASSUME NEW c \in Clients
  PROVE  /\ Waits(c) \in Nat /\ c.evb \in Nat /\ Cardinality(LineBlocks(c.all)) \in Nat
         /\ c.all \in Seq(Entry) /\ \A p \in Panes : Size(c.all, p) \in Nat
PROOF
  <1>1. c.all \in Seq(Entry) /\ c.evb \in Nat
    BY DEF Clients
  <1>2. Cardinality(LineBlocks(c.all)) \in Nat
    BY <1>1, Queue
  <1>3. \A p \in Panes : Size(c.all, p) \in Nat
    BY <1>1, QueueOf
  <1> QED
    BY <1>1, <1>2, <1>3 DEF Waits

LEMMA FollowsItself ==
  ASSUME NEW c \in Clients
  PROVE  Follows(c, c)
PROOF
  <1>1. /\ Waits(c) \in Nat /\ Cardinality(LineBlocks(c.all)) \in Nat
        /\ \A p \in Panes : Size(c.all, p) \in Nat
    BY WaitsIs
  <1>2. MaxReplies - 1 \in Int
    BY ControlAssumption DEF ControlAssumption
  <1>3. Waits(c) <= Larger(Waits(c), MaxReplies - 1)
    BY <1>1, <1>2, LargerIs
  <1>4. Cardinality(LineBlocks(c.all)) <= Larger(Cardinality(LineBlocks(c.all)), MaxReplies - 1)
    BY <1>1, <1>2, LargerIs
  <1>5. \A p \in Panes : Size(c.all, p) <= Size(c.all, p)
    BY <1>1
  <1> QED
    BY <1>3, <1>4, <1>5, Zenon DEF Follows

LEMMA FollowsOn ==
  ASSUME NEW c \in Clients, NEW d \in Clients, NEW e \in Clients, Follows(c, d), Follows(d, e)
  PROVE  Follows(c, e)
PROOF
  <1>1. \A x \in {c, d, e} : /\ Waits(x) \in Nat /\ Cardinality(LineBlocks(x.all)) \in Nat
                             /\ \A p \in Panes : Size(x.all, p) \in Nat
    BY WaitsIs
  <1>2. MaxReplies - 1 \in Int
    BY ControlAssumption DEF ControlAssumption
  <1>3. ASSUME NEW i \in Nat, NEW j \in Nat, NEW k \in Nat, j <= Larger(i, MaxReplies - 1),
               k <= Larger(j, MaxReplies - 1)
        PROVE  k <= Larger(i, MaxReplies - 1)
    BY <1>2, <1>3 DEF Larger
  <1>4. Waits(e) <= Larger(Waits(c), MaxReplies - 1)
    <2>1. Waits(d) <= Larger(Waits(c), MaxReplies - 1) /\ Waits(e) <= Larger(Waits(d), MaxReplies - 1)
      BY Zenon DEF Follows
    <2> QED
      BY <2>1, <1>1, <1>3
  <1>5. Cardinality(LineBlocks(e.all)) <= Larger(Cardinality(LineBlocks(c.all)), MaxReplies - 1)
    <2>1. /\ Cardinality(LineBlocks(d.all)) <= Larger(Cardinality(LineBlocks(c.all)), MaxReplies - 1)
          /\ Cardinality(LineBlocks(e.all)) <= Larger(Cardinality(LineBlocks(d.all)), MaxReplies - 1)
      BY Zenon DEF Follows
    <2> QED
      BY <2>1, <1>1, <1>3
  <1>6. ASSUME NEW p \in Panes PROVE Size(e.all, p) <= Size(c.all, p)
    <2>1. Size(d.all, p) <= Size(c.all, p) /\ Size(e.all, p) <= Size(d.all, p)
      BY Zenon DEF Follows
    <2>2. Size(c.all, p) \in Nat /\ Size(d.all, p) \in Nat /\ Size(e.all, p) \in Nat
      BY <1>1
    <2> QED
      BY <2>1, <2>2
  <1> QED
    BY <1>4, <1>5, <1>6, Zenon DEF Follows

LEMMA NothingOf ==
  ASSUME NEW s \in Seq(Entry), NEW p, Blocks(s, p) = {}
  PROVE  Size(s, p) = 0
PROOF
  <1>1. Size(s, p) = Cardinality(Bytes(s, {}))
    BY QueueOf
  <1>2. Bytes(s, {}) = {}
    BY DEF Bytes
  <1> QED
    BY <1>1, <1>2, FS_EmptySet

\* control_discard_pane: what is left is in order.
LEMMA DiscardClient ==
  ASSUME NEW c \in Clients, NEW ps \in SUBSET Panes
  PROVE  /\ Discard(c, ps) \in Clients /\ Follows(c, Discard(c, ps))
         /\ Discard(c, ps) = [c EXCEPT !.all = Discard(c, ps).all]
         /\ Waits(Discard(c, ps)) = Waits(c)
         /\ \A p \in ps : Blocks(Discard(c, ps).all, p) = {}
         /\ \A open \in BOOLEAN : Orderly(c, open) => Orderly(Discard(c, ps), open)
         /\ Sorted(c) => Sorted(Discard(c, ps))
         /\ c.all = <<>> => Discard(c, ps).all = <<>>
PROOF
  <1> DEFINE s == c.all
             S == {i \in DOMAIN s : s[i].what \notin ps}
             o == Only(s, S)
             d == Discard(c, ps)
  <1>1. s \in Seq(Entry) /\ c.evb \in Nat
    BY DEF Clients
  <1>2. d = [c EXCEPT !.all = o]
    BY DEF Discard
  <1>3. /\ DOMAIN s = 1..Len(s) /\ LineBlocks(s) \in SUBSET (1..Len(s))
        /\ \A i \in 1..Len(s) : i \in LineBlocks(s) <=> s[i].what \notin Panes
        /\ Cardinality(LineBlocks(s)) \in Nat
    BY <1>1, Queue
  <1>4. S \in SUBSET DOMAIN s /\ LineBlocks(s) \subseteq S
    BY <1>3
  <1>5. ASSUME NEW p PROVE /\ p \in ps => Blocks(s, p) \cap S = {}
                           /\ p \notin ps => Blocks(s, p) \cap S = Blocks(s, p)
    <2>1. Blocks(s, p) \in SUBSET (1..Len(s)) /\ \A i \in 1..Len(s) : i \in Blocks(s, p) <=> s[i].what = p
      BY <1>1, QueueOf
    <2>2. \A i \in Blocks(s, p) : i \in S <=> p \notin ps
      BY <2>1, <1>3
    <2> QED
      BY ONLY <2>2
  <1> HIDE DEF S
  <1>6. o \in Seq(Entry)
    BY <1>1, <1>4, OnlyPlaces
  <1>7. \A p : /\ Blocks(o, p) = {} <=> Blocks(s, p) \cap S = {}
               /\ Size(o, p) = Cardinality(Bytes(s, Blocks(s, p) \cap S))
    BY <1>1, <1>4, OnlyBlocks
  <1>8. Cardinality(LineBlocks(o)) = Cardinality(LineBlocks(s))
    BY <1>1, <1>4, OnlyLines
  <1>9. \A p : Size(s, p) = Cardinality(Bytes(s, Blocks(s, p))) /\ Size(s, p) \in Nat
    BY <1>1, QueueOf
  <1>10. ASSUME NEW open \in BOOLEAN, NEW n \in Nat
         PROVE /\ Outputs(s, n) => Outputs(o, n)
               /\ Counted(s, n) => Counted(o, n)
               /\ Paired(s, open) => Paired(o, open)
               /\ s = <<>> => o = <<>>
               /\ Paired(s, open) /\ open /\ s # <<>> => o # <<>>
    BY <1>1, <1>4, OnlyOrder
  <1> HIDE DEF o, d
  <1>11. d \in Clients
    BY <1>2, <1>6 DEF Clients
  <1>12. /\ d.all = o /\ d.exited = c.exited /\ d.lost = c.lost /\ d.timer = c.timer /\ d.exit = c.exit
         /\ d.writing = c.writing /\ d.evb = c.evb /\ d.told = c.told /\ d.lines = c.lines
         /\ d.discard = c.discard
    BY <1>2 DEF Clients
  <1>13. Waits(d) = Waits(c)
    BY <1>8, <1>12 DEF Waits
  <1>14. \A p \in ps : Blocks(o, p) = {}
    BY <1>5, <1>7
  <1>15. ASSUME NEW p PROVE Size(o, p) <= Size(s, p) /\ (Blocks(s, p) = {} => Blocks(o, p) = {})
    <2>1. CASE p \in ps
      <3>1. Blocks(o, p) = {}
        BY <2>1, <1>14
      <3>2. Size(o, p) = 0
        BY <3>1, <1>6, NothingOf
      <3> QED
        BY <3>1, <3>2, <1>9
    <2>2. CASE p \notin ps
      <3>1. Blocks(s, p) \cap S = Blocks(s, p)
        BY <2>2, <1>5
      <3>2. Size(o, p) = Size(s, p)
        BY <3>1, <1>7, <1>9
      <3>3. Blocks(o, p) = {} <=> Blocks(s, p) = {}
        BY <3>1, <1>7
      <3> QED
        BY <3>2, <3>3, <1>9
    <2> QED
      BY <2>1, <2>2
  <1>16. Follows(c, d)
    <2>1. MaxReplies - 1 \in Int
      BY ControlAssumption DEF ControlAssumption
    <2>2. Waits(c) \in Nat
      BY WaitsIs
    <2>3. Waits(d) <= Larger(Waits(c), MaxReplies - 1)
      BY <2>1, <2>2, <1>13, LargerIs
    <2>4. Cardinality(LineBlocks(o)) <= Larger(Cardinality(LineBlocks(s)), MaxReplies - 1)
      BY <2>1, <1>3, <1>8, LargerIs
    <2> QED
      BY <2>3, <2>4, <1>12, <1>15, Zenon DEF Follows
  <1>17. ASSUME NEW open \in BOOLEAN, Orderly(c, open) PROVE Orderly(d, open)
    <2>1. c.told.n \in Nat
      BY DEF Clients, ToldOf
    <2>2. c.told.n + Cardinality(LineBlocks(o)) <= c.lines
      BY <1>17, <1>8, Zenon DEF Orderly, Sorted
    <2>3. Outputs(o, c.told.n)
      BY <1>17, <1>10, <2>1, Zenon DEF Orderly, Sorted
    <2>4. ASSUME ~c.discard
          PROVE  /\ c.told.ok /\ (c.told.open <=> open /\ o = <<>>)
                 /\ Counted(o, c.told.n) /\ Paired(o, open)
                 /\ ~c.exited => c.lines = c.told.n + Cardinality(LineBlocks(o))
      <3>1. /\ c.told.ok /\ (c.told.open <=> open /\ s = <<>>)
            /\ Counted(s, c.told.n) /\ Paired(s, open)
            /\ ~c.exited => c.lines = c.told.n + Cardinality(LineBlocks(s))
        BY <1>17, <2>4, Zenon DEF Orderly, Sorted
      <3> QED
        BY <3>1, <2>1, <1>8, <1>10, Zenon
    <2> QED
      BY <2>2, <2>3, <2>4, <1>12, Zenon DEF Orderly, Sorted
  <1>17a. ASSUME Sorted(c) PROVE Sorted(d)
    <2>1. c.told.n \in Nat /\ FALSE \in BOOLEAN
      BY DEF Clients, ToldOf
    <2>2. c.told.n + Cardinality(LineBlocks(o)) <= c.lines
      BY <1>17a, <1>8, Zenon DEF Sorted
    <2>3. Outputs(o, c.told.n)
      BY <1>17a, <1>10, <2>1, Zenon DEF Sorted
    <2> QED
      BY <2>2, <2>3, <1>12, Zenon DEF Sorted
  <1>18. s = <<>> => o = <<>>
    <2>1. FALSE \in BOOLEAN /\ 0 \in Nat
      OBVIOUS
    <2> QED
      BY <2>1, <1>10, Zenon
  <1>19. d = [c EXCEPT !.all = d.all]
    BY <1>2, <1>12
  <1>20. \A p \in ps : Blocks(d.all, p) = {}
    BY <1>12, <1>14
  <1> QED
    BY <1>11, <1>12, <1>13, <1>16, <1>17, <1>17a, <1>18, <1>19, <1>20, Zenon DEF d

\* control_flush_all_blocks: the lines are sent in order.
LEMMA FlushClient ==
  ASSUME NEW c \in Clients
  PROVE  /\ Flush(c) \in Clients /\ Follows(c, Flush(c))
         /\ Flush(c) = [c EXCEPT !.all = Flush(c).all, !.told = Flush(c).told, !.evb = Flush(c).evb]
         /\ Waits(Flush(c)) = Waits(c)
         /\ Orderly(c, FALSE) => Orderly(Flush(c), FALSE)
         /\ c.all = <<>> => Flush(c).all = <<>>
PROOF
  <1> DEFINE s == c.all
             n == Leading(s)
             t == SubSeq(s, n + 1, Len(s))
             w == SubSeq(s, 1, n)
             d == Flush(c)
  <1>1. s \in Seq(Entry) /\ c.evb \in Nat /\ c.told \in ToldOf /\ c.lines \in Nat /\ c.told.n \in Nat
    BY DEF Clients, ToldOf
  <1>2. /\ n \in 0..Len(s) /\ 1..n \subseteq LineBlocks(s)
        /\ n < Len(s) => s[n + 1].what \in Panes
    BY <1>1, LeadingLines
  <1>3. /\ Len(s) \in Nat /\ DOMAIN s = 1..Len(s) /\ \A i \in 1..Len(s) : s[i] \in Entry
        /\ LineBlocks(s) \in SUBSET (1..Len(s)) /\ Cardinality(LineBlocks(s)) \in Nat
        /\ \A i \in 1..Len(s) : i \in LineBlocks(s) <=> s[i].what \notin Panes
    BY <1>1, Queue
  <1>4. d = [c EXCEPT !.all = t, !.told = Told(c.told, w), !.evb = c.evb + n]
    BY DEF Flush
  <1> HIDE DEF n
  <1>5. /\ t \in Seq(Entry) /\ Len(t) = Len(s) - n
        /\ Cardinality(LineBlocks(t)) = Cardinality(LineBlocks(s)) - n
    BY <1>1, <1>2, DropLines
  <1>6. \A p \in Panes : (Blocks(t, p) = {} <=> Blocks(s, p) = {}) /\ Size(t, p) = Size(s, p)
    BY <1>1, <1>2, DropBlocks
  <1>7. /\ Outputs(s, c.told.n) => Outputs(t, c.told.n + n)
        /\ Counted(s, c.told.n) => Counted(t, c.told.n + n)
        /\ Paired(s, FALSE) => Paired(t, FALSE)
    BY <1>1, <1>2, DropOrder
  <1>8. n \in Nat /\ n \in Int /\ 1 \in Int
    BY <1>2, <1>3
  <1>9. w \in Seq(Entry) /\ Len(w) = n /\ \A i \in 1..n : w[i] = s[i]
    <2>1. \A i \in 1..n : s[i] \in Entry
      BY <1>2, <1>3
    <2>2. /\ w \in Seq(Entry)
          /\ Len(w) = IF 1 <= n THEN n - 1 + 1 ELSE 0
          /\ \A i \in 1..(n - 1 + 1) : w[i] = s[1 + i - 1]
      BY <2>1, <1>8, SubSeqProperties
    <2> HIDE DEF w
    <2>3. n - 1 + 1 = n /\ \A i \in 1..n : 1 + i - 1 = i
      BY <1>8
    <2>4. Len(w) = n
      BY <2>2, <1>8
    <2> QED
      BY <2>2, <2>3, <2>4
  <1> HIDE DEF t, w, d
  <1>10. /\ Told(c.told, w) \in ToldOf /\ Told(c.told, w).n = c.told.n + n
         /\ Told(c.told, w).open = IF n = 0 THEN c.told.open ELSE w[n].what = "begin"
    BY <1>1, <1>9, ToldType
  <1>11. d \in Clients
    <2>1. c.evb + n \in Nat
      BY <1>1, <1>8
    <2>2. t \in Seq(Entry) /\ Told(c.told, w) \in ToldOf
      BY <1>5, <1>10
    <2> QED
      BY ONLY <1>4, <2>1, <2>2, c \in Clients DEF Clients
  <1>12. /\ d.all = t /\ d.exited = c.exited /\ d.lost = c.lost /\ d.timer = c.timer /\ d.exit = c.exit
         /\ d.writing = c.writing /\ d.evb = c.evb + n /\ d.told = Told(c.told, w)
         /\ d.lines = c.lines /\ d.discard = c.discard
    BY <1>4 DEF Clients
  <1>13. Waits(d) = Waits(c)
    BY <1>1, <1>3, <1>5, <1>8, <1>12 DEF Waits
  <1>14. Follows(c, d)
    <2>1. MaxReplies - 1 \in Int
      BY ControlAssumption DEF ControlAssumption
    <2>2. Waits(c) \in Nat
      BY WaitsIs
    <2>3. Waits(d) <= Larger(Waits(c), MaxReplies - 1)
      BY <2>1, <2>2, <1>13, LargerIs
    <2>4. Cardinality(LineBlocks(s)) <= Larger(Cardinality(LineBlocks(s)), MaxReplies - 1)
      BY <2>1, <1>3, LargerIs
    <2>5. Larger(Cardinality(LineBlocks(s)), MaxReplies - 1) \in Int
      BY <2>1, <1>3 DEF Larger
    <2>6. Cardinality(LineBlocks(t)) <= Larger(Cardinality(LineBlocks(s)), MaxReplies - 1)
      BY <2>4, <2>5, <1>3, <1>5, <1>8
    <2>7. \A p \in Panes : Size(t, p) <= Size(s, p)
      BY <1>6, WaitsIs
    <2> QED
      BY <2>3, <2>6, <2>7, <1>6, <1>12, Zenon DEF Follows
  <1>15. ASSUME Orderly(c, FALSE) PROVE Orderly(d, FALSE)
    <2>1. d.told.n + Cardinality(LineBlocks(t)) <= d.lines
      <3>1. c.told.n + Cardinality(LineBlocks(s)) <= c.lines
        BY <1>15, Zenon DEF Orderly, Sorted
      <3> QED
        BY <3>1, <1>1, <1>3, <1>5, <1>8, <1>10, <1>12
    <2>2. Outputs(t, d.told.n)
      BY <1>15, <1>7, <1>10, <1>12 DEF Orderly, Sorted
    <2>3. ASSUME ~c.discard
          PROVE  /\ d.told.ok /\ ~d.told.open
                 /\ Counted(t, d.told.n) /\ Paired(t, FALSE)
                 /\ ~c.exited => d.lines = d.told.n + Cardinality(LineBlocks(t))
      <3>1. /\ c.told.ok /\ ~c.told.open
            /\ Counted(s, c.told.n) /\ Paired(s, FALSE)
            /\ ~c.exited => c.lines = c.told.n + Cardinality(LineBlocks(s))
        BY <1>15, <2>3, Zenon DEF Orderly, Sorted
      <3>2. ~c.exited => d.lines = d.told.n + Cardinality(LineBlocks(t))
        BY <3>1, <1>1, <1>3, <1>5, <1>8, <1>10, <1>12
      <3>3. Counted(t, d.told.n) /\ Paired(t, FALSE)
        BY <3>1, <1>7, <1>10, <1>12
      <3>4. \A i \in 1..n : w[i].no = c.told.n + i
        <4>1. \A i \in LineBlocks(s) : s[i].no = c.told.n + Rank(LineBlocks(s), i)
          BY <3>1 DEF Counted
        <4>2. ASSUME NEW i \in 1..n PROVE Rank(LineBlocks(s), i) = i /\ i \in LineBlocks(s)
          <5>1. i \in 0..Len(s) /\ 1..i \subseteq LineBlocks(s) /\ i \in LineBlocks(s)
            BY <1>2, <1>3
          <5> QED
            BY <5>1, <1>3, RankLead
        <4> QED
          BY <4>1, <4>2, <1>9
      <3>5. \A i \in 1..Len(s) : s[i].what = "begin" => i + 1 \in 1..Len(s) /\ s[i + 1].what = "end"
        BY <3>1, <1>3 DEF Paired
      <3>6. \A i \in 1..(n - 1) : w[i].what = "begin" => w[i + 1].what = "end"
        <4>1. \A i \in 1..(n - 1) : i \in 1..n /\ i + 1 \in 1..n /\ i \in 1..Len(s)
          BY <1>2, <1>3, <1>8
        <4> QED
          BY <4>1, <3>5, <1>9
      <3>7. n > 0 => w[n].what # "begin"
        <4> SUFFICES ASSUME n > 0, w[n].what = "begin" PROVE FALSE
          OBVIOUS
        <4>1. n \in 1..n /\ n \in 1..Len(s)
          BY <1>2, <1>3, <1>8
        <4>2. n + 1 \in 1..Len(s) /\ s[n + 1].what = "end"
          BY <4>1, <3>5, <1>9
        <4>3. n < Len(s)
          BY <4>2, <1>3, <1>8
        <4> QED
          BY <4>2, <4>3, <1>2, NoPaneSays
      <3>8. Told(c.told, w).ok
        BY <3>1, <3>4, <3>6, <1>1, <1>9, ToldRight
      <3>9. ~Told(c.told, w).open
        <4>1. CASE n = 0
          BY <4>1, <3>1, <1>10
        <4>2. CASE n # 0
          <5>1. w[n].what # "begin"
            BY <4>2, <3>7, <1>8
          <5> QED
            BY <5>1, <4>2, <1>10
        <4> QED
          BY <4>1, <4>2
      <3> QED
        BY <3>2, <3>3, <3>8, <3>9, <1>12
    <2> QED
      BY <2>1, <2>2, <2>3, <1>12, Zenon DEF Orderly, Sorted
  <1>16. s = <<>> => t = <<>>
    <2>1. s = <<>> => Len(t) = 0
      BY <1>5, <1>2, <1>3, EmptySeq
    <2> QED
      BY <2>1, <1>5, EmptySeq
  <1>17. d = [c EXCEPT !.all = d.all, !.told = d.told, !.evb = d.evb]
    BY <1>4, <1>12
  <1> QED
    BY <1>11, <1>12, <1>13, <1>14, <1>15, <1>16, <1>17, Zenon DEF d

\* An empty queue.
LEMMA EmptyQueue ==
  /\ <<>> \in Seq(Entry) /\ LineBlocks(<<>>) = {} /\ Cardinality(LineBlocks(<<>>)) = 0
  /\ \A n : Outputs(<<>>, n) /\ Counted(<<>>, n)
  /\ \A open \in BOOLEAN : Paired(<<>>, open)
  /\ \A p : Blocks(<<>>, p) = {} /\ Size(<<>>, p) = 0
PROOF
  <1>1. <<>> \in Seq(Entry) /\ DOMAIN <<>> = {}
    OBVIOUS
  <1>2. LineBlocks(<<>>) = {}
    BY <1>1 DEF LineBlocks
  <1>3. \A p : Blocks(<<>>, p) = {}
    BY <1>1 DEF Blocks
  <1>4. \A p : Size(<<>>, p) = 0
    BY <1>1, <1>3, NothingOf
  <1>5. \A n : Outputs(<<>>, n)
    BY <1>1 DEF Outputs
  <1>6. \A n : Counted(<<>>, n)
    BY <1>2 DEF Counted
  <1>7. \A open \in BOOLEAN : Paired(<<>>, open)
    BY <1>1 DEF Paired
  <1>8. Cardinality(LineBlocks(<<>>)) = 0
    BY <1>2, FS_EmptySet
  <1> QED
    BY <1>1, <1>2, <1>3, <1>4, <1>5, <1>6, <1>7, <1>8

\* Lines after output.
LEMMA AddOutputs ==
  ASSUME NEW s \in Seq(Entry), NEW w \in Seq(Entry), \A i \in 1..Len(w) : w[i].what \in Kinds,
         NEW n \in Nat, Outputs(s, n)
  PROVE  Outputs(s \o w, n)
PROOF
  <1> DEFINE t == s \o w
             h == Len(s)
             m == Len(w)
  <1>1. h \in Nat /\ m \in Nat /\ DOMAIN s = 1..h
    BY Queue
  <1>2. /\ t \in Seq(Entry) /\ Len(t) = h + m
        /\ \A i \in 1..h : t[i] = s[i]
        /\ \A i \in 1..m : t[h + i] = w[i]
        /\ \A i \in 0..h : Rank(LineBlocks(t), i) = Rank(LineBlocks(s), i)
    BY AddLines
  <1>3. \A i \in 1..m : w[i].what \in Kinds
    OBVIOUS
  <1> HIDE DEF t, h, m
  <1>4. DOMAIN t = 1..(h + m)
    BY <1>2, Queue
  <1>5. ASSUME NEW i \in 1..(h + m), i \notin 1..h PROVE i - h \in 1..m /\ i = h + (i - h)
    BY <1>1, <1>5
  <1>6. \A i \in 1..h : s[i].what \in Panes => n + Rank(LineBlocks(s), i) <= s[i].no
    BY <1>1 DEF Outputs, IsOutput
  <1>7. ASSUME NEW i \in 1..(h + m), t[i].what \in Panes PROVE n + Rank(LineBlocks(t), i) <= t[i].no
    <2>1. i \in 1..h
      BY <1>2, <1>3, <1>5, <1>7, NoPaneSays
    <2>2. i \in 0..h
      BY <2>1
    <2> QED
      BY <2>1, <2>2, <1>2, <1>6, <1>7
  <1> QED
    BY <1>4, <1>7 DEF Outputs, IsOutput, t

\* Lines are sent, or join the queue.
LEMMA PutClient ==
  ASSUME NEW c \in Clients, NEW w \in Seq(Entry), \A i \in 1..Len(w) : w[i].what \in Kinds
  PROVE  LET d == Put(c, w)
         IN  /\ d \in Clients /\ d.writing /\ d.exit = c.exit /\ d.exited = c.exited
             /\ d.lost = c.lost /\ d.timer = c.timer
             /\ d.discard = c.discard /\ d.lines = c.lines /\ Len(w) \in Nat
             /\ d.told.n + Cardinality(LineBlocks(d.all))
                  = c.told.n + Cardinality(LineBlocks(c.all)) + Len(w)
             /\ Waits(d) = Waits(c) + Len(w)
             /\ Cardinality(LineBlocks(d.all)) <= Cardinality(LineBlocks(c.all)) + Len(w)
             /\ \A p \in Panes : Blocks(d.all, p) = Blocks(c.all, p) /\ Size(d.all, p) = Size(c.all, p)
             /\ Outputs(c.all, c.told.n) => Outputs(d.all, d.told.n)
PROOF
  <1> DEFINE d == Put(c, w)
             s == c.all
             t == s \o w
  <1>1. s \in Seq(Entry) /\ c.evb \in Nat /\ c.told \in ToldOf /\ c.told.n \in Nat
    BY DEF Clients, ToldOf
  <1>2. Len(w) \in Nat
    BY Queue
  <1>3. Cardinality(LineBlocks(s)) \in Nat
    BY <1>1, Queue
  <1>4. CASE s = <<>>
    <2>1. d = [c EXCEPT !.told = Told(c.told, w), !.evb = c.evb + Len(w), !.writing = TRUE]
      BY <1>4 DEF Put
    <2>2. Told(c.told, w) \in ToldOf /\ Told(c.told, w).n = c.told.n + Len(w)
      BY <1>1, ToldType
    <2>3. c.evb + Len(w) \in Nat
      BY <1>1, <1>2
    <2> HIDE DEF d
    <2>4. d \in Clients
      BY ONLY <2>1, <2>2, <2>3, c \in Clients DEF Clients
    <2>5. /\ d.all = <<>> /\ d.writing /\ d.exit = c.exit /\ d.exited = c.exited
          /\ d.lost = c.lost /\ d.timer = c.timer /\ d.discard = c.discard /\ d.lines = c.lines
          /\ d.told.n = c.told.n + Len(w) /\ d.evb = c.evb + Len(w)
      BY <2>1, <2>2, <1>4 DEF Clients
    <2>6. Cardinality(LineBlocks(d.all)) = 0 /\ Cardinality(LineBlocks(s)) = 0
      BY <2>5, <1>4, EmptyQueue
    <2>7. Waits(d) = Waits(c) + Len(w)
      BY <2>5, <2>6, <1>1, <1>2 DEF Waits
    <2>8. Outputs(d.all, d.told.n)
      BY <2>5, EmptyQueue
    <2>9. /\ d.told.n + Cardinality(LineBlocks(d.all))
                  = c.told.n + Cardinality(LineBlocks(c.all)) + Len(w)
          /\ Cardinality(LineBlocks(d.all)) <= Cardinality(LineBlocks(c.all)) + Len(w)
      BY <2>5, <2>6, <1>1, <1>2
    <2> QED
      BY <2>4, <2>5, <2>7, <2>8, <2>9, <1>2, <1>4 DEF d
  <1>5. CASE s # <<>>
    <2>1. d = [c EXCEPT !.all = t, !.writing = TRUE]
      BY <1>5 DEF Put
    <2>2. /\ t \in Seq(Entry)
          /\ Cardinality(LineBlocks(t)) = Cardinality(LineBlocks(s)) + Len(w)
          /\ \A p \in Panes : Blocks(t, p) = Blocks(s, p) /\ Size(t, p) = Size(s, p)
      BY <1>1, AddLines
    <2>3. Outputs(s, c.told.n) => Outputs(t, c.told.n)
      BY <1>1, AddOutputs
    <2> HIDE DEF d, t
    <2>4. d \in Clients
      BY ONLY <2>1, <2>2, c \in Clients DEF Clients
    <2>5. /\ d.all = t /\ d.writing /\ d.exit = c.exit /\ d.exited = c.exited
          /\ d.lost = c.lost /\ d.timer = c.timer /\ d.discard = c.discard /\ d.lines = c.lines
          /\ d.told = c.told /\ d.evb = c.evb
      BY <2>1 DEF Clients
    <2>6. Waits(d) = Waits(c) + Len(w)
      BY <2>2, <2>5, <1>1, <1>2, <1>3 DEF Waits
    <2>7. /\ d.told.n + Cardinality(LineBlocks(d.all))
                  = c.told.n + Cardinality(LineBlocks(c.all)) + Len(w)
          /\ Cardinality(LineBlocks(d.all)) <= Cardinality(LineBlocks(c.all)) + Len(w)
      BY <2>2, <2>5, <1>1, <1>2, <1>3
    <2> QED
      BY <2>2, <2>3, <2>4, <2>5, <2>6, <2>7, <1>2 DEF d
  <1> QED
    BY <1>4, <1>5

\* They are told, or waiting, in their order.
LEMMA PutOrder ==
  ASSUME NEW c \in Clients, NEW w \in Seq(Entry), NEW kinds,
         NEW open \in BOOLEAN, NEW after \in BOOLEAN, Fits(kinds, open, after),
         Len(w) = Len(kinds), \A i \in 1..Len(w) : w[i].what = kinds[i],
         \A i \in 1..Len(w) : w[i].no = c.told.n + Cardinality(LineBlocks(c.all)) + i,
         c.told.ok, c.told.open <=> open /\ c.all = <<>>,
         Counted(c.all, c.told.n), Paired(c.all, open)
  PROVE  LET d == Put(c, w)
         IN  /\ d.told.ok /\ (d.told.open <=> after /\ d.all = <<>>)
             /\ Counted(d.all, d.told.n) /\ Paired(d.all, after)
PROOF
  <1> DEFINE d == Put(c, w)
             s == c.all
             t == s \o w
  <1>1. s \in Seq(Entry) /\ c.told \in ToldOf /\ c.told.n \in Nat
    BY DEF Clients, ToldOf
  <1>2. Len(w) \in Nat /\ Len(w) > 0
    BY Queue DEF Fits
  <1>3. /\ open => w[1].what = "end"
        /\ \A i \in 1..(Len(w) - 1) : w[i].what = "begin" => w[i + 1].what = "end"
        /\ after <=> w[Len(w)].what = "begin"
    <2>1. \A i \in 1..(Len(w) - 1) : i \in 1..Len(w) /\ i + 1 \in 1..Len(w)
      BY <1>2
    <2>2. 1 \in 1..Len(w) /\ Len(w) \in 1..Len(w)
      BY <1>2
    <2> QED
      BY <2>1, <2>2 DEF Fits
  <1>4. CASE s = <<>>
    <2>1. d = [c EXCEPT !.told = Told(c.told, w), !.evb = c.evb + Len(w), !.writing = TRUE]
      BY <1>4 DEF Put
    <2>2. Told(c.told, w).open = (w[Len(w)].what = "begin")
      <3>1. Told(c.told, w).open = IF Len(w) = 0 THEN c.told.open ELSE w[Len(w)].what = "begin"
        BY <1>1, ToldType
      <3> QED
        BY <3>1, <1>2
    <2>3. Told(c.told, w).ok
      <3>1. \A i \in 1..Len(w) : w[i].no = c.told.n + i
        BY <1>1, <1>4, EmptyQueue
      <3>2. c.told.open /\ Len(w) > 0 => w[1].what = "end"
        BY <1>3
      <3> QED
        BY <3>1, <3>2, <1>1, <1>3, ToldRight
    <2>4. d.all = <<>> /\ d.told = Told(c.told, w)
      BY <2>1, <1>4 DEF Clients
    <2> HIDE DEF d
    <2>5. Counted(d.all, d.told.n) /\ Paired(d.all, after)
      BY <2>4, EmptyQueue
    <2>6. d.told.open <=> after
      BY <2>2, <2>4, <1>3
    <2> QED
      BY <2>3, <2>4, <2>5, <2>6 DEF d
  <1>5. CASE s # <<>>
    <2>1. d = [c EXCEPT !.all = t, !.writing = TRUE]
      BY <1>5 DEF Put
    <2>2. d.all = t /\ d.told = c.told
      BY <2>1 DEF Clients
    <2>3. /\ Counted(s, c.told.n) /\ (\A i \in 1..Len(w) : w[i].no = c.told.n + Cardinality(LineBlocks(s)) + i)
               => Counted(t, c.told.n)
          /\ s # <<>> /\ Paired(s, open) => Paired(t, after)
      BY <1>1, AddOrder
    <2>4. Counted(t, c.told.n) /\ Paired(t, after)
      BY <2>3, <1>5
    <2>5. t # <<>>
      BY <1>1, <1>5, ConcatEqualIffEmpty
    <2>6. ~c.told.open
      BY <1>5
    <2> HIDE DEF d, t
    <2>7. d.told.ok /\ Counted(d.all, d.told.n) /\ Paired(d.all, after)
      BY <2>2, <2>4
    <2>8. d.told.open <=> after /\ d.all = <<>>
      BY <2>2, <2>5, <2>6
    <2> QED
      BY <2>7, <2>8 DEF d
  <1> QED
    BY <1>4, <1>5

\* The room for lines is what is left of the reply buffer.
LEMMA RoomIs ==
  ASSUME NEW c \in Clients
  PROVE  /\ Room(c) \in Nat
         /\ Room(c) > 0 => Waits(c) + Room(c) = MaxReplies - 1
PROOF
  <1>1. Waits(c) \in Nat /\ MaxReplies \in Nat
    BY WaitsIs, ControlAssumption DEF ControlAssumption
  <1>2. Room(c) = Larger(MaxReplies, Waits(c) + 1) - (Waits(c) + 1)
    BY DEF Room, Waits
  <1> QED
    BY <1>1, <1>2 DEF Larger

\* Lines up to the room there is.
LEMMA PutFollows ==
  ASSUME NEW c \in Clients, NEW w \in Seq(Entry), \A i \in 1..Len(w) : w[i].what \in Kinds,
         Len(w) > 0, Len(w) <= Room(c)
  PROVE  Follows(c, Put(c, w))
PROOF
  <1> DEFINE d == Put(c, w)
  <1>1. /\ d \in Clients /\ d.writing /\ d.exit = c.exit /\ d.exited = c.exited
        /\ d.lost = c.lost /\ d.timer = c.timer /\ Len(w) \in Nat /\ Waits(d) = Waits(c) + Len(w)
        /\ Cardinality(LineBlocks(d.all)) <= Cardinality(LineBlocks(c.all)) + Len(w)
        /\ \A p \in Panes : Blocks(d.all, p) = Blocks(c.all, p) /\ Size(d.all, p) = Size(c.all, p)
    BY PutClient
  <1> HIDE DEF d
  <1>2. /\ Waits(c) \in Nat /\ c.evb \in Nat /\ Cardinality(LineBlocks(c.all)) \in Nat
        /\ \A p \in Panes : Size(c.all, p) \in Nat
    BY WaitsIs
  <1>3. Waits(c) = c.evb + Cardinality(LineBlocks(c.all))
    BY DEF Waits
  <1>4. Room(c) \in Nat /\ (Room(c) > 0 => Waits(c) + Room(c) = MaxReplies - 1) /\ MaxReplies - 1 \in Int
    BY RoomIs, ControlAssumption DEF ControlAssumption
  <1>5. Waits(d) <= MaxReplies - 1
    BY <1>1, <1>2, <1>4
  <1>6. Cardinality(LineBlocks(d.all)) <= MaxReplies - 1
    <2>1. Cardinality(LineBlocks(d.all)) \in Nat /\ d.evb \in Nat
      BY <1>1, WaitsIs
    <2>2. Waits(d) = d.evb + Cardinality(LineBlocks(d.all))
      BY DEF Waits
    <2> QED
      BY <2>1, <2>2, <1>4, <1>5
  <1>7. Waits(d) <= Larger(Waits(c), MaxReplies - 1)
    BY <1>1, <1>2, <1>4, <1>5 DEF Larger
  <1>8. Cardinality(LineBlocks(d.all)) <= Larger(Cardinality(LineBlocks(c.all)), MaxReplies - 1)
    <2>1. Cardinality(LineBlocks(d.all)) \in Nat
      BY <1>1, WaitsIs
    <2> QED
      BY <2>1, <1>2, <1>4, <1>6 DEF Larger
  <1>9. \A p \in Panes : /\ Blocks(c.all, p) = {} => Blocks(d.all, p) = {}
                         /\ Size(d.all, p) <= Size(c.all, p)
    BY <1>1, <1>2
  <1> QED
    BY <1>1, <1>7, <1>8, <1>9 DEF Follows, d

\* control_check_reply_buffer gives up: what is sent and waits stays in order.
LEMMA BehindClient ==
  ASSUME NEW c \in Clients
  PROVE  LET d == TooFarBehind(c)
         IN  /\ d \in Clients /\ Follows(c, d) /\ d.exit /\ d.discard
             /\ Sorted(c) => \A open \in BOOLEAN : Orderly(d, open)
PROOF
  <1> DEFINE x == IF c.exit THEN c ELSE Discard(c, Panes)
             d == TooFarBehind(c)
  <1>1. d = [x EXCEPT !.exit = TRUE, !.discard = TRUE]
    BY DEF TooFarBehind
  <1>2. x \in Clients /\ Follows(c, x) /\ (Sorted(c) => Sorted(x))
    <2>1. Panes \in SUBSET Panes
      OBVIOUS
    <2>2. /\ Discard(c, Panes) \in Clients /\ Follows(c, Discard(c, Panes))
          /\ Sorted(c) => Sorted(Discard(c, Panes))
      BY <2>1, DiscardClient
    <2>3. Follows(c, c)
      BY FollowsItself
    <2> QED
      BY <2>2, <2>3
  <1> HIDE DEF x, d
  <1>3. d \in Clients
    BY <1>1, <1>2 DEF Clients
  <1>4. /\ d.all = x.all /\ d.told = x.told /\ d.evb = x.evb /\ d.lines = x.lines
        /\ d.writing = x.writing /\ d.exited = x.exited /\ d.lost = x.lost /\ d.timer = x.timer
        /\ d.exit /\ d.discard
    BY <1>1, <1>2 DEF Clients
  <1>5. Waits(d) = Waits(x)
    BY <1>4 DEF Waits
  <1>6. Follows(c, d)
    BY <1>2, <1>4, <1>5, Zenon DEF Follows
  <1>7. Sorted(c) => \A open \in BOOLEAN : Orderly(d, open)
    BY <1>2, <1>4, Zenon DEF Orderly, Sorted
  <1> QED
    BY <1>3, <1>4, <1>6, <1>7 DEF d

\* control_write_line, for each of some lines.
LEMMA WriteLinesClient ==
  ASSUME NEW c \in Clients, ~c.exited, NEW kinds, NEW open \in BOOLEAN, NEW after \in BOOLEAN,
         Fits(kinds, open, after)
  PROVE  LET d == WriteLines(c, kinds)
         IN  /\ d \in Clients /\ Follows(c, d)
             /\ Orderly(c, open) => Orderly(d, after)
             /\ (c.discard => c.exit) => (d.discard => d.exit)
PROOF
  <1> DEFINE w == [i \in DOMAIN kinds |-> [what |-> kinds[i], size |-> 0, no |-> c.lines + i]]
             m == Len(kinds)
             r == Room(c)
             e == [c EXCEPT !.lines = c.lines + m]
             d == WriteLines(c, kinds)
  <1>1. m \in Nat /\ m > 0 /\ DOMAIN kinds = 1..m /\ \A i \in 1..m : kinds[i] \in Kinds
    BY LenProperties, ElementOfSeq DEF Fits
  <1>2. /\ c.lines \in Nat /\ c.told.n \in Nat /\ c.all \in Seq(Entry) /\ c.evb \in Nat
        /\ c.discard \in BOOLEAN
    BY DEF Clients, ToldOf
  <1>3. Room(e) = r /\ Waits(e) = Waits(c)
    BY DEF Room, Waits, Clients
  <1>4. d = CASE c.discard -> e
              [] ~c.discard /\ Len(w) <= r -> Put(e, w)
              [] ~c.discard /\ Len(w) > r ->
                   TooFarBehind(IF r = 0 THEN e ELSE Put(e, SubSeq(w, 1, r)))
    BY DEF WriteLines
  <1>5. w \in [1..m -> Entry]
    <2>1. \A i \in 1..m : [what |-> kinds[i], size |-> 0, no |-> c.lines + i] \in Entry
      BY <1>1, <1>2 DEF Entry
    <2> HIDE DEF m
    <2> QED
      BY <2>1, <1>1
  <1>6. \A i \in 1..m : w[i].what = kinds[i] /\ w[i].no = c.lines + i
    BY <1>1
  <1> HIDE DEF w, m, e, d, r
  <1>7. w \in Seq(Entry)
    BY <1>1, <1>5, SeqDef
  <1>8. Len(w) = m
    BY <1>1, <1>5, <1>7, LenProperties
  <1>9. \A i \in 1..Len(w) : w[i].what \in Kinds
    BY <1>1, <1>6, <1>8
  <1>10. /\ e \in Clients /\ e.all = c.all /\ e.told = c.told /\ e.evb = c.evb /\ e.lines = c.lines + m
         /\ e.writing = c.writing /\ e.exit = c.exit /\ e.exited = c.exited /\ e.lost = c.lost
         /\ e.timer = c.timer
         /\ e.discard = c.discard
    <2>1. c.lines + m \in Nat
      BY <1>1, <1>2
    <2> QED
      BY <2>1 DEF e, Clients
  <1>11. Cardinality(LineBlocks(c.all)) \in Nat
    BY WaitsIs
  <1>12. Follows(c, e)
    <2>1. Follows(c, c)
      BY FollowsItself
    <2> QED
      BY <2>1, <1>3, <1>10, Zenon DEF Follows
  <1>13. Sorted(c) => Sorted(e)
    <2> SUFFICES ASSUME Sorted(c) PROVE Sorted(e)
      OBVIOUS
    <2>1. c.told.n + Cardinality(LineBlocks(c.all)) <= c.lines /\ Outputs(c.all, c.told.n)
      BY Zenon DEF Sorted
    <2>2. c.told.n + Cardinality(LineBlocks(c.all)) <= c.lines + m
      BY <2>1, <1>1, <1>2, <1>11
    <2> QED
      BY <2>1, <2>2, <1>10, Zenon DEF Sorted
  <1>14. \A b \in BOOLEAN : Orderly(c, b) => Sorted(c)
    BY Zenon DEF Orderly
  <1>15. CASE c.discard
    <2>1. d = e
      BY <1>4, <1>15
    <2>2. Sorted(e) => Orderly(e, after)
      BY <1>10, <1>15, Zenon DEF Orderly
    <2> QED
      BY <2>1, <2>2, <1>10, <1>12, <1>13, <1>14, Zenon DEF d
  <1>16. CASE ~c.discard /\ m <= r
    <2>0. r \in Nat /\ Len(w) <= r /\ ~(Len(w) > r)
      BY <1>1, <1>8, <1>16, RoomIs DEF r
    <2>1. d = Put(e, w)
      BY ONLY <1>4, <2>0, <1>16
    <2>2. Follows(e, Put(e, w))
      BY <1>1, <1>3, <1>7, <1>8, <1>9, <1>10, <1>16, PutFollows
    <2>3. /\ d \in Clients /\ d.exit = e.exit /\ d.exited = e.exited /\ d.lines = e.lines /\ d.discard = e.discard
          /\ d.told.n + Cardinality(LineBlocks(d.all))
               = e.told.n + Cardinality(LineBlocks(e.all)) + Len(w)
          /\ Outputs(e.all, e.told.n) => Outputs(d.all, d.told.n)
      BY <2>1, <1>7, <1>9, <1>10, PutClient
    <2>4. Follows(c, d)
      BY <2>1, <2>2, <2>3, <1>10, <1>12, FollowsOn
    <2>5. ASSUME Orderly(c, open) PROVE Orderly(d, after)
      <3>1. /\ c.told.n + Cardinality(LineBlocks(c.all)) <= c.lines /\ Outputs(c.all, c.told.n)
            /\ c.told.ok /\ (c.told.open <=> open /\ c.all = <<>>)
            /\ Counted(c.all, c.told.n) /\ Paired(c.all, open)
            /\ c.lines = c.told.n + Cardinality(LineBlocks(c.all))
        BY <2>5, <1>16, Zenon DEF Orderly, Sorted
      <3>2. d.told.n + Cardinality(LineBlocks(d.all)) = d.lines
        BY <3>1, <2>3, <1>2, <1>8, <1>10, <1>11
      <3>3. d.lines \in Nat
        BY <2>3 DEF Clients
      <3>4. Outputs(d.all, d.told.n)
        BY <3>1, <2>3, <1>10
      <3>5. \A i \in 1..Len(w) : /\ w[i].no = e.told.n + Cardinality(LineBlocks(e.all)) + i
                                 /\ w[i].what = kinds[i]
        BY <3>1, <1>6, <1>8, <1>10
      <3>6. /\ e.told.ok /\ (e.told.open <=> open /\ e.all = <<>>)
            /\ Counted(e.all, e.told.n) /\ Paired(e.all, open)
        BY <3>1, <1>10, Zenon
      <3>7. Len(w) = Len(kinds)
        BY <1>8 DEF m
      <3>8. /\ d.told.ok /\ (d.told.open <=> after /\ d.all = <<>>)
            /\ Counted(d.all, d.told.n) /\ Paired(d.all, after)
        BY <3>5, <3>6, <3>7, <2>1, <1>7, <1>10, PutOrder
      <3>9. d.told.n + Cardinality(LineBlocks(d.all)) <= d.lines
        BY <3>2, <3>3
      <3> QED
        BY <3>2, <3>4, <3>8, <3>9, Zenon DEF Orderly, Sorted
    <2> QED
      BY <2>3, <2>4, <2>5, <1>10 DEF d
  <1>17. CASE ~c.discard /\ m > r
    <2> DEFINE x == IF r = 0 THEN e ELSE Put(e, SubSeq(w, 1, r))
               v == SubSeq(w, 1, r)
    <2>1. d = TooFarBehind(x)
      BY <1>4, <1>8, <1>17
    <2>2. r \in Nat
      BY RoomIs DEF r
    <2>3. ~(m <= r)
      BY <2>2, <1>1, <1>17
    <2>4. x \in Clients /\ Follows(e, x) /\ (Sorted(c) => Sorted(x))
      <3>1. CASE r = 0
        BY <3>1, <1>10, <1>13, FollowsItself
      <3>2. CASE r # 0
        <4>1. v \in Seq(Entry) /\ Len(v) = r /\ \A i \in 1..r : v[i] = w[i]
          <5>1. 1 \in Int /\ r \in Int /\ \A i \in 1..r : i \in 1..m
            BY <2>2, <1>1, <1>17
          <5>2. \A i \in 1..r : w[i] \in Entry
            BY <5>1, <1>5
          <5>3. /\ v \in Seq(Entry)
                /\ Len(v) = IF 1 <= r THEN r - 1 + 1 ELSE 0
                /\ \A i \in 1..(r - 1 + 1) : v[i] = w[1 + i - 1]
            BY <5>1, <5>2, SubSeqProperties
          <5> HIDE DEF v
          <5>4. r - 1 + 1 = r /\ 1 <= r /\ \A i \in 1..r : 1 + i - 1 = i
            BY <2>2, <3>2
          <5> QED
            BY <5>3, <5>4
        <4> HIDE DEF v
        <4>2. \A i \in 1..Len(v) : v[i].what \in Kinds
          BY <4>1, <2>2, <1>1, <1>8, <1>9, <1>17
        <4>3. Len(v) > 0 /\ Len(v) <= Room(e)
          BY <4>1, <2>2, <3>2, <1>3
        <4>4. Follows(e, Put(e, v))
          BY <4>1, <4>2, <4>3, <1>10, PutFollows
        <4>5. /\ Put(e, v) \in Clients /\ Put(e, v).lines = e.lines
              /\ Put(e, v).told.n + Cardinality(LineBlocks(Put(e, v).all))
                   = e.told.n + Cardinality(LineBlocks(e.all)) + Len(v)
              /\ Outputs(e.all, e.told.n) => Outputs(Put(e, v).all, Put(e, v).told.n)
          BY <4>1, <4>2, <1>10, PutClient
        <4>6. ASSUME Sorted(c) PROVE Sorted(Put(e, v))
          <5>1. c.told.n + Cardinality(LineBlocks(c.all)) <= c.lines /\ Outputs(c.all, c.told.n)
            BY <4>6, Zenon DEF Sorted
          <5>2. Put(e, v).told.n + Cardinality(LineBlocks(Put(e, v).all)) <= Put(e, v).lines
            BY <5>1, <4>1, <4>5, <2>2, <1>1, <1>2, <1>10, <1>11, <1>17
          <5> QED
            BY <5>1, <5>2, <4>5, <1>10, Zenon DEF Sorted
        <4>7. x = Put(e, v)
          BY <3>2 DEF v
        <4> QED
          BY <4>4, <4>5, <4>6, <4>7
      <3> QED
        BY <3>1, <3>2
    <2> HIDE DEF x
    <2>5. /\ d \in Clients /\ Follows(x, d) /\ d.exit /\ d.discard
          /\ Sorted(x) => \A b \in BOOLEAN : Orderly(d, b)
      BY <2>1, <2>4, BehindClient
    <2>6. Follows(e, d)
      BY <2>4, <2>5, <1>10, FollowsOn
    <2>7. Follows(c, d)
      BY <2>5, <2>6, <1>10, <1>12, FollowsOn
    <2> QED
      BY <2>4, <2>5, <2>7, <1>14, Zenon DEF d
  <1>18. m <= r \/ m > r
    <2>1. r \in Nat
      BY RoomIs DEF r
    <2> QED
      BY <2>1, <1>1
  <1> QED
    BY <1>2, <1>15, <1>16, <1>17, <1>18

(***************************************************************************)
(* What the steps of the program do with a client.                         *)
(***************************************************************************)

\* A client that has exited, or is gone, has an empty queue; one that has, that
\* is too far behind or whose timer runs, exits; and its lines are in order.
Sound(c) ==
  /\ c.exited => c.exit /\ c.all = <<>>
  /\ c.lost => c.all = <<>>
  /\ c.discard \/ c.timer => c.exit
  /\ Orderly(c, FALSE)

\* The client goes on.
Goes(c, d) == d \in Clients /\ Sound(d) /\ Follows(c, d)

LEMMA GoesOn ==
  ASSUME NEW c \in Clients, NEW d, NEW e, Goes(c, d), Goes(d, e)
  PROVE  Goes(c, e)
BY FollowsOn DEF Goes

\* control_discard_pane and control_flush_all_blocks.
LEMMA DiscardGoes ==
  ASSUME NEW c \in Clients, Sound(c), NEW ps \in SUBSET Panes
  PROVE  /\ Goes(c, Discard(c, ps)) /\ \A p \in ps : Blocks(Discard(c, ps).all, p) = {}
         /\ Discard(c, ps).exit = c.exit
PROOF
  <1> DEFINE d == Discard(c, ps)
  <1>1. /\ d \in Clients /\ Follows(c, d) /\ d = [c EXCEPT !.all = d.all]
        /\ \A p \in ps : Blocks(d.all, p) = {}
        /\ \A open \in BOOLEAN : Orderly(c, open) => Orderly(d, open)
        /\ c.all = <<>> => d.all = <<>>
    BY DiscardClient
  <1> HIDE DEF d
  <1>2. /\ d.exited = c.exited /\ d.exit = c.exit /\ d.lost = c.lost
        /\ d.timer = c.timer /\ d.discard = c.discard
    BY <1>1 DEF Clients
  <1>3. Sound(d)
    BY <1>1, <1>2, Zenon DEF Sound
  <1> QED
    BY <1>1, <1>2, <1>3 DEF Goes, d

LEMMA FlushGoes ==
  ASSUME NEW c \in Clients, Sound(c)
  PROVE  Goes(c, Flush(c)) /\ Waits(Flush(c)) = Waits(c)
PROOF
  <1> DEFINE d == Flush(c)
  <1>1. /\ d \in Clients /\ Follows(c, d) /\ Waits(d) = Waits(c)
        /\ d = [c EXCEPT !.all = d.all, !.told = d.told, !.evb = d.evb]
        /\ Orderly(c, FALSE) => Orderly(d, FALSE)
        /\ c.all = <<>> => d.all = <<>>
    BY FlushClient
  <1> HIDE DEF d
  <1>2. /\ d.exited = c.exited /\ d.exit = c.exit /\ d.lost = c.lost
        /\ d.timer = c.timer /\ d.discard = c.discard
    BY <1>1 DEF Clients
  <1>3. Sound(d)
    BY <1>1, <1>2, Zenon DEF Sound
  <1> QED
    BY <1>1, <1>3 DEF Goes, d

\* The lines that are written.
LEMMA LinesFit ==
  /\ Fits(<<"begin">>, FALSE, TRUE) /\ Fits(<<"pause">>, FALSE, FALSE)
  /\ Fits(<<"end">> \o <<>>, TRUE, FALSE)
  /\ Fits(<<"end">> \o <<"pause">>, TRUE, FALSE)
  /\ Fits(<<"end">> \o <<"continue">>, TRUE, FALSE)
PROOF
  <1>1. /\ Len(<<"begin">>) = 1 /\ Len(<<"pause">>) = 1 /\ Len(<<"end">> \o <<>>) = 1
        /\ Len(<<"end">> \o <<"pause">>) = 2 /\ Len(<<"end">> \o <<"continue">>) = 2
    OBVIOUS
  <1> QED
    BY <1>1 DEF Fits, Kinds

LEMMA WriteGoes ==
  ASSUME NEW c \in Clients, Sound(c), ~c.exited, ~c.lost, NEW kinds, Fits(kinds, FALSE, FALSE)
  PROVE  Goes(c, WriteLines(c, kinds))
PROOF
  <1> DEFINE d == WriteLines(c, kinds)
  <1>1. /\ d \in Clients /\ Follows(c, d)
        /\ Orderly(c, FALSE) => Orderly(d, FALSE)
        /\ (c.discard => c.exit) => (d.discard => d.exit)
    BY WriteLinesClient
  <1> HIDE DEF d
  <1>2. d.exited = c.exited /\ d.lost = c.lost /\ d.timer = c.timer /\ (c.exit => d.exit)
    BY <1>1 DEF Follows
  <1>3. Sound(d)
    BY <1>1, <1>2, Zenon DEF Sound
  <1> QED
    BY <1>1, <1>3 DEF Goes, d

\* A command between its guards: its block is closed before anything else is
\* written.
LEMMA ReplyGoes ==
  ASSUME NEW c \in Clients, Sound(c), ~c.exit, ~c.lost, NEW ps \in SUBSET Panes,
         NEW notes, Fits(<<"end">> \o notes, TRUE, FALSE)
  PROVE  Goes(c, Reply(c, ps, notes)) /\ \A p \in ps : Blocks(Reply(c, ps, notes).all, p) = {}
PROOF
  <1> DEFINE a == WriteLines(c, <<"begin">>)
             b == Discard(a, ps)
             d == WriteLines(b, <<"end">> \o notes)
  <1>1. Reply(c, ps, notes) = d
    BY DEF Reply
  <1>2. ~c.exited
    BY DEF Sound
  <1>3. /\ a \in Clients /\ Follows(c, a) /\ (Orderly(c, FALSE) => Orderly(a, TRUE))
        /\ (c.discard => c.exit) => (a.discard => a.exit)
    BY <1>2, LinesFit, WriteLinesClient
  <1> HIDE DEF a
  <1>4. /\ b \in Clients /\ Follows(a, b) /\ b = [a EXCEPT !.all = b.all]
        /\ \A p \in ps : Blocks(b.all, p) = {}
        /\ Orderly(a, TRUE) => Orderly(b, TRUE)
    BY <1>3, DiscardClient
  <1> HIDE DEF b
  <1>5. b.exit = a.exit /\ b.discard = a.discard
    BY <1>3, <1>4 DEF Clients
  <1>6. a.exited = c.exited /\ b.exited = a.exited
    BY <1>3, <1>4 DEF Follows
  <1>7. /\ d \in Clients /\ Follows(b, d) /\ (Orderly(b, TRUE) => Orderly(d, FALSE))
        /\ (b.discard => b.exit) => (d.discard => d.exit)
    BY <1>2, <1>4, <1>6, WriteLinesClient
  <1> HIDE DEF d
  <1>8. Follows(a, d)
    BY <1>3, <1>4, <1>7, FollowsOn
  <1>9. Follows(c, d)
    BY <1>3, <1>7, <1>8, FollowsOn
  <1>10. d.exited = c.exited /\ d.lost = c.lost /\ d.timer = c.timer
    BY <1>9 DEF Follows
  <1>11. Sound(d)
    BY <1>2, <1>3, <1>4, <1>5, <1>7, <1>10, Zenon DEF Sound
  <1>12. \A p \in ps : Blocks(d.all, p) = {}
    BY <1>4, <1>7 DEF Follows
  <1> QED
    BY <1>1, <1>7, <1>9, <1>11, <1>12 DEF Goes

\* The client is to exit.
LEMMA ExitGoes ==
  ASSUME NEW c \in Clients, Sound(c)
  PROVE  Goes(c, [c EXCEPT !.exit = TRUE])
PROOF
  <1> DEFINE d == [c EXCEPT !.exit = TRUE]
  <1>1. /\ d \in Clients /\ d.exit /\ d.all = c.all /\ d.told = c.told /\ d.evb = c.evb
        /\ d.lines = c.lines /\ d.writing = c.writing /\ d.discard = c.discard
        /\ d.timer = c.timer /\ d.exited = c.exited /\ d.lost = c.lost
    BY DEF Clients
  <1>2. Follows(c, c)
    BY FollowsItself
  <1> HIDE DEF d
  <1>3. Waits(d) = Waits(c)
    BY <1>1 DEF Waits
  <1>4. Follows(c, d)
    BY <1>1, <1>2, <1>3, Zenon DEF Follows
  <1>5. Sound(d)
    BY <1>1, Zenon DEF Sound, Orderly, Sorted
  <1> QED
    BY <1>1, <1>4, <1>5 DEF Goes, d

\* The client takes some of what was written to it.
LEMMA ReadGoes ==
  ASSUME NEW c \in Clients, Sound(c), NEW n \in Nat, n <= c.evb
  PROVE  Goes(c, [c EXCEPT !.evb = c.evb - n])
PROOF
  <1> DEFINE d == [c EXCEPT !.evb = c.evb - n]
  <1>1. /\ c.evb - n \in Nat /\ c.evb - n <= c.evb
    BY DEF Clients
  <1>2. /\ d \in Clients /\ d.exit = c.exit /\ d.all = c.all /\ d.told = c.told
        /\ d.evb = c.evb - n /\ d.lines = c.lines /\ d.writing = c.writing
        /\ d.discard = c.discard /\ d.timer = c.timer /\ d.exited = c.exited /\ d.lost = c.lost
    BY <1>1 DEF Clients
  <1>3. Follows(c, c)
    BY FollowsItself
  <1> HIDE DEF d
  <1>4. /\ c.evb \in Nat /\ Cardinality(LineBlocks(c.all)) \in Nat /\ MaxReplies - 1 \in Int
        /\ Waits(c) \in Nat
    BY WaitsIs, ControlAssumption DEF ControlAssumption
  <1>5. Waits(d) <= Waits(c) /\ Waits(d) \in Int
    BY <1>1, <1>2, <1>4 DEF Waits
  <1>6. Waits(d) <= Larger(Waits(c), MaxReplies - 1)
    BY <1>4, <1>5 DEF Larger
  <1>7. Follows(c, d)
    BY <1>2, <1>3, <1>6, Zenon DEF Follows
  <1>8. Sound(d)
    BY <1>2, Zenon DEF Sound, Orderly, Sorted
  <1> QED
    BY <1>2, <1>7, <1>8 DEF Goes, d

\* control_write_output: a block is added.
Added(c, p, n) ==
  [c EXCEPT !.writing = TRUE, !.all = Append(@, [what |-> p, size |-> n, no |-> c.lines])]

LEMMA BlockAdded ==
  ASSUME NEW c \in Clients, Sound(c), ~c.exited, ~c.lost, NEW p \in Panes, NEW n \in Nat,
         NEW d, d = Added(c, p, n)
  PROVE  /\ d \in Clients /\ Sound(d) /\ d.writing /\ d.evb = c.evb
         /\ d.exited = c.exited /\ d.lost = c.lost
         /\ LineBlocks(d.all) = LineBlocks(c.all)
         /\ \A q \in Panes : q # p => Blocks(d.all, q) = Blocks(c.all, q)
                                      /\ Size(d.all, q) = Size(c.all, q)
         /\ Size(d.all, p) = Size(c.all, p) + n
PROOF
  <1> DEFINE b == [what |-> p, size |-> n, no |-> c.lines]
             t == Append(c.all, b)
  <1>1. c.all \in Seq(Entry) /\ c.told.n \in Nat /\ c.lines \in Nat
    BY DEF Clients, ToldOf
  <1>2. b \in Entry /\ b.what = p /\ b.size = n /\ b.no = c.lines
    BY <1>1 DEF Entry
  <1>3. c.told.n + Cardinality(LineBlocks(c.all)) <= c.lines /\ Outputs(c.all, c.told.n)
    BY Zenon DEF Sound, Orderly, Sorted
  <1> HIDE DEF b
  <1>4. b.what \in Panes /\ c.told.n + Cardinality(LineBlocks(c.all)) <= b.no
    BY <1>2, <1>3
  <1>5. /\ t \in Seq(Entry) /\ LineBlocks(t) = LineBlocks(c.all)
        /\ \A q \in Panes : q # b.what => Blocks(t, q) = Blocks(c.all, q) /\ Size(t, q) = Size(c.all, q)
        /\ Size(t, b.what) = Size(c.all, b.what) + b.size
        /\ Outputs(c.all, c.told.n) => Outputs(t, c.told.n)
        /\ Counted(c.all, c.told.n) => Counted(t, c.told.n)
        /\ Paired(c.all, FALSE) => Paired(t, FALSE)
    BY <1>1, <1>2, <1>4, AddOutput
  <1> HIDE DEF t
  <1>5a. d = [c EXCEPT !.writing = TRUE, !.all = t]
    BY DEF t, b, Added
  <1>6. /\ d \in Clients /\ d.exit = c.exit /\ d.all = t /\ d.told = c.told
        /\ d.evb = c.evb /\ d.lines = c.lines /\ d.writing
        /\ d.discard = c.discard /\ d.timer = c.timer /\ d.exited = c.exited /\ d.lost = c.lost
    BY ONLY <1>5, <1>5a, c \in Clients DEF Clients
  <1>7. Cardinality(LineBlocks(t)) = Cardinality(LineBlocks(c.all))
    BY <1>5
  <1>8. Sorted(d)
    BY <1>3, <1>5, <1>6, <1>7, Zenon DEF Sorted
  <1>9. ~c.discard => /\ d.told.ok /\ ~d.told.open
                      /\ Counted(d.all, d.told.n) /\ Paired(d.all, FALSE)
                      /\ d.lines = d.told.n + Cardinality(LineBlocks(d.all))
    BY <1>5, <1>6, <1>7, Zenon DEF Sound, Orderly
  <1>10. Sound(d)
    BY <1>6, <1>8, <1>9, Zenon DEF Sound, Orderly
  <1> QED
    BY <1>2, <1>5, <1>6, <1>10 DEF t, b

\* server_client_check_exit.
LEMMA CheckExitClient ==
  ASSUME NEW c \in Clients, Sound(c)
  PROVE  LET d == CheckExit(c)
         IN  /\ d \in Clients /\ Sound(d) /\ d.lost = c.lost /\ d.writing = c.writing
             /\ (c.exited => d.exited) /\ Waits(d) = Waits(c)
             /\ Cardinality(LineBlocks(d.all)) <= Larger(Cardinality(LineBlocks(c.all)), MaxReplies - 1)
             /\ \A p \in Panes : /\ Blocks(c.all, p) = {} => Blocks(d.all, p) = {}
                                 /\ Size(d.all, p) <= Size(c.all, p)
PROOF
  <1> DEFINE d == CheckExit(c)
             x == Discard(c, Panes)
             ex == x.all = <<>> /\ x.evb = 0
  <1>1. CASE ~c.exit \/ c.exited \/ c.lost
    <2>1. d = c
      BY <1>1 DEF CheckExit
    <2>2. Follows(c, c)
      BY FollowsItself
    <2> QED
      BY <2>1, <2>2, Zenon DEF Follows
  <1>2. CASE ~(~c.exit \/ c.exited \/ c.lost)
    <2>1. d = [x EXCEPT !.exited = ex, !.timer = TRUE]
      BY <1>2 DEF CheckExit
    <2>2. /\ x \in Clients /\ Follows(c, x) /\ Waits(x) = Waits(c)
          /\ x = [c EXCEPT !.all = x.all] /\ (Orderly(c, FALSE) => Orderly(x, FALSE))
      BY DiscardClient
    <2> HIDE DEF x
    <2>3. ex \in BOOLEAN /\ (ex => x.all = <<>>)
      OBVIOUS
    <2> HIDE DEF ex
    <2>4. /\ d \in Clients /\ d.exit = x.exit /\ d.all = x.all /\ d.told = x.told
          /\ d.evb = x.evb /\ d.lines = x.lines /\ d.writing = x.writing
          /\ d.discard = x.discard /\ d.timer /\ d.exited = ex /\ d.lost = x.lost
      BY <2>1, <2>2, <2>3 DEF Clients
    <2>5. x.exit = c.exit /\ x.writing = c.writing /\ x.discard = c.discard /\ x.exited = c.exited
      BY <2>2 DEF Clients
    <2> HIDE DEF d
    <2>6. Orderly(x, FALSE)
      BY <2>2 DEF Sound
    <2>7. Orderly(d, FALSE)
      BY <1>2, <2>4, <2>5, <2>6, Zenon DEF Orderly, Sorted
    <2>8. x.lost = c.lost
      BY <2>2 DEF Follows
    <2>9. Sound(d)
      BY <1>2, <2>3, <2>4, <2>5, <2>7, <2>8, Zenon DEF Sound
    <2>10. Waits(d) = Waits(x)
      BY <2>4 DEF Waits
    <2>11. /\ Cardinality(LineBlocks(d.all)) <= Larger(Cardinality(LineBlocks(c.all)), MaxReplies - 1)
           /\ \A p \in Panes : /\ Blocks(c.all, p) = {} => Blocks(d.all, p) = {}
                               /\ Size(d.all, p) <= Size(c.all, p)
      BY <2>2, <2>4, Zenon DEF Follows
    <2> QED
      BY <1>2, <2>2, <2>4, <2>5, <2>8, <2>9, <2>10, <2>11 DEF d
  <1> QED
    BY <1>1, <1>2

\* server_client_exit_timer gives up what waits.
LEMMA GiveUp ==
  ASSUME NEW c \in Clients, Sound(c), c.exit
  PROVE  LET d == [c EXCEPT !.all = <<>>, !.writing = FALSE, !.exited = TRUE]
         IN  /\ d \in Clients /\ Sound(d) /\ d.exited /\ d.all = <<>> /\ d.lost = c.lost
             /\ d.evb = c.evb
PROOF
  <1> DEFINE d == [c EXCEPT !.all = <<>>, !.writing = FALSE, !.exited = TRUE]
  <1>1. /\ c.told.n \in Nat /\ c.lines \in Nat /\ Cardinality(LineBlocks(c.all)) \in Nat
    BY WaitsIs DEF Clients, ToldOf
  <1>2. /\ d \in Clients /\ d.exit = c.exit /\ d.all = <<>> /\ d.told = c.told
        /\ d.evb = c.evb /\ d.lines = c.lines /\ ~d.writing
        /\ d.discard = c.discard /\ d.timer = c.timer /\ d.exited /\ d.lost = c.lost
    BY EmptyQueue DEF Clients
  <1> HIDE DEF d
  <1>3. Sorted(d)
    <2>1. c.told.n + Cardinality(LineBlocks(c.all)) <= c.lines
      BY Zenon DEF Sound, Orderly, Sorted
    <2>2. c.told.n + 0 <= c.lines
      BY <2>1, <1>1
    <2> QED
      BY <1>2, <2>2, EmptyQueue DEF Sorted
  <1>4. ~c.discard => c.told.ok /\ ~c.told.open
    BY Zenon DEF Sound, Orderly
  <1>5. Orderly(d, FALSE)
    BY <1>2, <1>3, <1>4, EmptyQueue DEF Orderly
  <1>6. Sound(d)
    BY <1>2, <1>5, Zenon DEF Sound
  <1> QED
    BY <1>2, <1>6 DEF d

\* A new client, and one that is gone.
LEMMA NewIsSound ==
  ASSUME NEW d, d = NewClient \/ d = [NewClient EXCEPT !.lost = TRUE]
  PROVE  /\ d \in Clients /\ Sound(d) /\ d.all = <<>> /\ d.evb = 0 /\ Waits(d) = 0 /\ ~d.exited
PROOF
  <1>1. /\ d.exit = FALSE /\ d.all = <<>> /\ d.told = [n |-> 0, open |-> FALSE, ok |-> TRUE]
        /\ d.evb = 0 /\ d.lines = 0 /\ d.writing = FALSE /\ d.discard = FALSE /\ d.timer = FALSE
        /\ d.exited = FALSE
    <2>1. CASE d = NewClient
      BY <2>1 DEF NewClient
    <2>2. CASE d = [NewClient EXCEPT !.lost = TRUE]
      BY <2>2 DEF NewClient
    <2> QED
      BY <2>1, <2>2
  <1>2. d \in Clients
    <2>1. NewClient \in Clients
      BY EmptyQueue DEF Clients, ToldOf, NewClient
    <2>2. TRUE \in BOOLEAN
      OBVIOUS
    <2>3. [NewClient EXCEPT !.lost = TRUE] \in Clients
      BY ONLY <2>1, <2>2 DEF Clients
    <2> QED
      BY <2>1, <2>3
  <1>3. d.told.n = 0 /\ d.told.ok /\ ~d.told.open
    BY <1>1
  <1>4. Cardinality(LineBlocks(d.all)) = 0 /\ Waits(d) = 0
    BY <1>1, EmptyQueue DEF Waits
  <1>5. Sorted(d)
    BY <1>1, <1>3, <1>4, EmptyQueue DEF Sorted
  <1>6. Orderly(d, FALSE)
    <2>1. Counted(d.all, d.told.n) /\ Paired(d.all, FALSE)
      BY <1>1, EmptyQueue
    <2>2. d.lines = d.told.n + Cardinality(LineBlocks(d.all))
      BY <1>1, <1>3, <1>4
    <2> QED
      BY <2>1, <2>2, <1>3, <1>5, Zenon DEF Orderly
  <1>7. Sound(d)
    BY <1>1, <1>6 DEF Sound
  <1> QED
    BY <1>1, <1>2, <1>4, <1>7

\* control_write_pending writes the first block of a pane, or a part of it.
Shortened(c, p, i, n, t, d) ==
  LET rest == c.all[i].size - n
  IN  /\ i = Nth(Blocks(c.all, p), 1) /\ n <= c.all[i].size
      /\ t = IF rest = 0 THEN Only(c.all, DOMAIN c.all \ {i})
             ELSE [c.all EXCEPT ![i].size = rest]
      /\ d = [c EXCEPT !.all = t]

Lessened(c, p, n, d) ==
  /\ d \in Clients /\ Sound(d) /\ Waits(d) = Waits(c) /\ d.evb = c.evb
  /\ d.writing = c.writing /\ d.exited = c.exited /\ d.lost = c.lost
  /\ Cardinality(LineBlocks(d.all)) = Cardinality(LineBlocks(c.all))
  /\ \A q \in Panes : q # p => Size(d.all, q) = Size(c.all, q)
  /\ \A q \in Panes : Blocks(c.all, q) = {} => Blocks(d.all, q) = {}
  /\ Size(d.all, p) = Size(c.all, p) - n

LEMMA BlockSent ==
  ASSUME NEW c \in Clients, Sound(c), NEW p \in Panes, Blocks(c.all, p) # {},
         NEW n \in Nat, NEW i, NEW t, NEW d, Shortened(c, p, i, n, t, d)
  PROVE  Lessened(c, p, n, d)
PROOF
  <1> DEFINE s == c.all
             rest == s[i].size - n
             o == Only(s, DOMAIN s \ {i})
             h == [s EXCEPT ![i].size = rest]
  <1>0. /\ i = Nth(Blocks(s, p), 1) /\ n <= s[i].size
        /\ t = IF rest = 0 THEN o ELSE h
        /\ d = [c EXCEPT !.all = t]
    BY DEF Shortened
  <1>1. /\ s \in Seq(Entry) /\ c.told.n \in Nat /\ c.lines \in Nat
        /\ Cardinality(LineBlocks(s)) \in Nat
    BY WaitsIs DEF Clients, ToldOf
  <1>2. i \in Blocks(s, p) /\ s[i].size \in Nat
    <2>1. /\ Len(s) \in Nat /\ Blocks(s, p) \in SUBSET (1..Len(s))
          /\ \A k \in Blocks(s, p) : s[k].size \in Nat
      BY <1>1, Queue, QueueOf
    <2>2. Nth(Blocks(s, p), 1) \in Blocks(s, p)
      BY <2>1, FirstPlace
    <2> QED
      BY <1>0, <2>1, <2>2
  <1>3. rest \in Nat
    BY <1>0, <1>2
  <1>4. Sent(s, t, p, n)
    <2>1. CASE rest = 0
      <3>1. t = o /\ n = s[i].size
        BY <2>1, <1>0, <1>2
      <3> HIDE DEF s
      <3>2. Sent(s, o, p, s[i].size)
        BY ONLY <1>1, <1>2, p \in Panes, SendBlock DEF o
      <3> HIDE DEF o
      <3> QED
        BY <3>1, <3>2
    <2>2. CASE rest # 0
      <3>1. t = h /\ s[i].size - rest = n
        BY <2>2, <1>0, <1>2
      <3> HIDE DEF s, rest
      <3>2. Sent(s, h, p, s[i].size - rest)
        BY ONLY <1>1, <1>2, <1>3, p \in Panes, Shorten DEF h
      <3> HIDE DEF h
      <3> QED
        BY <3>1, <3>2
    <2> QED
      BY <2>1, <2>2
  <1>5. /\ d \in Clients /\ d.exit = c.exit /\ d.all = t /\ d.told = c.told
        /\ d.evb = c.evb /\ d.lines = c.lines /\ d.writing = c.writing
        /\ d.discard = c.discard /\ d.timer = c.timer /\ d.exited = c.exited /\ d.lost = c.lost
    BY <1>0, <1>4 DEF Clients, Sent
  <1>6. Waits(d) = Waits(c)
    BY <1>4, <1>5 DEF Waits, Sent
  <1>7. Sorted(d)
    BY <1>1, <1>4, <1>5, Zenon DEF Sound, Orderly, Sorted, Sent
  <1>8. ~c.discard => /\ d.told.ok /\ ~d.told.open
                      /\ Counted(d.all, d.told.n) /\ Paired(d.all, FALSE)
                      /\ ~d.exited => d.lines = d.told.n + Cardinality(LineBlocks(d.all))
    BY <1>1, <1>4, <1>5, Zenon DEF Sound, Orderly, Sent
  <1>9. Sound(d)
    BY <1>4, <1>5, <1>7, <1>8, Zenon DEF Sound, Orderly, Sent
  <1> QED
    BY <1>4, <1>5, <1>6, <1>9 DEF Sent, Lessened

\* What was made of the blocks of a pane is written to the client's buffer.
LEMMA MoreGoes ==
  ASSUME NEW c \in Clients, Sound(c), NEW n \in Nat
  PROVE  LET d == [c EXCEPT !.evb = c.evb + n]
         IN  /\ d \in Clients /\ Sound(d) /\ Waits(d) = Waits(c) + n /\ d.all = c.all
             /\ d.writing = c.writing /\ d.exited = c.exited /\ d.lost = c.lost
PROOF
  <1> DEFINE d == [c EXCEPT !.evb = c.evb + n]
  <1>1. c.evb \in Nat /\ Cardinality(LineBlocks(c.all)) \in Nat /\ c.evb + n \in Nat
    BY WaitsIs
  <1>2. /\ d \in Clients /\ d.exit = c.exit /\ d.all = c.all /\ d.told = c.told
        /\ d.evb = c.evb + n /\ d.lines = c.lines /\ d.writing = c.writing
        /\ d.discard = c.discard /\ d.timer = c.timer /\ d.exited = c.exited /\ d.lost = c.lost
    BY <1>1 DEF Clients
  <1> HIDE DEF d
  <1>3. Waits(d) = Waits(c) + n
    BY <1>1, <1>2 DEF Waits
  <1>4. Sound(d)
    BY <1>2, Zenon DEF Sound, Orderly, Sorted
  <1> QED
    BY <1>2, <1>3, <1>4 DEF d

-----------------------------------------------------------------------------
(***************************************************************************)
(* The panes that have something to send.                                  *)
(***************************************************************************)

\* Output in the queue has its pane in the list, once, and the descriptor is
\* watched.
Watched(list, c) ==
  /\ \A i, k \in DOMAIN list : i # k => list[i] # list[k]
  /\ \A p \in Panes : Blocks(c.all, p) # {} => p \in Range(list)
  /\ list # <<>> /\ ~c.lost /\ ~c.exited => c.writing

LEMMA WatchedGoes ==
  ASSUME NEW list, NEW c, NEW d, Watched(list, c), Follows(c, d)
  PROVE  Watched(list, d)
PROOF
  <1>1. /\ d.exited = c.exited /\ d.lost = c.lost /\ (c.writing => d.writing)
        /\ \A p \in Panes : Blocks(c.all, p) = {} => Blocks(d.all, p) = {}
    BY Zenon DEF Follows
  <1> QED
    BY <1>1, Zenon DEF Watched

\* The list without a pane.
LEMMA ListWithout ==
  ASSUME NEW list \in Seq(Panes), NEW p \in Panes,
         \A i, k \in DOMAIN list : i # k => list[i] # list[k]
  PROVE  LET w == Only(list, {i \in DOMAIN list : list[i] # p})
         IN  /\ w \in Seq(Panes)
             /\ \A i, k \in DOMAIN w : i # k => w[i] # w[k]
             /\ \A q \in Range(list) : q # p => q \in Range(w)
             /\ list = <<>> => w = <<>>
PROOF
  <1> DEFINE S == {i \in DOMAIN list : list[i] # p}
             w == Only(list, S)
             m == Cardinality(S)
  <1>1. Len(list) \in Nat /\ DOMAIN list = 1..Len(list)
    BY LenProperties
  <1>2. S \in SUBSET DOMAIN list /\ S \in SUBSET (1..Len(list))
    BY <1>1
  <1>3. /\ w \in Seq(Panes) /\ Len(w) = m /\ DOMAIN w = 1..m /\ m \in Nat
        /\ \A k \in 1..m : Nth(S, k) \in S /\ w[k] = list[Nth(S, k)]
    BY <1>2, OnlyPlaces
  <1>4. \A i \in DOMAIN list : list[i] # p => i \in S
    OBVIOUS
  <1> HIDE DEF S, w, m
  <1>5. ASSUME NEW i \in 1..m, NEW k \in 1..m, i # k PROVE w[i] # w[k]
    <2>1. Rank(S, Nth(S, i)) = i /\ Rank(S, Nth(S, k)) = k
      BY <1>2, <1>1, RankFills DEF m
    <2>2. Nth(S, i) # Nth(S, k)
      BY <2>1, <1>5
    <2>3. Nth(S, i) \in DOMAIN list /\ Nth(S, k) \in DOMAIN list
      BY <1>2, <1>3
    <2>4. list[Nth(S, i)] # list[Nth(S, k)]
      BY <2>2, <2>3
    <2> QED
      BY <2>4, <1>3
  <1>6. ASSUME NEW q \in Range(list), q # p PROVE q \in Range(w)
    <2>1. PICK i \in DOMAIN list : list[i] = q
      BY DEF Range
    <2>2. i \in S
      BY <1>4, <1>6, <2>1
    <2>3. Rank(S, i) \in 1..m
      BY <1>1, <1>2, <2>2, RankGrows DEF m
    <2>4. Nth(S, Rank(S, i)) = i
      BY <1>1, <1>2, <2>2, <2>3, RankFills DEF m
    <2>5. w[Rank(S, i)] = q
      BY <1>3, <2>1, <2>3, <2>4
    <2> QED
      BY <1>3, <2>3, <2>5 DEF Range
  <1>7. list = <<>> => w = <<>>
    <2> SUFFICES ASSUME list = <<>> PROVE w = <<>>
      OBVIOUS
    <2>1. S = {}
      BY <1>2
    <2>2. m = 0
      BY <2>1, FS_EmptySet DEF m
    <2> QED
      BY <2>2, <1>3, EmptySeq
  <1>8. \A i, k \in DOMAIN w : i # k => w[i] # w[k]
    BY <1>3, <1>5
  <1> QED
    BY <1>3, <1>6, <1>7, <1>8 DEF w, S

LEMMA WatchedWithout ==
  ASSUME NEW list \in Seq(Panes), NEW p \in Panes, NEW c, NEW d, Watched(list, c),
         d.exited = c.exited, d.lost = c.lost, c.writing => d.writing,
         \A q \in Panes : Blocks(c.all, q) = {} => Blocks(d.all, q) = {},
         Blocks(d.all, p) = {}
  PROVE  LET w == Only(list, {i \in DOMAIN list : list[i] # p})
         IN  w \in Seq(Panes) /\ Watched(w, d)
PROOF
  <1> DEFINE w == Only(list, {i \in DOMAIN list : list[i] # p})
  <1>1. \A i, k \in DOMAIN list : i # k => list[i] # list[k]
    BY Zenon DEF Watched
  <1>2. /\ w \in Seq(Panes)
        /\ \A i, k \in DOMAIN w : i # k => w[i] # w[k]
        /\ \A q \in Range(list) : q # p => q \in Range(w)
        /\ list = <<>> => w = <<>>
    BY <1>1, ListWithout
  <1> HIDE DEF w
  <1>3. /\ \A q \in Panes : Blocks(c.all, q) # {} => q \in Range(list)
        /\ list # <<>> /\ ~c.lost /\ ~c.exited => c.writing
    BY Zenon DEF Watched
  <1>4. \A q \in Panes : Blocks(d.all, q) # {} => q \in Range(w)
    BY <1>2, <1>3
  <1>5. Watched(w, d)
    BY <1>2, <1>3, <1>4, Zenon DEF Watched
  <1> QED
    BY <1>2, <1>5 DEF w

\* A block is added, and its pane to the list.
LEMMA WatchedMore ==
  ASSUME NEW list \in Seq(Panes), NEW p \in Panes, NEW c, NEW d, Watched(list, c), d.writing,
         \A q \in Panes : q # p => Blocks(d.all, q) = Blocks(c.all, q),
         NEW w, w = IF p \in Range(list) THEN list ELSE Append(list, p)
  PROVE  w \in Seq(Panes) /\ Watched(w, d)
PROOF
  <1> DEFINE h == Len(list)
  <1>1. h \in Nat /\ DOMAIN list = 1..h
    BY LenProperties
  <1>2. /\ \A i, k \in DOMAIN list : i # k => list[i] # list[k]
        /\ \A q \in Panes : Blocks(c.all, q) # {} => q \in Range(list)
    BY Zenon DEF Watched
  <1> HIDE DEF h
  <1>3. CASE p \in Range(list)
    <2>1. w = list
      BY <1>3
    <2>2. \A q \in Panes : Blocks(d.all, q) # {} => q \in Range(list)
      BY <1>2, <1>3
    <2> QED
      BY <2>1, <2>2, <1>2 DEF Watched
  <1>4. CASE p \notin Range(list)
    <2> DEFINE a == Append(list, p)
    <2>1. w = a
      BY <1>4
    <2>2. /\ a \in Seq(Panes) /\ Len(a) = h + 1 /\ a[h + 1] = p
          /\ \A i \in 1..h : a[i] = list[i]
      BY AppendProperties DEF h
    <2> HIDE DEF a
    <2>3. DOMAIN a = 1..(h + 1)
      BY <2>2, LenProperties
    <2>4. \A i \in 1..h : list[i] # p
      BY <1>1, <1>4 DEF Range
    <2>5. \A i, k \in DOMAIN a : i # k => a[i] # a[k]
      <3>1. ASSUME NEW i \in 1..(h + 1), i \notin 1..h PROVE i = h + 1
        BY <3>1, <1>1
      <3> QED
        BY <2>2, <2>3, <2>4, <1>1, <1>2, <3>1
    <2>6. ASSUME NEW q \in Range(list) PROVE q \in Range(a)
      <3>1. PICK i \in 1..h : list[i] = q
        BY <1>1 DEF Range
      <3>2. i \in DOMAIN a /\ a[i] = q
        BY <2>2, <2>3, <3>1, <1>1
      <3> QED
        BY <3>2 DEF Range
    <2>7. p \in Range(a)
      BY <2>2, <2>3, <1>1 DEF Range
    <2>8. \A q \in Panes : Blocks(d.all, q) # {} => q \in Range(a)
      BY <1>2, <2>6, <2>7
    <2>9. Watched(a, d)
      BY <2>5, <2>8, Zenon DEF Watched
    <2> QED
      BY <2>1, <2>2, <2>9
  <1> QED
    BY <1>3, <1>4

-----------------------------------------------------------------------------
(***************************************************************************)
(* What waits for a client, and how much control_write_callback adds.      *)
(***************************************************************************)

\* A pass shares out what is free in the buffer; what was made of the blocks of
\* a pane and is not written yet counts as used.
Shared(c, b) ==
  /\ b.limit * Len(b.todo) <= High
  /\ Waits(c) + b.message + b.limit * Len(b.todo) <= (MaxReplies + High - 1) + b.used

\* There is less than CONTROL_WRITE_MINIMUM for each: a pane begins only while
\* there is room.
Least(c, b) ==
  /\ b.limit = Minimum
  /\ b.used > 0 => Waits(c) + b.message <= (MaxReplies + High - 2) + b.used

Callbacks == [on : BOOLEAN, todo : Seq(Panes), used : Nat, limit : Nat, message : Nat]

Limited(c, b) ==
  /\ Cardinality(LineBlocks(c.all)) <= MaxReplies - 1
  /\ Waits(c) <= (MaxReplies + High + Minimum) - 2
  /\ ~b.on => b = Idle
  /\ b.todo = <<>> => b.message = 0
  /\ b.message <= b.used
  /\ b.todo # <<>> => b.used <= b.limit /\ (Shared(c, b) \/ Least(c, b))

LEMMA Sizes ==
  /\ High \in Nat /\ High > 0 /\ Minimum \in Nat /\ Minimum > 0 /\ MaxReplies \in Nat
  /\ MaxReplies > 0
BY ControlAssumption DEF ControlAssumption

\* No more waits than before, or no more than the reply buffer takes, and no
\* pane has its turn.
LEMMA LimitedIdle ==
  ASSUME NEW c \in Clients, NEW d \in Clients, NEW b, NEW e, Limited(c, b),
         Cardinality(LineBlocks(d.all)) <= Larger(Cardinality(LineBlocks(c.all)), MaxReplies - 1),
         Waits(d) <= Larger(Waits(c), MaxReplies - 1),
         e.todo = <<>>, e.message = 0, e.used = 0, ~e.on => e = Idle
  PROVE  Limited(d, e)
PROOF
  <1>1. /\ Waits(c) \in Nat /\ Cardinality(LineBlocks(c.all)) \in Nat
        /\ Waits(d) \in Nat /\ Cardinality(LineBlocks(d.all)) \in Nat
    BY WaitsIs
  <1>2. /\ Cardinality(LineBlocks(c.all)) <= MaxReplies - 1
        /\ Waits(c) <= (MaxReplies + High + Minimum) - 2
    BY Zenon DEF Limited
  <1>3. /\ Larger(Cardinality(LineBlocks(c.all)), MaxReplies - 1) \in
             {Cardinality(LineBlocks(c.all)), MaxReplies - 1}
        /\ Larger(Waits(c), MaxReplies - 1) \in {Waits(c), MaxReplies - 1}
    BY DEF Larger
  <1>4. Cardinality(LineBlocks(d.all)) <= MaxReplies - 1
    BY <1>1, <1>2, <1>3, Sizes
  <1>5. Waits(d) <= (MaxReplies + High + Minimum) - 2
    BY <1>1, <1>2, <1>3, Sizes
  <1>6. e.message <= e.used
    OBVIOUS
  <1> QED
    BY <1>4, <1>5, <1>6, Zenon DEF Limited

LEMMA LimitedGoes ==
  ASSUME NEW c \in Clients, NEW d, NEW b, Limited(c, b), ~b.on, Goes(c, d)
  PROVE  Limited(d, b)
PROOF
  <1>1. b = Idle
    BY Zenon DEF Limited
  <1>2. b.todo = <<>> /\ b.message = 0 /\ b.used = 0
    BY <1>1 DEF Idle
  <1> QED
    BY <1>1, <1>2, LimitedIdle DEF Goes, Follows

LEMMA OneLess ==
  ASSUME NEW k \in Nat, NEW h \in Nat, h > 0
  PROVE  k * (h - 1) = k * h - k /\ k * h \in Nat /\ k * (h - 1) \in Nat
PROOF
  <1>1. h - 1 \in Nat
    OBVIOUS
  <1>2. ASSUME NEW i \in Nat PROVE k * i \in Nat
    OBVIOUS
  <1>3. k * (h - 1) = k * h - k
    OBVIOUS
  <1> QED
    BY <1>1, <1>2, <1>3

\* The turn of the next pane.
LEMMA LimitedNext ==
  ASSUME NEW c \in Clients, NEW d \in Clients, NEW b \in Callbacks, Limited(c, b),
         b.on, b.todo # <<>>,
         Cardinality(LineBlocks(d.all)) <= MaxReplies - 1,
         Waits(d) <= Larger(Waits(c) + b.message, MaxReplies - 1)
  PROVE  LET e == [b EXCEPT !.todo = Tail(b.todo), !.used = 0, !.message = 0]
         IN  e \in Callbacks /\ Limited(d, e)
PROOF
  <1> DEFINE e == [b EXCEPT !.todo = Tail(b.todo), !.used = 0, !.message = 0]
             h == Len(b.todo)
  <1>0. Cardinality(LineBlocks(d.all)) <= MaxReplies - 1
    OBVIOUS
  <1>1. b.used \in Nat /\ b.limit \in Nat /\ b.message \in Nat
    BY DEF Callbacks
  <1>1a. b.todo \in Seq(Panes)
    BY DEF Callbacks
  <1>2. Tail(b.todo) \in Seq(Panes) /\ Len(Tail(b.todo)) = h - 1 /\ h \in Nat /\ h > 0
    BY <1>1a, HeadTailProperties, EmptySeq
  <1>3. /\ e \in Callbacks /\ e.on /\ e.todo = Tail(b.todo) /\ e.used = 0 /\ e.message = 0
        /\ e.limit = b.limit
    BY <1>2 DEF Callbacks
  <1> HIDE DEF e, h
  <1>4. Waits(c) \in Nat /\ Waits(d) \in Nat
    BY WaitsIs
  <1>5. /\ Waits(c) <= (MaxReplies + High + Minimum) - 2 /\ b.used <= b.limit
        /\ b.message <= b.used /\ (Shared(c, b) \/ Least(c, b))
    BY Zenon DEF Limited
  <1>6. Waits(d) <= Waits(c) + b.message \/ Waits(d) <= MaxReplies - 1
    BY <1>1, <1>4, Sizes DEF Larger
  <1>7. ASSUME Shared(c, b) PROVE Limited(d, e)
    <2> DEFINE m == b.limit * h
    <2>1. /\ m <= High
          /\ Waits(c) + b.message + m <= (MaxReplies + High - 1) + b.used
      BY <1>7 DEF Shared, h
    <2>2. b.limit * (h - 1) = m - b.limit /\ m \in Nat /\ b.limit * (h - 1) \in Nat
      <3>1. b.limit \in Nat /\ h \in Nat /\ h > 0
        BY <1>1, <1>2
      <3> QED
        BY ONLY <3>1, OneLess DEF m
    <2> HIDE DEF m
    <2>3. Waits(d) <= (MaxReplies + High + Minimum) - 2
      BY ONLY <2>1, <2>2, <1>1, <1>4, <1>5, <1>6, Sizes
    <2>4. /\ b.limit * (h - 1) <= High
          /\ Waits(d) + 0 + b.limit * (h - 1) <= (MaxReplies + High - 1) + 0
      BY ONLY <2>1, <2>2, <1>1, <1>4, <1>5, <1>6, Sizes
    <2>5. Shared(d, e)
      BY <2>4, <1>2, <1>3 DEF Shared
    <2>6. e.used <= e.limit /\ e.message <= e.used
      BY <1>1, <1>3
    <2> QED
      BY ONLY <2>3, <2>5, <2>6, <1>0, <1>3 DEF Limited
  <1>8. ASSUME Least(c, b) PROVE Limited(d, e)
    <2>1. b.limit = Minimum /\ (b.used > 0 => Waits(c) + b.message <= (MaxReplies + High - 2) + b.used)
      BY <1>8 DEF Least
    <2>2. Waits(d) <= (MaxReplies + High + Minimum) - 2
      BY ONLY <2>1, <1>1, <1>4, <1>5, <1>6, Sizes
    <2>3. Least(d, e)
      BY <2>1, <1>3 DEF Least
    <2>4. e.used <= e.limit /\ e.message <= e.used
      BY <1>1, <1>3
    <2> QED
      BY ONLY <2>2, <2>3, <2>4, <1>0, <1>3 DEF Limited
  <1> QED
    BY <1>3, <1>5, <1>7, <1>8 DEF e

\* A pane has something to send: what it had is written to the buffer at once, or
\* with more.
LEMMA LimitedMore ==
  ASSUME NEW c \in Clients, NEW d \in Clients, NEW b \in Callbacks, Limited(c, b),
         b.on, b.todo # <<>>, NEW n \in Nat, n <= b.limit - b.used,
         b.used > 0 \/ c.evb < High, NEW all \in BOOLEAN,
         Cardinality(LineBlocks(d.all)) <= MaxReplies - 1,
         Waits(d) = Waits(c) + (IF all THEN b.message + n ELSE 0)
  PROVE  LET e == [b EXCEPT !.used = b.used + n, !.message = IF all THEN 0 ELSE b.message + n]
         IN  e \in Callbacks /\ Limited(d, e)
PROOF
  <1> DEFINE more == IF all THEN 0 ELSE b.message + n
             e == [b EXCEPT !.used = b.used + n, !.message = more]
             m == b.limit * Len(b.todo)
  <1>0. n \in Nat /\ n <= b.limit - b.used
    OBVIOUS
  <1>0a. Cardinality(LineBlocks(d.all)) <= MaxReplies - 1 /\ b.todo # <<>>
    OBVIOUS
  <1>1. b.used \in Nat /\ b.limit \in Nat /\ b.message \in Nat
    BY DEF Callbacks
  <1>1a. b.todo \in Seq(Panes)
    BY DEF Callbacks
  <1>2. more \in Nat /\ more <= b.message + n /\ b.used + n \in Nat
    BY <1>1
  <1>3. Waits(c) \in Nat /\ Waits(d) \in Nat /\ Waits(d) + more = Waits(c) + b.message + n
    <2>1. Waits(c) \in Nat /\ Waits(d) \in Nat
      BY WaitsIs
    <2> QED
      BY <2>1, <1>1
  <1> HIDE DEF more
  <1>4. /\ e \in Callbacks /\ e.on /\ e.todo = b.todo /\ e.used = b.used + n /\ e.message = more
        /\ e.limit = b.limit
    BY <1>2 DEF Callbacks
  <1> HIDE DEF e
  <1>5. /\ Waits(c) <= (MaxReplies + High + Minimum) - 2 /\ b.used <= b.limit
        /\ Cardinality(LineBlocks(c.all)) <= MaxReplies - 1
        /\ b.message <= b.used /\ (Shared(c, b) \/ Least(c, b))
    BY Zenon DEF Limited
  <1>6. e.used <= e.limit /\ e.message <= e.used
    BY <1>1, <1>2, <1>4, <1>5
  <1>7. ASSUME Shared(c, b) PROVE Limited(d, e)
    <2>1. m <= High /\ Waits(c) + b.message + m <= (MaxReplies + High - 1) + b.used
      BY <1>7 DEF Shared
    <2>2. Len(b.todo) \in Nat /\ Len(b.todo) > 0
      BY <1>1a, LenProperties, EmptySeq
    <2>3. m \in Nat /\ m >= b.limit
      BY <2>2, <1>1
    <2> HIDE DEF m
    <2>4. Waits(d) <= (MaxReplies + High + Minimum) - 2
      BY ONLY <2>1, <2>3, <1>0, <1>1, <1>2, <1>3, <1>5, Sizes
    <2>5. Waits(d) + more + m <= (MaxReplies + High - 1) + (b.used + n)
      BY ONLY <2>1, <2>3, <1>0, <1>1, <1>2, <1>3, <1>5, Sizes
    <2>6. Shared(d, e)
      BY <2>1, <2>5, <1>4 DEF Shared, m
    <2> QED
      BY ONLY <2>4, <2>6, <1>0a, <1>4, <1>6 DEF Limited
  <1>8. ASSUME Least(c, b) PROVE Limited(d, e)
    <2>1. b.limit = Minimum /\ (b.used > 0 => Waits(c) + b.message <= (MaxReplies + High - 2) + b.used)
      BY <1>8 DEF Least
    <2>2. /\ c.evb \in Nat /\ Cardinality(LineBlocks(c.all)) \in Nat
          /\ Waits(c) = c.evb + Cardinality(LineBlocks(c.all))
      BY WaitsIs DEF Waits
    <2>3. Waits(c) + b.message <= (MaxReplies + High - 2) + b.used
      BY <2>1, <2>2, <1>1, <1>5, Sizes
    <2>4. Waits(d) + more <= (MaxReplies + High - 2) + (b.used + n)
      BY ONLY <2>3, <1>0, <1>1, <1>2, <1>3, Sizes
    <2>5. Waits(d) <= (MaxReplies + High + Minimum) - 2
      BY ONLY <2>1, <2>4, <1>0, <1>1, <1>2, <1>3, Sizes
    <2>6. Least(d, e)
      BY <2>1, <2>4, <1>4 DEF Least
    <2> QED
      BY ONLY <2>5, <2>6, <1>0a, <1>4, <1>6 DEF Limited
  <1> QED
    BY <1>4, <1>5, <1>7, <1>8 DEF e, more

\* A pass begins.
LEMMA LimitedPass ==
  ASSUME NEW c \in Clients, NEW b \in Callbacks, Limited(c, b), b.on, b.todo = <<>>,
         NEW list \in Seq(Panes), list # <<>>, c.evb < High
  PROVE  LET e == [b EXCEPT !.todo = list, !.used = 0, !.message = 0,
                     !.limit = Larger(Minimum, (High - c.evb) \div Len(list))]
         IN  e \in Callbacks /\ Limited(c, e)
PROOF
  <1> DEFINE k == Len(list)
             free == High - c.evb
             share == free \div k
             limit == Larger(Minimum, share)
             e == [b EXCEPT !.todo = list, !.used = 0, !.message = 0, !.limit = limit]
  <1>1. k \in Nat /\ k > 0
    BY LenProperties, EmptySeq
  <1>2. /\ c.evb \in Nat /\ Cardinality(LineBlocks(c.all)) \in Nat
        /\ Waits(c) = c.evb + Cardinality(LineBlocks(c.all))
    BY WaitsIs DEF Waits
  <1>3. free \in Nat
    BY <1>2, Sizes
  <1> HIDE DEF free, k
  <1>4. share \in Nat /\ share * k <= free
    BY <1>1, <1>3
  <1> HIDE DEF share
  <1>5. limit \in Nat /\ limit \in {Minimum, share}
    BY <1>4, Sizes DEF Larger
  <1> HIDE DEF limit
  <1>6. /\ e \in Callbacks /\ e.on /\ e.todo = list /\ e.used = 0 /\ e.message = 0 /\ e.limit = limit
    BY <1>5 DEF Callbacks
  <1> HIDE DEF e
  <1>7. /\ Waits(c) <= (MaxReplies + High + Minimum) - 2
        /\ Cardinality(LineBlocks(c.all)) <= MaxReplies - 1
    BY Zenon DEF Limited
  <1>8. Shared(c, e) \/ Least(c, e)
    <2>1. CASE limit = share
      <3> DEFINE m == limit * k
      <3>1. m \in Nat /\ m <= free
        BY <2>1, <1>1, <1>4
      <3> HIDE DEF m
      <3>2. m <= High /\ Waits(c) + 0 + m <= (MaxReplies + High - 1) + 0
        BY <3>1, <1>2, <1>7, Sizes DEF free
      <3> QED
        BY <3>2, <1>6 DEF Shared, m, k
    <2>2. CASE limit = Minimum
      BY <2>2, <1>6 DEF Least
    <2> QED
      BY <2>1, <2>2, <1>5
  <1>9. e.used <= e.limit /\ e.message <= e.used
    BY <1>5, <1>6
  <1> QED
    BY <1>6, <1>7, <1>8, <1>9, Zenon DEF Limited, e, limit, share, free, k

-----------------------------------------------------------------------------
(***************************************************************************)
(* What is queued of a pane and what its buffer holds.                     *)
(***************************************************************************)
PaneRecord == [made : Nat, base : Nat, alive : BOOLEAN, linked : BOOLEAN, reading : BOOLEAN]
CpRecord == [known : BOOLEAN, offset : Nat, queued : Nat, off : BOOLEAN, paused : BOOLEAN,
             skipped : BOOLEAN]
FlagsRecord == [noOutput : BOOLEAN, suspended : BOOLEAN, pauseAfter : BOOLEAN]

\* No more was queued, or drained, than a pane wrote.
Marks(pn, k) == \A p \in Panes : k[p].queued <= pn[p].made /\ pn[p].base <= pn[p].made

\* The client gets the output of a pane.
Allowed(k, c, f, p) ==
  k[p].known /\ ~k[p].off /\ ~k[p].paused /\ ~f.noOutput /\ ~c.lost

\* Only such output is queued, and it is between what was drained and what was
\* queued, unless output was passed over.
FilledAt(pn, k, c, f, p) ==
  /\ Blocks(c.all, p) # {} => Allowed(k, c, f, p)
  /\ Allowed(k, c, f, p) /\ ~k[p].skipped =>
       /\ pn[p].base <= k[p].offset
       /\ k[p].offset + Size(c.all, p) <= k[p].queued

Filled(pn, k, c, f) == \A p \in Panes : FilledAt(pn, k, c, f, p)

\* The same pane, and no more of it is queued.
LEMMA FilledSame ==
  ASSUME NEW pn, NEW k, NEW c \in Clients, NEW f, NEW p \in Panes, FilledAt(pn, k, c, f, p),
         NEW m, NEW j, NEW d \in Clients, NEW g,
         m[p].base = pn[p].base, j[p] = k[p], k[p] \in CpRecord, d.lost = c.lost,
         g.noOutput = f.noOutput,
         Blocks(c.all, p) = {} => Blocks(d.all, p) = {}, Size(d.all, p) <= Size(c.all, p)
  PROVE  FilledAt(m, j, d, g, p)
PROOF
  <1>1. Allowed(j, d, g, p) <=> Allowed(k, c, f, p)
    BY DEF Allowed
  <1>2. Size(c.all, p) \in Nat /\ Size(d.all, p) \in Nat
    BY WaitsIs
  <1>3. k[p].offset \in Nat /\ k[p].queued \in Nat
    BY DEF CpRecord
  <1>4. /\ Blocks(c.all, p) # {} => Allowed(k, c, f, p)
        /\ Allowed(k, c, f, p) /\ ~k[p].skipped =>
             /\ pn[p].base <= k[p].offset
             /\ k[p].offset + Size(c.all, p) <= k[p].queued
    BY Zenon DEF FilledAt
  <1>5. Allowed(k, c, f, p) /\ ~k[p].skipped => k[p].offset + Size(d.all, p) <= k[p].queued
    <2>1. Size(d.all, p) <= Size(c.all, p)
      OBVIOUS
    <2> QED
      BY ONLY <2>1, <1>2, <1>3, <1>4
  <1>6. Allowed(j, d, g, p) /\ ~j[p].skipped =>
          /\ m[p].base <= j[p].offset
          /\ j[p].offset + Size(d.all, p) <= j[p].queued
    BY ONLY <1>1, <1>4, <1>5, m[p].base = pn[p].base, j[p] = k[p]
  <1>7. Blocks(d.all, p) # {} => Allowed(j, d, g, p)
    BY <1>1, <1>4
  <1> QED
    BY <1>6, <1>7, Zenon DEF FilledAt

\* A pane that nothing is queued of.
LEMMA FilledNone ==
  ASSUME NEW m, NEW j, NEW d \in Clients, NEW g, NEW p \in Panes, Blocks(d.all, p) = {},
         Allowed(j, d, g, p) /\ ~j[p].skipped =>
           m[p].base <= j[p].offset /\ j[p].offset <= j[p].queued,
         j[p] \in CpRecord
  PROVE  FilledAt(m, j, d, g, p)
PROOF
  <1>1. Size(d.all, p) = 0
    BY WaitsIs, NothingOf
  <1>2. j[p].offset \in Nat
    BY DEF CpRecord
  <1>3. j[p].offset + Size(d.all, p) = j[p].offset
    BY <1>1, <1>2
  <1> QED
    BY <1>3, Zenon DEF FilledAt

LEMMA FilledGoes ==
  ASSUME NEW pn, NEW k \in [Panes -> CpRecord], NEW c \in Clients, NEW f,
         Filled(pn, k, c, f), NEW d, Goes(c, d)
  PROVE  Filled(pn, k, d, f)
PROOF
  <1>1. d \in Clients /\ Follows(c, d)
    BY Zenon DEF Goes
  <1>2. /\ d.lost = c.lost
        /\ \A p \in Panes : /\ Blocks(c.all, p) = {} => Blocks(d.all, p) = {}
                            /\ Size(d.all, p) <= Size(c.all, p)
    BY <1>1, Zenon DEF Follows
  <1>3. ASSUME NEW p \in Panes PROVE FilledAt(pn, k, d, f, p)
    <2>1. FilledAt(pn, k, c, f, p) /\ k[p] \in CpRecord
      BY DEF Filled
    <2>2. /\ Blocks(c.all, p) = {} => Blocks(d.all, p) = {}
          /\ Size(d.all, p) <= Size(c.all, p)
      BY <1>2
    <2> QED
      BY ONLY <1>1, <1>2, <2>1, <2>2, c \in Clients, p \in Panes, FilledSame
  <1> QED
    BY <1>3 DEF Filled

-----------------------------------------------------------------------------
(***************************************************************************)
(* The inductive invariant.                                                *)
(***************************************************************************)
Typed ==
  /\ pane \in [Panes -> PaneRecord] /\ cp \in [Panes -> CpRecord] /\ pending \in Seq(Panes)
  /\ client \in Clients /\ flags \in FlagsRecord /\ cb \in Callbacks

IInv ==
  /\ Typed /\ Marks(pane, cp) /\ Sound(client)
  /\ Watched(pending, client)
  /\ Limited(client, cb)
  /\ Filled(pane, cp, client, flags)

LEMMA FirstState == Init => IInv
PROOF
  <1> SUFFICES ASSUME Init PROVE IInv
    OBVIOUS
  <1>1. /\ pane = [p \in Panes |-> [made |-> 0, base |-> 0, alive |-> TRUE, linked |-> TRUE,
                                    reading |-> TRUE]]
        /\ cp = [p \in Panes |-> NoPane] /\ pending = <<>> /\ client = NewClient /\ cb = Idle
        /\ flags \in [noOutput : {FALSE}, suspended : {FALSE}, pauseAfter : BOOLEAN]
    BY DEF Init
  <1>3. /\ client \in Clients /\ Sound(client) /\ client.all = <<>>
        /\ client.evb = 0 /\ Waits(client) = 0
    BY <1>1, NewIsSound
  <1>4. Typed
    <2>1. pane \in [Panes -> PaneRecord] /\ cp \in [Panes -> CpRecord]
      BY <1>1 DEF PaneRecord, CpRecord, NoPane
    <2>2. pending \in Seq(Panes)
      BY <1>1
    <2>3. flags \in FlagsRecord
      BY <1>1 DEF FlagsRecord
    <2>4. cb \in Callbacks
      BY <1>1 DEF Callbacks, Idle
    <2> QED
      BY <1>3, <2>1, <2>2, <2>3, <2>4 DEF Typed
  <1>5. Marks(pane, cp)
    BY <1>1 DEF Marks, NoPane
  <1>6. \A p \in Panes : Blocks(client.all, p) = {}
    BY <1>3, EmptyQueue
  <1>7. Watched(pending, client)
    BY <1>1, <1>6 DEF Watched
  <1>8. Limited(client, cb)
    <2>1. Cardinality(LineBlocks(client.all)) = 0
      BY <1>3, EmptyQueue
    <2>2. /\ Cardinality(LineBlocks(client.all)) <= MaxReplies - 1
          /\ Waits(client) <= (MaxReplies + High + Minimum) - 2
      BY <1>3, <2>1, Sizes
    <2>3. cb.todo = <<>> /\ cb.message = 0 /\ cb.message <= cb.used
      BY <1>1 DEF Idle
    <2> QED
      BY <1>1, <2>2, <2>3, Zenon DEF Limited
  <1>9. Filled(pane, cp, client, flags)
    BY <1>1, <1>6 DEF Filled, FilledAt, Allowed, NoPane
  <1> QED
    BY <1>3, <1>4, <1>5, <1>7, <1>8, <1>9 DEF IInv

\* A step that only goes on with the client, outside a callback.
LEMMA GoesStep ==
  ASSUME IInv, ~cb.on, NEW d, Goes(client, d)
  PROVE  /\ d \in Clients /\ Sound(d) /\ Watched(pending, d) /\ Limited(d, cb)
         /\ Filled(pane, cp, d, flags)
         /\ d.lost = client.lost
         /\ \A p \in Panes : /\ Blocks(client.all, p) = {} => Blocks(d.all, p) = {}
                             /\ Size(d.all, p) <= Size(client.all, p)
PROOF
  <1>1. /\ client \in Clients /\ Watched(pending, client) /\ Limited(client, cb)
        /\ cp \in [Panes -> CpRecord]
        /\ Filled(pane, cp, client, flags)
    BY DEF IInv, Typed
  <1>2. d \in Clients /\ Sound(d) /\ Follows(client, d)
    BY Zenon DEF Goes
  <1>3. /\ d.lost = client.lost
        /\ \A p \in Panes : /\ Blocks(client.all, p) = {} => Blocks(d.all, p) = {}
                            /\ Size(d.all, p) <= Size(client.all, p)
    BY <1>2, Zenon DEF Follows
  <1>4. Watched(pending, d)
    BY <1>1, <1>2, WatchedGoes
  <1>5. Limited(d, cb)
    BY <1>1, LimitedGoes
  <1>6. Filled(pane, cp, d, flags)
    BY <1>1, FilledGoes
  <1> QED
    BY <1>2, <1>3, <1>4, <1>5, <1>6

\* The control_pane of one pane changes, and what the client has of the others
\* goes on.
Beside(pn, k, c, m, j, d, p) ==
  /\ d.lost = c.lost
  /\ \A q \in Panes : /\ Blocks(c.all, q) = {} => Blocks(d.all, q) = {}
                      /\ Size(d.all, q) <= Size(c.all, q)
  /\ \A q \in Panes : q # p => m[q].base = pn[q].base /\ j[q] = k[q]

LEMMA OneCp ==
  ASSUME NEW pn, NEW k \in [Panes -> CpRecord], NEW c \in Clients, NEW f, Filled(pn, k, c, f),
         NEW d \in Clients, NEW p \in Panes, NEW m, NEW j, Beside(pn, k, c, m, j, d, p),
         FilledAt(m, j, d, f, p)
  PROVE  Filled(m, j, d, f)
PROOF
  <1>1. ASSUME NEW q \in Panes, q # p PROVE FilledAt(m, j, d, f, q)
    <2>1. FilledAt(pn, k, c, f, q) /\ k[q] \in CpRecord
      BY DEF Filled
    <2>2. /\ Blocks(c.all, q) = {} => Blocks(d.all, q) = {}
          /\ Size(d.all, q) <= Size(c.all, q)
          /\ d.lost = c.lost /\ m[q].base = pn[q].base /\ j[q] = k[q]
      BY <1>1, Zenon DEF Beside
    <2>3. f.noOutput = f.noOutput
      OBVIOUS
    <2> QED
      BY ONLY <2>1, <2>2, <2>3, c \in Clients, d \in Clients, q \in Panes, FilledSame
  <1> QED
    BY <1>1 DEF Filled

-----------------------------------------------------------------------------
(***************************************************************************)
(* Commands.                                                               *)
(***************************************************************************)

\* A command that changes at most one control_pane, to one that does not get
\* output or begins where the pane's output ends.
LEMMA CommandStep ==
  ASSUME IInv, NEW lines \in Nat, Speaks(lines), NEW p \in Panes, NEW ps \in SUBSET Panes, NEW notes,
         Fits(<<"end">> \o notes, TRUE, FALSE), client' = Reply(client, ps, notes),
         NEW x \in CpRecord, cp' = [cp EXCEPT ![p] = x],
         x.queued <= pane[p].made,
         \/ x = cp[p]
         \/ /\ p \in ps \/ cp[p].off \/ cp[p].paused
            /\ x.off \/ x.paused \/ (x.offset = pane[p].made /\ x.queued = pane[p].made),
         UNCHANGED <<pane, pending, flags, cb>>
  PROVE  IInv'
PROOF
  <1>1. ~cb.on /\ ~client.lost /\ ~client.exit
    BY DEF Speaks, Between, Attached
  <1>2. /\ Typed /\ client \in Clients /\ Sound(client) /\ Marks(pane, cp)
        /\ Filled(pane, cp, client, flags)
    BY DEF IInv, Typed
  <1>3. Goes(client, client') /\ \A q \in ps : Blocks(client'.all, q) = {}
    BY <1>1, <1>2, ReplyGoes
  <1>4. /\ client' \in Clients /\ Sound(client') /\ Watched(pending, client') /\ Limited(client', cb)
        /\ client'.lost = client.lost
        /\ \A q \in Panes : /\ Blocks(client.all, q) = {} => Blocks(client'.all, q) = {}
                            /\ Size(client'.all, q) <= Size(client.all, q)
    BY <1>1, <1>3, GoesStep
  <1>5. cp \in [Panes -> CpRecord] /\ pane \in [Panes -> PaneRecord]
    BY <1>2 DEF Typed
  <1>6. /\ cp' \in [Panes -> CpRecord] /\ cp'[p] = x
        /\ \A q \in Panes : q # p => cp'[q] = cp[q]
    BY <1>5
  <1>7. Typed'
    BY <1>2, <1>4, <1>6 DEF Typed
  <1>8. Marks(pane', cp')
    BY <1>2, <1>6 DEF Marks
  <1>9. Filled(pane', cp', client', flags')
    <2>1. Filled(pane, cp, client, flags)
      BY <1>2
    <2>2. CASE x = cp[p]
      <3>1. FilledAt(pane, cp, client, flags, p) /\ cp[p] \in CpRecord
        BY <1>5, <2>1 DEF Filled
      <3>2. FilledAt(pane, cp', client', flags, p)
        <4>1. /\ Blocks(client.all, p) = {} => Blocks(client'.all, p) = {}
              /\ Size(client'.all, p) <= Size(client.all, p)
              /\ client'.lost = client.lost /\ pane[p].base = pane[p].base /\ cp'[p] = cp[p]
              /\ flags.noOutput = flags.noOutput
          BY <1>4, <1>6, <2>2
        <4> QED
          BY ONLY <3>1, <4>1, <1>2, <1>4, p \in Panes, FilledSame
      <3>9. /\ pane' = pane /\ flags' = flags
            /\ Beside(pane, cp, client, pane, cp', client', p)
        BY <1>4, <1>6 DEF Beside
      <3> QED
        BY ONLY <1>2, <1>4, <1>5, <2>1, <3>2, <3>9, p \in Panes, OneCp
    <2>3. CASE x # cp[p]
      <3>1. /\ p \in ps \/ cp[p].off \/ cp[p].paused
            /\ x.off \/ x.paused \/ (x.offset = pane[p].made /\ x.queued = pane[p].made)
        BY <2>3
      <3>2. Blocks(client'.all, p) = {}
        <4>1. p \notin ps => Blocks(client.all, p) = {}
          BY <2>1, <3>1 DEF Filled, FilledAt, Allowed
        <4> QED
          BY <1>3, <1>4, <4>1
      <3>3. pane[p].base <= pane[p].made /\ pane[p].made \in Nat
        BY <1>2, <1>5 DEF Marks, PaneRecord
      <3>4. Allowed(cp', client', flags, p) =>
              pane[p].base <= cp'[p].offset /\ cp'[p].offset <= cp'[p].queued
        BY <1>6, <3>1, <3>3 DEF Allowed
      <3>5. FilledAt(pane, cp', client', flags, p)
        BY <1>4, <1>6, <3>2, <3>4, FilledNone
      <3>9. /\ pane' = pane /\ flags' = flags
            /\ Beside(pane, cp, client, pane, cp', client', p)
        BY <1>4, <1>6 DEF Beside
      <3> QED
        BY ONLY <1>2, <1>4, <1>5, <2>1, <3>5, <3>9, p \in Panes, OneCp
    <2> QED
      BY <2>2, <2>3
  <1>10. Watched(pending', client') /\ Limited(client', cb')
    BY <1>4
  <1> QED
    BY <1>4, <1>7, <1>8, <1>9, <1>10 DEF IInv

\* A step that leaves everything but the client.
LEMMA PlainStep ==
  ASSUME IInv, ~cb.on, Goes(client, client'), UNCHANGED <<pane, cp, pending, flags, cb>>
  PROVE  IInv'
PROOF
  <1>1. /\ client' \in Clients /\ Sound(client') /\ Watched(pending, client') /\ Limited(client', cb)
        /\ Filled(pane, cp, client', flags)
    BY GoesStep
  <1>2. Typed'
    BY <1>1 DEF IInv, Typed
  <1>3. Marks(pane', cp')
    BY DEF IInv
  <1>4. Watched(pending', client') /\ Limited(client', cb') /\ Filled(pane', cp', client', flags')
    BY <1>1
  <1> QED
    BY <1>1, <1>2, <1>3, <1>4 DEF IInv

LEMMA CommandOk == IInv /\ Command => IInv'
PROOF
  <1> SUFFICES ASSUME IInv, Command PROVE IInv'
    OBVIOUS
  <1>1. /\ ~cb.on /\ ~client.lost /\ ~client.exit /\ client' = Reply(client, {}, <<>>)
        /\ UNCHANGED <<pane, cp, pending, flags, cb>>
    BY DEF Command, Speaks, Between, Attached
  <1>2. client \in Clients /\ Sound(client)
    BY DEF IInv, Typed
  <1>3. {} \in SUBSET Panes
    OBVIOUS
  <1>4. Goes(client, client')
    BY <1>1, <1>2, <1>3, LinesFit, ReplyGoes
  <1> QED
    BY <1>1, <1>4, PlainStep

\* Offsets at the end of what a pane wrote.
LEMMA AtIs ==
  ASSUME NEW x \in CpRecord, NEW n \in Nat
  PROVE  /\ At(n, x) \in CpRecord /\ At(n, x).offset = n /\ At(n, x).queued = n
         /\ At(n, x).known = x.known /\ At(n, x).off = x.off /\ At(n, x).paused = x.paused
BY DEF At, CpRecord

\* What is known of one pane.
LEMMA PaneIs ==
  ASSUME IInv, NEW p \in Panes
  PROVE  /\ cp[p] \in CpRecord /\ pane[p] \in PaneRecord /\ pane[p].made \in Nat
         /\ pane[p].base \in Nat /\ cp[p].queued \in Nat /\ cp[p].offset \in Nat
         /\ cp[p].queued <= pane[p].made /\ pane[p].base <= pane[p].made
         /\ cp = [cp EXCEPT ![p] = cp[p]] /\ pane = [pane EXCEPT ![p] = pane[p]]
BY DEF IInv, Typed, Marks, CpRecord, PaneRecord

\* A pane whose output is to be sent from here on, if at all.
LEMMA FromHere ==
  ASSUME IInv, NEW p \in Panes, NEW y, y = At(pane[p].made, cp[p])
  PROVE  /\ y \in CpRecord /\ y.offset = pane[p].made /\ y.queued = pane[p].made
         /\ y.queued <= pane[p].made
         /\ y.known = cp[p].known /\ y.off = cp[p].off /\ y.paused = cp[p].paused
PROOF
  <1>1. cp[p] \in CpRecord /\ pane[p].made \in Nat /\ pane[p].made <= pane[p].made
    BY PaneIs
  <1> QED
    BY <1>1, AtIs

LEMMA SetPaneOnOk == ASSUME IInv, NEW p \in Panes, SetPaneOn(p) PROVE IInv'
PROOF
  <1> DEFINE y == At(pane[p].made, cp[p])
             x == IF cp[p].off THEN [y EXCEPT !.off = FALSE] ELSE cp[p]
  <1>0. /\ y \in CpRecord /\ y.offset = pane[p].made /\ y.queued = pane[p].made
        /\ y.queued <= pane[p].made /\ cp[p] \in CpRecord /\ cp[p].queued <= pane[p].made
    BY FromHere, PaneIs
  <1>1. /\ Speaks(2) /\ client' = Reply(client, {}, <<>>)
        /\ cp' = [cp EXCEPT ![p] = x]
        /\ UNCHANGED <<pane, pending, flags, cb>>
    BY PaneIs DEF SetPaneOn, Made
  <1> HIDE DEF y
  <1>2. /\ x \in CpRecord /\ x.queued <= pane[p].made
        /\ x = cp[p] \/ (cp[p].off /\ x.offset = pane[p].made /\ x.queued = pane[p].made)
    <2>1. CASE cp[p].off
      BY <2>1, <1>0 DEF CpRecord
    <2>2. CASE ~cp[p].off
      BY <2>2, <1>0
    <2> QED
      BY <2>1, <2>2
  <1> HIDE DEF x
  <1>3. {} \in SUBSET Panes /\ 2 \in Nat
    OBVIOUS
  <1> QED
    BY ONLY IInv, p \in Panes, <1>1, <1>2, <1>3, LinesFit, CommandStep

LEMMA SetPaneOffOk == ASSUME IInv, NEW p \in Panes, SetPaneOff(p) PROVE IInv'
PROOF
  <1> DEFINE y == At(pane[p].made, cp[p])
             x == [y EXCEPT !.known = TRUE, !.off = TRUE]
  <1>0. /\ y \in CpRecord /\ y.offset = pane[p].made /\ y.queued = pane[p].made
        /\ y.queued <= pane[p].made /\ cp[p] \in CpRecord /\ cp[p].queued <= pane[p].made
    BY FromHere, PaneIs
  <1>1. /\ Speaks(2) /\ client' = Reply(client, {p}, <<>>)
        /\ cp' = [cp EXCEPT ![p] = x]
        /\ UNCHANGED <<pane, pending, flags, cb>>
    BY DEF SetPaneOff, Made
  <1> HIDE DEF y
  <1>2. x \in CpRecord /\ x.queued <= pane[p].made /\ x.off
    BY <1>0 DEF CpRecord
  <1> HIDE DEF x
  <1>3. {p} \in SUBSET Panes /\ p \in {p} /\ 2 \in Nat
    OBVIOUS
  <1> QED
    BY ONLY IInv, p \in Panes, <1>1, <1>2, <1>3, LinesFit, CommandStep

LEMMA ContinuePaneOk == ASSUME IInv, NEW p \in Panes, ContinuePane(p) PROVE IInv'
PROOF
  <1> DEFINE y == At(pane[p].made, cp[p])
             x == [y EXCEPT !.paused = FALSE]
  <1>0. /\ y \in CpRecord /\ y.offset = pane[p].made /\ y.queued = pane[p].made
        /\ y.queued <= pane[p].made /\ cp[p] \in CpRecord /\ cp[p].queued <= pane[p].made
    BY FromHere, PaneIs
  <1>1. /\ Speaks(3) /\ client' = Reply(client, {}, <<"continue">>)
        /\ cp' = [cp EXCEPT ![p] = x] /\ cp[p].paused
        /\ UNCHANGED <<pane, pending, flags, cb>>
    BY DEF ContinuePane, Made
  <1> HIDE DEF y
  <1>2. x \in CpRecord /\ x.queued <= pane[p].made /\ x.offset = pane[p].made /\ x.queued = pane[p].made
    BY <1>0 DEF CpRecord
  <1> HIDE DEF x
  <1>3. {} \in SUBSET Panes /\ 3 \in Nat
    OBVIOUS
  <1> QED
    BY ONLY IInv, p \in Panes, <1>1, <1>2, <1>3, LinesFit, CommandStep

LEMMA PausePaneOk == ASSUME IInv, NEW p \in Panes, PausePane(p) PROVE IInv'
PROOF
  <1> DEFINE y == At(pane[p].made, cp[p])
             x == [(IF cp[p].known THEN cp[p] ELSE y) EXCEPT !.known = TRUE, !.paused = TRUE]
  <1>0. /\ y \in CpRecord /\ y.offset = pane[p].made /\ y.queued = pane[p].made
        /\ y.queued <= pane[p].made /\ cp[p] \in CpRecord /\ cp[p].queued <= pane[p].made
    BY FromHere, PaneIs
  <1>1. /\ Speaks(3) /\ client' = Reply(client, {p}, <<"pause">>)
        /\ cp' = [cp EXCEPT ![p] = x]
        /\ UNCHANGED <<pane, pending, flags, cb>>
    BY DEF PausePane, Made
  <1> HIDE DEF y
  <1>2. x \in CpRecord /\ x.queued <= pane[p].made /\ x.paused
    <2>1. CASE cp[p].known
      BY <2>1, <1>0 DEF CpRecord
    <2>2. CASE ~cp[p].known
      BY <2>2, <1>0 DEF CpRecord
    <2> QED
      BY <2>1, <2>2
  <1> HIDE DEF x
  <1>3. {p} \in SUBSET Panes /\ p \in {p} /\ 3 \in Nat
    OBVIOUS
  <1> QED
    BY ONLY IInv, p \in Panes, <1>1, <1>2, <1>3, LinesFit, CommandStep

\* All that is known of the panes, and that is queued of them, is dropped.
LEMMA SetNoOutputOk == ASSUME IInv, NEW on \in BOOLEAN, SetNoOutput(on) PROVE IInv'
PROOF
  <1>1. /\ ~cb.on /\ ~client.lost /\ ~client.exit /\ client' = Reply(client, Panes, <<>>)
        /\ flags' = [flags EXCEPT !.noOutput = on] /\ cp' = [p \in Panes |-> NoPane]
        /\ pending' = <<>> /\ pane' = pane /\ cb' = cb
    BY DEF SetNoOutput, Speaks, Between, Attached
  <1>2. Typed /\ client \in Clients /\ Sound(client) /\ Marks(pane, cp)
    BY DEF IInv, Typed
  <1>3. Panes \in SUBSET Panes
    OBVIOUS
  <1>4. Goes(client, client') /\ \A p \in Panes : Blocks(client'.all, p) = {}
    BY <1>1, <1>2, <1>3, LinesFit, ReplyGoes
  <1>5. client' \in Clients /\ Sound(client') /\ Limited(client', cb)
    BY <1>1, <1>4, GoesStep
  <1>6. NoPane \in CpRecord /\ NoPane.queued = 0 /\ ~NoPane.known
    BY DEF NoPane, CpRecord
  <1>7. Typed'
    <2>1. cp' \in [Panes -> CpRecord]
      BY <1>1, <1>6
    <2>2. flags' \in FlagsRecord
      BY <1>1, <1>2 DEF Typed, FlagsRecord
    <2> QED
      BY <1>1, <1>2, <1>5, <2>1, <2>2 DEF Typed
  <1>8. Marks(pane', cp')
    <2>1. ASSUME NEW p \in Panes PROVE cp'[p].queued <= pane'[p].made /\ pane'[p].base <= pane'[p].made
      BY <1>1, <1>6, PaneIs
    <2> QED
      BY <2>1 DEF Marks
  <1>9. Watched(pending', client')
    BY <1>1, <1>4 DEF Watched
  <1>10. Filled(pane', cp', client', flags')
    BY <1>1, <1>4, <1>6 DEF Filled, FilledAt, Allowed
  <1> QED
    BY <1>1, <1>5, <1>7, <1>8, <1>9, <1>10 DEF IInv

LEMMA SuspendOk == ASSUME IInv, NEW on \in BOOLEAN, Suspend(on) PROVE IInv'
PROOF
  <1>1. /\ flags' = [flags EXCEPT !.suspended = on] /\ UNCHANGED <<pane, cp, pending, client, cb>>
    BY DEF Suspend
  <1>2. Typed /\ flags \in FlagsRecord
    BY DEF IInv, Typed
  <1>3. flags' \in FlagsRecord /\ flags'.noOutput = flags.noOutput
    BY <1>1, <1>2 DEF FlagsRecord
  <1>4. Typed'
    BY <1>1, <1>2, <1>3 DEF Typed
  <1>5. Filled(pane', cp', client', flags') <=> Filled(pane, cp, client, flags)
    BY <1>1, <1>3 DEF Filled, FilledAt, Allowed
  <1> QED
    BY <1>1, <1>4, <1>5 DEF IInv

LEMMA ExitOk == IInv /\ Exit => IInv'
PROOF
  <1> SUFFICES ASSUME IInv, Exit PROVE IInv'
    OBVIOUS
  <1>1. /\ ~cb.on /\ client' = [client EXCEPT !.exit = TRUE]
        /\ UNCHANGED <<pane, cp, pending, flags, cb>>
    BY DEF Exit, Between
  <1>2. client \in Clients /\ Sound(client)
    BY DEF IInv, Typed
  <1>3. Goes(client, client')
    BY <1>1, <1>2, ExitGoes
  <1> QED
    BY <1>1, <1>3, PlainStep

-----------------------------------------------------------------------------
(***************************************************************************)
(* Panes.                                                                  *)
(***************************************************************************)

\* A block is too old: the pane is paused, or the client told to exit.
LEMMA AgedGoes ==
  ASSUME NEW c \in Clients, Sound(c), ~c.exited, ~c.lost, NEW p \in Panes,
         NEW d, \/ d = WriteLines(Discard(c, {p}), <<"pause">>)
                \/ d = [Discard(c, Panes) EXCEPT !.exit = TRUE]
  PROVE  Goes(c, d) /\ Blocks(d.all, p) = {}
PROOF
  <1>1. CASE d = WriteLines(Discard(c, {p}), <<"pause">>)
    <2> DEFINE e == Discard(c, {p})
    <2>1. {p} \in SUBSET Panes /\ p \in {p}
      OBVIOUS
    <2>2. Goes(c, e) /\ Blocks(e.all, p) = {}
      BY <2>1, DiscardGoes
    <2> HIDE DEF e
    <2>3. e \in Clients /\ Sound(e) /\ e.exited = c.exited /\ e.lost = c.lost
      BY <2>2 DEF Goes, Follows
    <2>4. Goes(e, d)
      BY <1>1, <2>3, LinesFit, WriteGoes DEF e
    <2>5. Goes(c, d)
      BY <2>2, <2>4, GoesOn
    <2>6. Blocks(d.all, p) = {}
      BY <2>2, <2>4 DEF Goes, Follows
    <2> QED
      BY <2>5, <2>6
  <1>2. CASE d = [Discard(c, Panes) EXCEPT !.exit = TRUE]
    <2> DEFINE e == Discard(c, Panes)
    <2>1. Panes \in SUBSET Panes
      OBVIOUS
    <2>2. Goes(c, e) /\ Blocks(e.all, p) = {}
      BY <2>1, DiscardGoes
    <2> HIDE DEF e
    <2>3. e \in Clients /\ Sound(e)
      BY <2>2 DEF Goes
    <2>4. Goes(e, d)
      BY <1>2, <2>3, ExitGoes DEF e
    <2>5. Goes(c, d)
      BY <2>2, <2>4, GoesOn
    <2>6. Blocks(d.all, p) = {}
      BY <2>2, <2>4 DEF Goes, Follows
    <2> QED
      BY <2>5, <2>6
  <1> QED
    BY <1>1, <1>2

LEMMA AgedStep ==
  ASSUME IInv, ~client.exited, ~client.lost, NEW p \in Panes, NEW x \in CpRecord, Aged(p, client, x)
  PROVE  /\ Goes(client, client') /\ Blocks(client'.all, p) = {}
         /\ cp' \in [Panes -> CpRecord] /\ \A q \in Panes : q # p => cp'[q] = cp[q]
         /\ cp'[p].queued = x.queued /\ cp'[p].offset = x.offset
         /\ cp'[p].skipped = x.skipped
         /\ cp'[p].paused \/ cp'[p] = x
PROOF
  <1>1. client \in Clients /\ Sound(client) /\ cp \in [Panes -> CpRecord]
    BY DEF IInv, Typed
  <1>2. \/ client' = WriteLines(Discard(client, {p}), <<"pause">>)
        \/ client' = [Discard(client, Panes) EXCEPT !.exit = TRUE]
    BY DEF Aged
  <1>3. Goes(client, client') /\ Blocks(client'.all, p) = {}
    BY <1>1, <1>2, AgedGoes
  <1>4. cp' = [cp EXCEPT ![p] = [x EXCEPT !.paused = TRUE]] \/ cp' = [cp EXCEPT ![p] = x]
    BY DEF Aged
  <1>5. CASE cp' = [cp EXCEPT ![p] = [x EXCEPT !.paused = TRUE]]
    <2> DEFINE y == [x EXCEPT !.paused = TRUE]
    <2>1. /\ y \in CpRecord /\ y.queued = x.queued /\ y.offset = x.offset
          /\ y.skipped = x.skipped /\ y.paused
      BY DEF CpRecord
    <2>2. cp' = [cp EXCEPT ![p] = y]
      BY <1>5
    <2> HIDE DEF y
    <2>3. cp' \in [Panes -> CpRecord] /\ cp'[p] = y /\ \A q \in Panes : q # p => cp'[q] = cp[q]
      BY <1>1, <2>1, <2>2
    <2> QED
      BY <1>3, <2>1, <2>3
  <1>6. CASE cp' = [cp EXCEPT ![p] = x]
    <2>1. cp' \in [Panes -> CpRecord] /\ cp'[p] = x /\ \A q \in Panes : q # p => cp'[q] = cp[q]
      BY <1>1, <1>6
    <2> QED
      BY <1>3, <2>1
  <1> QED
    BY <1>4, <1>5, <1>6

\* A pane's buffer or process changes, and what is queued of it does not.
LEMMA PaneStep ==
  ASSUME IInv, NEW p \in Panes, NEW y \in PaneRecord, pane' = [pane EXCEPT ![p] = y],
         y.base = pane[p].base, pane[p].made <= y.made,
         UNCHANGED <<cp, pending, client, flags, cb>>
  PROVE  IInv'
PROOF
  <1>1. /\ Typed /\ client \in Clients /\ Sound(client) /\ Marks(pane, cp)
        /\ Filled(pane, cp, client, flags)
        /\ pane \in [Panes -> PaneRecord] /\ cp \in [Panes -> CpRecord]
    BY DEF IInv, Typed
  <1>2. /\ pane' \in [Panes -> PaneRecord] /\ pane'[p] = y
        /\ \A q \in Panes : q # p => pane'[q] = pane[q]
    BY <1>1
  <1>3. Typed'
    BY <1>1, <1>2 DEF Typed
  <1>4. Marks(pane', cp')
    <2>1. cp[p].queued \in Nat /\ pane[p].base \in Nat /\ pane[p].made \in Nat /\ y.made \in Nat
          /\ cp[p].queued <= pane[p].made /\ pane[p].base <= pane[p].made
      BY PaneIs DEF PaneRecord
    <2>2. cp[p].queued <= y.made /\ y.base <= y.made
      BY <2>1
    <2>3. \A q \in Panes : cp[q].queued <= pane[q].made /\ pane[q].base <= pane[q].made
      BY <1>1 DEF Marks
    <2>4. \A q \in Panes : cp[q].queued <= pane'[q].made /\ pane'[q].base <= pane'[q].made
      BY <1>2, <2>2, <2>3
    <2> QED
      BY <2>4 DEF Marks
  <1>5. \A q \in Panes : pane'[q].base = pane[q].base
    BY <1>2
  <1>6. Filled(pane', cp', client', flags')
    <2>1. Filled(pane, cp, client, flags)
      BY <1>1
    <2> QED
      BY <1>5, <2>1 DEF Filled, FilledAt, Allowed
  <1> QED
    BY <1>3, <1>4, <1>6 DEF IInv

LEMMA PaneEndsOk == ASSUME IInv, NEW p \in Panes, PaneEnds(p) PROVE IInv'
PROOF
  <1> DEFINE y == [pane[p] EXCEPT !.alive = FALSE]
  <1>1. pane' = [pane EXCEPT ![p] = y] /\ UNCHANGED <<cp, pending, client, flags, cb>>
    BY DEF PaneEnds
  <1>2. y \in PaneRecord /\ y.base = pane[p].base /\ pane[p].made <= y.made
    <2>1. pane[p] \in PaneRecord /\ pane[p].made <= pane[p].made
      BY PaneIs
    <2>2. y \in PaneRecord /\ y.base = pane[p].base /\ y.made = pane[p].made
      BY <2>1 DEF PaneRecord
    <2> QED
      BY ONLY <2>1, <2>2
  <1> HIDE DEF y
  <1> QED
    BY <1>1, <1>2, PaneStep

LEMMA MoveOk == ASSUME IInv, NEW p \in Panes, Move(p) PROVE IInv'
PROOF
  <1> DEFINE y == [pane[p] EXCEPT !.linked = ~pane[p].linked]
  <1>1. pane' = [pane EXCEPT ![p] = y] /\ UNCHANGED <<cp, pending, client, flags, cb>>
    BY DEF Move
  <1>2. y \in PaneRecord /\ y.base = pane[p].base /\ pane[p].made <= y.made
    <2>1. pane[p] \in PaneRecord /\ pane[p].made <= pane[p].made
      BY PaneIs
    <2>2. y \in PaneRecord /\ y.base = pane[p].base /\ y.made = pane[p].made
      BY <2>1 DEF PaneRecord
    <2> QED
      BY ONLY <2>1, <2>2
  <1> HIDE DEF y
  <1> QED
    BY <1>1, <1>2, PaneStep

\* The client of a pane that starts again has nothing queued of it.
LEMMA RespawnOk == ASSUME IInv, NEW p \in Panes, Respawn(p) PROVE IInv'
PROOF
  <1> DEFINE y == [pane[p] EXCEPT !.made = 0, !.base = 0, !.alive = TRUE, !.reading = TRUE]
             x == At(0, cp[p])
  <1>1. /\ ~cb.on /\ pane' = [pane EXCEPT ![p] = y] /\ cp' = [cp EXCEPT ![p] = x]
        /\ client' = IF cp[p].known THEN Discard(client, {p}) ELSE client
        /\ UNCHANGED <<pending, flags, cb>>
    BY DEF Respawn, ResetPane, Between
  <1>2. /\ Typed /\ client \in Clients /\ Sound(client) /\ Marks(pane, cp)
        /\ Filled(pane, cp, client, flags)
        /\ pane \in [Panes -> PaneRecord] /\ cp \in [Panes -> CpRecord]
    BY DEF IInv, Typed
  <1>3. y \in PaneRecord /\ y.made = 0 /\ y.base = 0
    BY PaneIs DEF PaneRecord
  <1>4. x \in CpRecord /\ x.offset = 0 /\ x.queued = 0 /\ x.known = cp[p].known
    BY PaneIs, AtIs
  <1> HIDE DEF x, y
  <1>5. /\ pane' \in [Panes -> PaneRecord] /\ pane'[p] = y
        /\ \A q \in Panes : q # p => pane'[q] = pane[q]
        /\ cp' \in [Panes -> CpRecord] /\ cp'[p] = x
        /\ \A q \in Panes : q # p => cp'[q] = cp[q]
    BY <1>1, <1>2, <1>3, <1>4
  <1>6. Goes(client, client') /\ (cp[p].known => Blocks(client'.all, p) = {})
    <2>1. {p} \in SUBSET Panes /\ p \in {p}
      OBVIOUS
    <2>2. Goes(client, Discard(client, {p})) /\ Blocks(Discard(client, {p}).all, p) = {}
      BY <1>2, <2>1, DiscardGoes
    <2>3. Goes(client, client)
      BY <1>2, FollowsItself DEF Goes
    <2> QED
      BY <1>1, <2>2, <2>3
  <1>7. /\ client' \in Clients /\ Sound(client') /\ Watched(pending, client') /\ Limited(client', cb)
        /\ client'.lost = client.lost
        /\ \A q \in Panes : /\ Blocks(client.all, q) = {} => Blocks(client'.all, q) = {}
                            /\ Size(client'.all, q) <= Size(client.all, q)
    BY <1>1, <1>6, GoesStep
  <1>8. Typed'
    BY <1>1, <1>2, <1>5, <1>7 DEF Typed
  <1>9. Marks(pane', cp')
    BY <1>2, <1>3, <1>4, <1>5 DEF Marks
  <1>10. Filled(pane', cp', client', flags')
    <2>1. Filled(pane, cp, client, flags)
      BY <1>2
    <2>2. Blocks(client'.all, p) = {}
      <3>1. ~cp[p].known => Blocks(client.all, p) = {}
        BY <2>1 DEF Filled, FilledAt, Allowed
      <3> QED
        BY <1>6, <1>7, <3>1
    <2>3. pane'[p].base <= cp'[p].offset /\ cp'[p].offset <= cp'[p].queued /\ cp'[p] \in CpRecord
      BY <1>3, <1>4, <1>5
    <2>4. FilledAt(pane', cp', client', flags, p)
      BY <1>7, <2>2, <2>3, FilledNone
    <2>5. flags' = flags /\ Beside(pane, cp, client, pane', cp', client', p)
      BY <1>1, <1>5, <1>7 DEF Beside
    <2> QED
      BY ONLY <1>2, <1>7, <2>1, <2>4, <2>5, p \in Panes, OneCp
  <1>11. Watched(pending', client') /\ Limited(client', cb')
    BY <1>1, <1>7
  <1> QED
    BY <1>7, <1>8, <1>9, <1>10, <1>11 DEF IInv

\* Output of a pane, whether the client gets it or not.
LEMMA PaneOutputOk ==
  ASSUME IInv, NEW p \in Panes, NEW n \in 1..MaxBytes[p], PaneOutput(p, n)
  PROVE  IInv'
PROOF
  <1> DEFINE y == [pane[p] EXCEPT !.made = n, !.reading = FALSE]
             z == At(pane[p].made, NoPane)
             x == IF cp[p].known THEN cp[p] ELSE [z EXCEPT !.known = TRUE]
  <1>1. /\ ~cb.on /\ ~client.lost /\ n > pane[p].made
        /\ WriteOutput(p, n) /\ pane' = [pane EXCEPT ![p] = y] /\ flags' = flags /\ cb' = cb
    BY DEF PaneOutput, Between, Attached
  <1>2. /\ Typed /\ client \in Clients /\ Sound(client) /\ Marks(pane, cp)
        /\ Filled(pane, cp, client, flags)
        /\ pane \in [Panes -> PaneRecord] /\ cp \in [Panes -> CpRecord] /\ pending \in Seq(Panes)
        /\ Watched(pending, client) /\ Limited(client, cb)
    BY DEF IInv, Typed
  <1>3. n \in Nat
    BY ControlAssumption DEF ControlAssumption
  <1>4. /\ cp[p] \in CpRecord /\ pane[p] \in PaneRecord /\ pane[p].made \in Nat
        /\ pane[p].base \in Nat /\ cp[p].queued \in Nat /\ cp[p].offset \in Nat
        /\ cp[p].queued <= pane[p].made /\ pane[p].base <= pane[p].made
    BY PaneIs
  <1>5. y \in PaneRecord /\ y.made = n /\ y.base = pane[p].base
    BY <1>3, <1>4 DEF PaneRecord
  <1>6. /\ x \in CpRecord /\ x.known /\ x.queued <= pane[p].made /\ (cp[p].known => x = cp[p])
        /\ ~cp[p].known => x.offset = pane[p].made /\ x.queued = pane[p].made /\ ~x.off /\ ~x.paused
    <2>1. NoPane \in CpRecord /\ ~NoPane.off /\ ~NoPane.paused
      BY DEF NoPane, CpRecord
    <2>2. /\ z \in CpRecord /\ z.offset = pane[p].made /\ z.queued = pane[p].made
          /\ ~z.off /\ ~z.paused
      BY <1>4, <2>1, AtIs
    <2> HIDE DEF z
    <2>3. CASE cp[p].known
      BY <2>3, <1>4
    <2>4. CASE ~cp[p].known
      <3>1. /\ x \in CpRecord /\ x.known /\ x.offset = z.offset /\ x.queued = z.queued
            /\ x.off = z.off /\ x.paused = z.paused
        BY <2>2, <2>4 DEF CpRecord
      <3>2. pane[p].made <= pane[p].made
        BY <1>4
      <3> QED
        BY ONLY <2>2, <2>4, <3>1, <3>2
    <2> QED
      BY <2>3, <2>4
  <1>7. \/ UNCHANGED <<cp, client, pending>>
        \/ /\ (Ignoring /\ cp[p].known) \/ (~Ignoring /\ (x.off \/ x.paused))
           /\ Ignore(p, n, x) /\ UNCHANGED <<client, pending>>
        \/ ~Ignoring /\ ~x.off /\ ~x.paused /\ NewBlock(p, n, x)
        \/ ~Ignoring /\ Blocks(client.all, p) # {} /\ Aged(p, client, x) /\ UNCHANGED pending
    <2>1. x = IF cp[p].known THEN cp[p] ELSE [At(pane[p].made, NoPane) EXCEPT !.known = TRUE]
      OBVIOUS
    <2> HIDE DEF x
    <2> QED
      BY ONLY <1>1, <2>1 DEF WriteOutput
  <1> HIDE DEF x, y, z
  <1>8. /\ pane' \in [Panes -> PaneRecord] /\ pane'[p] = y
        /\ \A q \in Panes : q # p => pane'[q] = pane[q]
    BY <1>1, <1>2, <1>5
  <1>9. pane[p].made <= n /\ x.queued <= n /\ cp[p].queued <= n /\ pane[p].base <= n
    <2>1. x.queued \in Nat
      BY <1>6 DEF CpRecord
    <2> QED
      BY <2>1, <1>1, <1>3, <1>4, <1>6
  <1>10. ~Ignoring => ~client.exited /\ ~flags.noOutput
    BY <1>2 DEF Ignoring, Sound
  \* What is left to show when the client and the control_pane are known.
  <1>11. ASSUME cp' \in [Panes -> CpRecord], \A q \in Panes : q # p => cp'[q] = cp[q],
                cp'[p].queued <= n, client' \in Clients, Sound(client'), pending' \in Seq(Panes),
                Watched(pending', client'), Limited(client', cb),
                Filled(pane', cp', client', flags)
         PROVE  IInv'
    <2>1. Typed'
      BY <1>1, <1>2, <1>8, <1>11 DEF Typed
    <2>2. Marks(pane', cp')
      <3>1. cp'[p].queued <= pane'[p].made /\ pane'[p].base <= pane'[p].made
        BY <1>5, <1>8, <1>9, <1>11
      <3>2. \A q \in Panes : cp[q].queued <= pane[q].made /\ pane[q].base <= pane[q].made
        BY <1>2 DEF Marks
      <3>3. \A q \in Panes : cp'[q].queued <= pane'[q].made /\ pane'[q].base <= pane'[q].made
        BY <1>8, <1>11, <3>1, <3>2
      <3> QED
        BY <3>3 DEF Marks
    <2>3. Limited(client', cb') /\ Filled(pane', cp', client', flags')
      BY <1>1, <1>11
    <2> QED
      BY <1>11, <2>1, <2>2, <2>3 DEF IInv
  <1>12. FilledAt(pane, cp, client, flags, p)
    BY <1>2 DEF Filled
  <1>13. Goes(client, client)
    BY <1>2, FollowsItself DEF Goes
  <1>14. CASE UNCHANGED <<cp, client, pending>>
    <2>1. Filled(pane', cp', client', flags)
      <3>1. /\ \A q \in Panes : pane'[q].base = pane[q].base
            /\ Filled(pane, cp, client, flags)
        BY <1>2, <1>5, <1>8
      <3> QED
        BY <3>1, <1>14 DEF Filled, FilledAt, Allowed
    <2> QED
      BY <1>2, <1>9, <1>11, <1>14, <2>1
  <1>15. ASSUME (Ignoring /\ cp[p].known) \/ (~Ignoring /\ (x.off \/ x.paused)),
                Ignore(p, n, x), UNCHANGED <<client, pending>>
         PROVE  IInv'
    <2> DEFINE v == At(n, x)
               queued == Blocks(client.all, p) # {}
               w == [v EXCEPT !.skipped = queued]
    <2>0. /\ v \in CpRecord /\ v.offset = n /\ v.queued = n /\ v.known = x.known
          /\ v.off = x.off /\ v.paused = x.paused
      BY <1>3, <1>6, AtIs
    <2>2. cp' = [cp EXCEPT ![p] = w]
      BY <1>15 DEF Ignore
    <2> HIDE DEF v
    <2>1. /\ w \in CpRecord /\ w.offset = n /\ w.queued = n /\ w.known = x.known
          /\ w.off = x.off /\ w.paused = x.paused /\ (w.skipped <=> queued)
      BY <2>0 DEF CpRecord
    <2> HIDE DEF w
    <2>3. cp' \in [Panes -> CpRecord] /\ cp'[p] = w /\ \A q \in Panes : q # p => cp'[q] = cp[q]
      BY <1>2, <2>1, <2>2
    <2>4. Filled(pane', cp', client', flags)
      <3>1. queued => Allowed(cp', client, flags, p)
        <4>1. queued => Allowed(cp, client, flags, p)
          BY <1>12 DEF FilledAt
        <4> QED
          BY <4>1, <1>6, <2>1, <2>3 DEF Allowed
      <3>2. FilledAt(pane', cp', client, flags, p)
        <4>1. CASE queued
          BY <4>1, <3>1, <2>1, <2>3 DEF FilledAt
        <4>2. CASE ~queued
          <5>1. /\ pane'[p].base <= cp'[p].offset /\ cp'[p].offset <= cp'[p].queued
                /\ cp'[p] \in CpRecord
            BY <1>3, <1>5, <1>8, <1>9, <2>1, <2>3
          <5>2. Blocks(client.all, p) = {}
            BY <4>2
          <5> QED
            BY <1>2, <5>1, <5>2, FilledNone
        <4> QED
          BY <4>1, <4>2
      <3>3. Beside(pane, cp, client, pane', cp', client, p)
        <4>1. \A q \in Panes : Size(client.all, q) <= Size(client.all, q)
          BY <1>2, WaitsIs
        <4> QED
          BY <1>8, <2>3, <4>1 DEF Beside
      <3>4. Filled(pane, cp, client, flags)
        BY <1>2
      <3>5. Filled(pane', cp', client, flags)
        BY ONLY <1>2, <3>2, <3>3, <3>4, p \in Panes, OneCp
      <3> QED
        BY <1>15, <3>5
    <2>5. n <= n
      BY <1>3
    <2> QED
      BY <1>2, <1>11, <1>15, <2>1, <2>3, <2>4, <2>5
  <1>16. ASSUME ~Ignoring, ~x.off, ~x.paused, NewBlock(p, n, x) PROVE IInv'
    <2> DEFINE w == [x EXCEPT !.queued = n]
    <2>1. n - x.queued \in Nat /\ x.queued \in Nat /\ x.offset \in Nat
      BY <1>3, <1>6, <1>9 DEF CpRecord
    <2>2. /\ w \in CpRecord /\ w.offset = x.offset /\ w.queued = n /\ w.known = x.known
          /\ w.off = x.off /\ w.paused = x.paused /\ w.skipped = x.skipped
      BY <1>3, <1>6 DEF CpRecord
    <2>3. /\ client' = [client EXCEPT !.writing = TRUE,
                  !.all = Append(client.all, [what |-> p, size |-> n - x.queued, no |-> client.lines])]
          /\ cp' = [cp EXCEPT ![p] = w]
          /\ pending' = IF p \in Range(pending) THEN pending ELSE Append(pending, p)
      BY <1>16 DEF NewBlock
    <2> HIDE DEF w
    <2>4. /\ client' \in Clients /\ Sound(client') /\ client'.writing /\ client'.evb = client.evb
          /\ client'.exited = client.exited /\ client'.lost = client.lost
          /\ LineBlocks(client'.all) = LineBlocks(client.all)
          /\ \A q \in Panes : q # p => Blocks(client'.all, q) = Blocks(client.all, q)
                                       /\ Size(client'.all, q) = Size(client.all, q)
          /\ Size(client'.all, p) = Size(client.all, p) + (n - x.queued)
      <3> DEFINE k == n - x.queued
      <3>1. ~client.exited /\ ~client.lost /\ client \in Clients /\ Sound(client) /\ k \in Nat
        BY <1>1, <1>2, <1>10, <1>16, <2>1
      <3>2. client' = Added(client, p, k)
        BY ONLY <2>3 DEF Added
      <3> HIDE DEF k
      <3>3. /\ client' \in Clients /\ Sound(client') /\ client'.writing /\ client'.evb = client.evb
            /\ client'.exited = client.exited /\ client'.lost = client.lost
            /\ LineBlocks(client'.all) = LineBlocks(client.all)
            /\ \A q \in Panes : q # p => Blocks(client'.all, q) = Blocks(client.all, q)
                                         /\ Size(client'.all, q) = Size(client.all, q)
            /\ Size(client'.all, p) = Size(client.all, p) + k
        BY ONLY <3>1, <3>2, p \in Panes, BlockAdded
      <3> QED
        BY ONLY <3>3 DEF k
    <2>5. cp' \in [Panes -> CpRecord] /\ cp'[p] = w /\ \A q \in Panes : q # p => cp'[q] = cp[q]
      BY <1>2, <2>2, <2>3
    <2>6. pending' \in Seq(Panes) /\ Watched(pending', client')
      <3>1. \A q \in Panes : q # p => Blocks(client'.all, q) = Blocks(client.all, q)
        BY <2>4
      <3> QED
        BY ONLY <1>2, <2>3, <2>4, <3>1, p \in Panes, WatchedMore
    <2>7. Limited(client', cb)
      <3>1. Waits(client') = Waits(client)
        BY <2>4 DEF Waits
      <3>2. Cardinality(LineBlocks(client'.all)) = Cardinality(LineBlocks(client.all))
        BY <2>4
      <3> QED
        BY <3>1, <3>2, <1>2, Zenon DEF Limited, Shared, Least
    <2>8. Filled(pane', cp', client', flags)
      <3>1. Allowed(cp', client', flags, p)
        BY <1>1, <1>6, <1>10, <1>16, <2>2, <2>4, <2>5 DEF Allowed
      <3>2. ~x.skipped => pane[p].base <= x.offset /\ x.offset + Size(client.all, p) <= x.queued
        <4>1. CASE cp[p].known
          <5>1. Allowed(cp, client, flags, p) /\ x = cp[p]
            BY <4>1, <1>1, <1>6, <1>10, <1>16 DEF Allowed
          <5> QED
            BY <5>1, <1>12 DEF FilledAt
        <4>2. CASE ~cp[p].known
          <5>1. Blocks(client.all, p) = {}
            BY <4>2, <1>12 DEF FilledAt, Allowed
          <5>2. Size(client.all, p) = 0
            BY <5>1, <1>2, WaitsIs, NothingOf
          <5> QED
            BY <4>2, <5>2, <1>4, <1>6, <2>1
        <4> QED
          BY <4>1, <4>2
      <3>3. Size(client.all, p) \in Nat
        BY <1>2, WaitsIs
      <3>4. ~x.skipped => x.offset + Size(client'.all, p) <= n
        BY ONLY <1>3, <2>1, <2>4, <3>2, <3>3
      <3>5. FilledAt(pane', cp', client', flags, p)
        BY <1>5, <1>8, <2>2, <2>5, <3>1, <3>2, <3>4 DEF FilledAt
      <3>6. ASSUME NEW q \in Panes, q # p PROVE FilledAt(pane', cp', client', flags, q)
        <4>1. FilledAt(pane, cp, client, flags, q) /\ cp[q] \in CpRecord
          BY <1>2 DEF Filled
        <4>2. /\ Blocks(client.all, q) = {} => Blocks(client'.all, q) = {}
              /\ Size(client'.all, q) <= Size(client.all, q)
              /\ client'.lost = client.lost /\ pane'[q].base = pane[q].base /\ cp'[q] = cp[q]
              /\ flags.noOutput = flags.noOutput
          <5>1. Size(client.all, q) \in Nat
            BY <1>2, WaitsIs
          <5> QED
            BY <5>1, <1>8, <2>4, <2>5, <3>6
        <4> QED
          BY ONLY <4>1, <4>2, <1>2, <2>4, q \in Panes, FilledSame
      <3> QED
        BY <3>5, <3>6 DEF Filled
    <2>9. cp'[p].queued <= n
      BY <1>3, <2>2, <2>5
    <2> QED
      BY <1>11, <2>4, <2>5, <2>6, <2>7, <2>8, <2>9
  <1>17. ASSUME ~Ignoring, Blocks(client.all, p) # {}, Aged(p, client, x), UNCHANGED pending
         PROVE  IInv'
    <2>1. /\ Goes(client, client') /\ Blocks(client'.all, p) = {}
          /\ cp' \in [Panes -> CpRecord] /\ \A q \in Panes : q # p => cp'[q] = cp[q]
          /\ cp'[p].queued = x.queued /\ cp'[p].offset = x.offset
          /\ cp'[p].skipped = x.skipped
          /\ cp'[p].paused \/ cp'[p] = x
      BY <1>1, <1>6, <1>10, <1>17, AgedStep
    <2>2. /\ client' \in Clients /\ Sound(client') /\ Watched(pending, client') /\ Limited(client', cb)
          /\ client'.lost = client.lost
          /\ \A q \in Panes : /\ Blocks(client.all, q) = {} => Blocks(client'.all, q) = {}
                              /\ Size(client'.all, q) <= Size(client.all, q)
      BY <1>1, <2>1, GoesStep
    <2>3. Filled(pane', cp', client', flags)
      <3>1. Filled(pane, cp, client, flags)
        BY <1>2
      <3>2. Allowed(cp, client, flags, p) /\ x = cp[p]
        BY <1>6, <1>12, <1>17 DEF FilledAt, Allowed
      <3>3. ~x.skipped => pane[p].base <= x.offset /\ x.offset <= x.queued
        <4>1. ~x.skipped => pane[p].base <= x.offset /\ x.offset + Size(client.all, p) <= x.queued
          BY <3>2, <1>12 DEF FilledAt
        <4>2. Size(client.all, p) \in Nat /\ x.offset \in Nat /\ x.queued \in Nat
          BY <1>2, <1>6, WaitsIs DEF CpRecord
        <4> QED
          BY ONLY <4>1, <4>2
      <3>4. FilledAt(pane', cp', client', flags, p)
        <4>1. /\ ~cp'[p].skipped =>
                   pane'[p].base <= cp'[p].offset /\ cp'[p].offset <= cp'[p].queued
              /\ cp'[p] \in CpRecord
          BY <1>5, <1>8, <2>1, <3>3
        <4> QED
          BY <2>1, <2>2, <4>1, FilledNone
      <3>5. Beside(pane, cp, client, pane', cp', client', p)
        BY <1>8, <2>1, <2>2 DEF Beside
      <3> QED
        BY ONLY <1>2, <2>2, <3>1, <3>4, <3>5, p \in Panes, OneCp
    <2> QED
      BY <1>2, <1>9, <1>11, <1>17, <2>1, <2>2, <2>3
  <1> QED
    BY <1>7, <1>14, <1>15, <1>16, <1>17

-----------------------------------------------------------------------------
(***************************************************************************)
(* The server loop and the end of a client.                                *)
(***************************************************************************)

\* The buffer is not drained past what the client still has to be sent.
LEMMA DrainedTo ==
  ASSUME IInv, NEW p \in Panes, NEW y, y = CheckPaneBuffer(p, pane[p])
  PROVE  /\ y \in PaneRecord /\ y.made = pane[p].made /\ y.base <= y.made
         /\ Allowed(cp, client, flags, p) /\ pane[p].base <= cp[p].offset
              /\ cp[p].offset <= pane[p].made => y.base <= cp[p].offset
PROOF
  <1>1. /\ pane[p] \in PaneRecord /\ pane[p].made \in Nat /\ pane[p].base \in Nat
        /\ cp[p].offset \in Nat /\ pane[p].base <= pane[p].made
    BY PaneIs
  <1>2. CASE ~pane[p].alive
    BY <1>1, <1>2 DEF CheckPaneBuffer
  <1>3. CASE pane[p].alive
    <2> DEFINE n == Needless(p, pane[p])
               r == Others \/ ~Refuses(p)
    <2>1. y = [pane[p] EXCEPT !.base = n, !.reading = r]
      BY <1>3 DEF CheckPaneBuffer
    <2>2. n \in Nat /\ n <= pane[p].made
      BY <1>1 DEF Needless
    <2>3. Allowed(cp, client, flags, p) /\ cp[p].offset <= pane[p].made => n <= cp[p].offset
      BY <1>1 DEF Needless, Holds, On, Attached, Allowed
    <2>4. r \in BOOLEAN
      BY ControlAssumption DEF ControlAssumption
    <2> HIDE DEF n, r
    <2>5. y \in PaneRecord /\ y.made = pane[p].made /\ y.base = n
      BY <1>1, <2>1, <2>2, <2>4 DEF PaneRecord
    <2> QED
      BY <2>2, <2>3, <2>5
  <1> QED
    BY <1>2, <1>3

LEMMA ServerClientLoopOk == IInv /\ ServerClientLoop => IInv'
PROOF
  <1> SUFFICES ASSUME IInv, ServerClientLoop PROVE IInv'
    OBVIOUS
  <1>1. /\ ~cb.on /\ client' = CheckExit(client)
        /\ pane' = [p \in Panes |-> CheckPaneBuffer(p, pane[p])]
        /\ UNCHANGED <<cp, pending, flags, cb>>
    BY DEF ServerClientLoop, Between
  <1>2. /\ Typed /\ client \in Clients /\ Sound(client) /\ Marks(pane, cp)
        /\ Filled(pane, cp, client, flags)
        /\ cp \in [Panes -> CpRecord] /\ Watched(pending, client) /\ Limited(client, cb)
    BY DEF IInv, Typed
  <1>3. /\ client' \in Clients /\ Sound(client') /\ client'.lost = client.lost
        /\ client'.writing = client.writing
        /\ (client.exited => client'.exited) /\ Waits(client') = Waits(client)
        /\ Cardinality(LineBlocks(client'.all))
             <= Larger(Cardinality(LineBlocks(client.all)), MaxReplies - 1)
        /\ \A p \in Panes : /\ Blocks(client.all, p) = {} => Blocks(client'.all, p) = {}
                            /\ Size(client'.all, p) <= Size(client.all, p)
    BY <1>1, <1>2, CheckExitClient
  <1>4. \A p \in Panes : pane'[p] = CheckPaneBuffer(p, pane[p])
    BY <1>1
  <1>5. ASSUME NEW p \in Panes
        PROVE  /\ pane'[p] \in PaneRecord /\ pane'[p].made = pane[p].made
               /\ pane'[p].base <= pane'[p].made
               /\ Allowed(cp, client, flags, p) /\ pane[p].base <= cp[p].offset
                    /\ cp[p].offset <= pane[p].made => pane'[p].base <= cp[p].offset
    BY <1>4, DrainedTo
  <1>6. Typed'
    <2>1. pane' \in [Panes -> PaneRecord]
      BY <1>1, <1>5
    <2> QED
      BY <1>1, <1>2, <1>3, <2>1 DEF Typed
  <1>7. Marks(pane', cp')
    BY <1>1, <1>2, <1>5 DEF Marks
  <1>8. Watched(pending', client')
    BY <1>1, <1>2, <1>3, Zenon DEF Watched
  <1>9. Limited(client', cb')
    <2>1. cb = Idle
      BY <1>1, <1>2 DEF Limited
    <2>2. cb.todo = <<>> /\ cb.message = 0 /\ cb.used = 0
      BY <2>1 DEF Idle
    <2>3. Waits(client') <= Larger(Waits(client), MaxReplies - 1)
      BY <1>2, <1>3, WaitsIs, Sizes DEF Larger
    <2>4. Limited(client', cb)
      BY <1>2, <1>3, <2>1, <2>2, <2>3, LimitedIdle
    <2> QED
      BY <1>1, <2>4
  <1>10. Filled(pane', cp', client', flags')
    <2>1. ASSUME NEW p \in Panes PROVE FilledAt(pane', cp', client', flags', p)
      <3>1. /\ Blocks(client.all, p) # {} => Allowed(cp, client, flags, p)
            /\ Allowed(cp, client, flags, p) /\ ~cp[p].skipped =>
                 /\ pane[p].base <= cp[p].offset
                 /\ cp[p].offset + Size(client.all, p) <= cp[p].queued
        BY <1>2 DEF Filled, FilledAt
      <3>2. Allowed(cp', client', flags', p) <=> Allowed(cp, client, flags, p)
        BY <1>1, <1>3 DEF Allowed
      <3>3. Size(client.all, p) \in Nat /\ Size(client'.all, p) \in Nat
        BY <1>2, <1>3, WaitsIs
      <3>4. Size(client'.all, p) <= Size(client.all, p)
        BY <1>3
      <3>5. /\ cp[p].queued \in Nat /\ cp[p].offset \in Nat /\ cp[p].queued <= pane[p].made
            /\ pane[p].made \in Nat
        BY PaneIs
      <3>6. Allowed(cp, client, flags, p) /\ ~cp[p].skipped =>
              /\ cp[p].offset <= pane[p].made
              /\ cp[p].offset + Size(client'.all, p) <= cp[p].queued
        BY ONLY <3>1, <3>3, <3>4, <3>5
      <3>7. Allowed(cp, client, flags, p) /\ ~cp[p].skipped => pane'[p].base <= cp[p].offset
        BY <1>5, <3>1, <3>6
      <3>8. Blocks(client'.all, p) # {} => Allowed(cp', client', flags', p)
        BY <1>3, <3>1, <3>2
      <3> QED
        BY <1>1, <3>2, <3>6, <3>7, <3>8 DEF FilledAt
    <2> QED
      BY <2>1 DEF Filled
  <1> QED
    BY <1>3, <1>6, <1>7, <1>8, <1>9, <1>10 DEF IInv

\* A client that is gone: what the panes wrote stays.
LEMMA StopOk ==
  ASSUME IInv, Stop, cb' = Idle, flags' = flags, pane' \in [Panes -> PaneRecord],
         \A p \in Panes : pane'[p].made = pane[p].made /\ pane'[p].base = pane[p].base
  PROVE  IInv'
PROOF
  <1>1. /\ client' = [NewClient EXCEPT !.lost = TRUE] /\ cp' = [p \in Panes |-> NoPane]
        /\ pending' = <<>>
    BY DEF Stop
  <1>2. Typed /\ client \in Clients /\ Limited(client, cb)
    BY DEF IInv, Typed
  <1>3. /\ client' \in Clients /\ Sound(client') /\ client'.all = <<>> /\ Waits(client') = 0
    BY <1>1, NewIsSound
  <1>4. \A p \in Panes : Blocks(client'.all, p) = {}
    BY <1>3, EmptyQueue
  <1>5. NoPane \in CpRecord /\ NoPane.queued = 0 /\ ~NoPane.known
    BY DEF NoPane, CpRecord
  <1>6. Typed'
    <2>1. cp' \in [Panes -> CpRecord] /\ pending' \in Seq(Panes)
      BY <1>1, <1>5
    <2>2. cb' \in Callbacks
      BY EmptySeq DEF Callbacks, Idle
    <2> QED
      BY <1>2, <1>3, <2>1, <2>2 DEF Typed
  <1>7. Marks(pane', cp')
    <2>1. ASSUME NEW p \in Panes PROVE cp'[p].queued <= pane'[p].made /\ pane'[p].base <= pane'[p].made
      BY <1>1, <1>5, PaneIs
    <2> QED
      BY <2>1 DEF Marks
  <1>8. Watched(pending', client')
    BY <1>1, <1>4 DEF Watched
  <1>9. Limited(client', cb')
    <2>1. Idle \in Callbacks
      BY EmptySeq DEF Callbacks, Idle
    <2>2. Idle.todo = <<>> /\ Idle.message = 0 /\ Idle.used = 0
      BY DEF Idle
    <2>3. Cardinality(LineBlocks(client'.all)) = 0
      BY <1>3, EmptyQueue
    <2>4. /\ Waits(client') <= Larger(Waits(client), MaxReplies - 1)
          /\ Cardinality(LineBlocks(client'.all))
               <= Larger(Cardinality(LineBlocks(client.all)), MaxReplies - 1)
      <3>1. Waits(client) \in Nat /\ Cardinality(LineBlocks(client.all)) \in Nat
        BY <1>2, WaitsIs
      <3> QED
        BY ONLY <3>1, <1>3, <2>3, Sizes DEF Larger
    <2>5. Limited(client', Idle)
      BY <1>2, <1>3, <2>1, <2>2, <2>4, LimitedIdle
    <2> QED
      BY <2>5
  <1>10. Filled(pane', cp', client', flags')
    BY <1>1, <1>4, <1>5 DEF Filled, FilledAt, Allowed
  <1> QED
    BY <1>3, <1>6, <1>7, <1>8, <1>9, <1>10 DEF IInv

LEMMA ClientLostOk == IInv /\ ClientLost => IInv'
PROOF
  <1> SUFFICES ASSUME IInv, ClientLost PROVE IInv'
    OBVIOUS
  <1>1. ~cb.on /\ Stop /\ UNCHANGED <<pane, flags, cb>>
    BY DEF ClientLost, Between
  <1>2. cb = Idle /\ pane \in [Panes -> PaneRecord]
    BY <1>1 DEF IInv, Limited, Typed
  <1> QED
    BY <1>1, <1>2, StopOk

\* The server ends because a pane's buffer holds too little.
LEMMA NotEnoughOk == ASSUME IInv, NEW p \in Panes, NotEnough(p) PROVE IInv'
PROOF
  <1>1. /\ pane' = [q \in Panes |-> [pane[q] EXCEPT !.alive = FALSE]]
        /\ Stop /\ cb' = Idle /\ flags' = flags
    BY DEF NotEnough
  <1>2. ASSUME NEW q \in Panes
        PROVE  /\ pane'[q] \in PaneRecord
               /\ pane'[q].made = pane[q].made /\ pane'[q].base = pane[q].base
    <2>1. pane[q] \in PaneRecord
      BY PaneIs
    <2>2. pane'[q] = [pane[q] EXCEPT !.alive = FALSE]
      BY <1>1
    <2> QED
      BY ONLY <2>1, <2>2 DEF PaneRecord
  <1>3. pane' \in [Panes -> PaneRecord]
    BY <1>1, <1>2
  <1> QED
    BY <1>1, <1>2, <1>3, StopOk

LEMMA ExitTimerOk == IInv /\ ExitTimer => IInv'
PROOF
  <1> SUFFICES ASSUME IInv, ExitTimer PROVE IInv'
    OBVIOUS
  <1>1. ~cb.on /\ client.timer /\ UNCHANGED <<pane, flags, cb>>
    BY DEF ExitTimer, Between
  <1>2. /\ Typed /\ client \in Clients /\ Sound(client) /\ Marks(pane, cp)
        /\ Filled(pane, cp, client, flags)
        /\ cp \in [Panes -> CpRecord] /\ Watched(pending, client) /\ Limited(client, cb)
    BY DEF IInv, Typed
  \* The client is as it was, or its queue is given up.
  <1>3. ASSUME client' \in Clients, Sound(client'), client'.lost = client.lost,
               client'.exited \/ (client'.exited = client.exited /\ client'.writing = client.writing),
               client'.all = client.all \/ client'.all = <<>>, client'.evb = client.evb,
               UNCHANGED <<cp, pending>>
        PROVE  IInv'
    <2>1. /\ \A p \in Panes : /\ Blocks(client.all, p) = {} => Blocks(client'.all, p) = {}
                              /\ Size(client'.all, p) <= Size(client.all, p)
          /\ Waits(client') <= Larger(Waits(client), MaxReplies - 1)
          /\ Cardinality(LineBlocks(client'.all))
               <= Larger(Cardinality(LineBlocks(client.all)), MaxReplies - 1)
      <3>1. /\ Waits(client) \in Nat /\ Cardinality(LineBlocks(client.all)) \in Nat
            /\ \A p \in Panes : Size(client.all, p) \in Nat
            /\ Waits(client) = client.evb + Cardinality(LineBlocks(client.all))
            /\ client.evb \in Nat
        BY <1>2, WaitsIs DEF Waits
      <3>2. CASE client'.all = client.all
        <4>1. Waits(client') = Waits(client)
          BY <1>3, <3>2 DEF Waits
        <4> QED
          BY <3>1, <3>2, <4>1, Sizes DEF Larger
      <3>3. CASE client'.all = <<>>
        <4>1. \A p \in Panes : Blocks(client'.all, p) = {} /\ Size(client'.all, p) = 0
          BY <1>3, <3>3, EmptyQueue, WaitsIs, NothingOf
        <4>2. Cardinality(LineBlocks(client'.all)) = 0
          BY <3>3, EmptyQueue
        <4>3. Waits(client') = client.evb + 0
          BY <1>3, <4>2 DEF Waits
        <4>4. /\ Waits(client') <= Larger(Waits(client), MaxReplies - 1)
              /\ Cardinality(LineBlocks(client'.all))
                   <= Larger(Cardinality(LineBlocks(client.all)), MaxReplies - 1)
          BY ONLY <3>1, <4>2, <4>3, Sizes DEF Larger
        <4> QED
          BY <3>1, <4>1, <4>4
      <3> QED
        BY <1>3, <3>2, <3>3
    <2>2. Typed'
      BY <1>1, <1>2, <1>3 DEF Typed
    <2>3. Marks(pane', cp')
      BY <1>1, <1>2, <1>3
    <2>4. Watched(pending', client')
      BY <1>2, <1>3, <2>1, Zenon DEF Watched
    <2>5. Limited(client', cb')
      <3>1. cb = Idle
        BY <1>1, <1>2 DEF Limited
      <3>2. cb.todo = <<>> /\ cb.message = 0 /\ cb.used = 0
        BY <3>1 DEF Idle
      <3>3. Limited(client', cb)
        BY <1>2, <1>3, <2>1, <3>1, <3>2, LimitedIdle
      <3> QED
        BY <1>1, <3>3
    <2>6. Filled(pane', cp', client', flags')
      <3>1. ASSUME NEW p \in Panes PROVE FilledAt(pane, cp, client', flags, p)
        <4>1. FilledAt(pane, cp, client, flags, p) /\ cp[p] \in CpRecord
          BY <1>2 DEF Filled
        <4>2. /\ Blocks(client.all, p) = {} => Blocks(client'.all, p) = {}
              /\ Size(client'.all, p) <= Size(client.all, p)
              /\ client'.lost = client.lost /\ pane[p].base = pane[p].base /\ cp[p] = cp[p]
              /\ flags.noOutput = flags.noOutput
          BY <1>3, <2>1
        <4> QED
          BY ONLY <4>1, <4>2, <1>2, <1>3, p \in Panes, FilledSame
      <3> QED
        BY <1>1, <1>3, <3>1 DEF Filled
    <2> QED
      BY <1>3, <2>2, <2>3, <2>4, <2>5, <2>6 DEF IInv
  <1>4. CASE client' = [client EXCEPT !.timer = FALSE] /\ UNCHANGED <<cp, pending>>
    <2>1. /\ client' \in Clients /\ client'.exit = client.exit /\ client'.all = client.all
          /\ client'.told = client.told /\ client'.evb = client.evb
          /\ client'.lines = client.lines /\ client'.writing = client.writing
          /\ client'.discard = client.discard /\ ~client'.timer
          /\ client'.exited = client.exited /\ client'.lost = client.lost
      BY <1>2, <1>4 DEF Clients
    <2>2. Sound(client')
      BY <1>2, <2>1, Zenon DEF Sound, Orderly, Sorted
    <2> QED
      BY <1>3, <1>4, <2>1, <2>2
  <1>5. CASE /\ client' = [client EXCEPT !.all = <<>>, !.writing = FALSE, !.exited = TRUE]
             /\ UNCHANGED <<cp, pending>>
    <2>1. client.exit
      BY <1>1, <1>2 DEF Sound
    <2>2. /\ client' \in Clients /\ Sound(client') /\ client'.exited /\ client'.all = <<>>
          /\ client'.lost = client.lost /\ client'.evb = client.evb
      BY <1>2, <1>5, <2>1, GiveUp
    <2> QED
      BY <1>3, <1>5, <2>2
  <1>6. CASE Stop
    <2>1. cb = Idle /\ pane \in [Panes -> PaneRecord]
      BY <1>1, <1>2 DEF Limited, Typed
    <2> QED
      BY <1>1, <1>6, <2>1, StopOk
  <1> QED
    BY <1>4, <1>5, <1>6 DEF ExitTimer

-----------------------------------------------------------------------------
(***************************************************************************)
(* control_write_callback.                                                 *)
(***************************************************************************)

\* The callback does something with the client and goes on.
LEMMA CallbackStep ==
  ASSUME IInv, Goes(client, client'), cb' \in Callbacks, Limited(client', cb'),
         UNCHANGED <<pane, cp, pending, flags>>
  PROVE  IInv'
PROOF
  <1>1. /\ Typed /\ client \in Clients /\ Watched(pending, client) /\ Marks(pane, cp)
        /\ Filled(pane, cp, client, flags)
        /\ cp \in [Panes -> CpRecord]
    BY DEF IInv, Typed
  <1>2. client' \in Clients /\ Sound(client') /\ Follows(client, client')
    BY Zenon DEF Goes
  <1>3. Typed'
    BY <1>1, <1>2 DEF Typed
  <1>4. Watched(pending, client')
    BY <1>1, <1>2, WatchedGoes
  <1>5. Filled(pane, cp, client', flags)
    BY <1>1, FilledGoes
  <1>6. /\ Watched(pending', client') /\ Marks(pane', cp')
        /\ Filled(pane', cp', client', flags')
    BY <1>1, <1>4, <1>5
  <1> QED
    BY <1>2, <1>3, <1>6 DEF IInv

LEMMA WritableOk == ASSUME IInv, NEW n \in 0..client.evb, Writable(n) PROVE IInv'
PROOF
  <1> DEFINE c == [client EXCEPT !.evb = client.evb - n]
             on == [Idle EXCEPT !.on = TRUE]
  <1>1. /\ ~cb.on
        /\ (client' = Flush(c) /\ cb' = on) \/ (client' = c /\ cb' = cb)
        /\ UNCHANGED <<pane, cp, pending, flags>>
    BY DEF Writable, Between
  <1>2. client \in Clients /\ Sound(client) /\ Limited(client, cb) /\ cb \in Callbacks
    BY DEF IInv, Typed
  <1>3. n \in Nat /\ n <= client.evb
    <2>1. client.evb \in Nat
      BY <1>2, WaitsIs
    <2> QED
      BY <2>1
  <1>4. Goes(client, c)
    BY <1>2, <1>3, ReadGoes
  <1> HIDE DEF c
  <1>5. CASE client' = c /\ cb' = cb
    <2>1. Goes(client, client')
      BY <1>4, <1>5
    <2> QED
      BY <1>1, <1>5, <2>1, PlainStep
  <1>6. CASE client' = Flush(c) /\ cb' = on
    <2>1. c \in Clients /\ Sound(c)
      BY <1>4 DEF Goes
    <2>2. Goes(c, client')
      BY <1>6, <2>1, FlushGoes
    <2>3. Goes(client, client')
      BY <1>2, <1>4, <2>2, GoesOn
    <2>4. on \in Callbacks /\ on.on /\ on.todo = <<>> /\ on.message = 0 /\ on.used = 0
      <3>1. /\ Idle \in Callbacks /\ Idle.todo = <<>> /\ Idle.message = 0 /\ Idle.used = 0
        BY EmptySeq DEF Callbacks, Idle
      <3> QED
        BY <3>1 DEF Callbacks
    <2> HIDE DEF on
    <2>5. /\ client' \in Clients
          /\ Cardinality(LineBlocks(client'.all))
               <= Larger(Cardinality(LineBlocks(client.all)), MaxReplies - 1)
          /\ Waits(client') <= Larger(Waits(client), MaxReplies - 1)
      BY <2>3, Zenon DEF Goes, Follows
    <2>6. Limited(client', on)
      BY <1>2, <2>4, <2>5, LimitedIdle
    <2> QED
      BY <1>1, <1>6, <2>3, <2>4, <2>6, CallbackStep
  <1> QED
    BY <1>1, <1>5, <1>6

LEMMA PassOk == IInv /\ Pass => IInv'
PROOF
  <1> SUFFICES ASSUME IInv, Pass PROVE IInv'
    OBVIOUS
  <1>1. /\ cb.on /\ cb.todo = <<>> /\ pending # <<>> /\ client.evb < High
        /\ cb' = [cb EXCEPT !.todo = pending, !.used = 0, !.message = 0,
                    !.limit = Larger(Minimum, (High - client.evb) \div Len(pending))]
        /\ UNCHANGED <<pane, cp, pending, client, flags>>
    BY DEF Pass
  <1>2. /\ client \in Clients /\ Sound(client) /\ Limited(client, cb) /\ cb \in Callbacks
        /\ pending \in Seq(Panes)
    BY DEF IInv, Typed
  <1>3. cb' \in Callbacks /\ Limited(client, cb')
    BY <1>1, <1>2, LimitedPass
  <1>4. Goes(client, client') /\ client' = client
    BY <1>1, <1>2, FollowsItself DEF Goes
  <1> QED
    BY <1>1, <1>3, <1>4, CallbackStep

LEMMA FullOk == IInv /\ Full => IInv'
PROOF
  <1> SUFFICES ASSUME IInv, Full PROVE IInv'
    OBVIOUS
  <1>1. /\ cb.on /\ cb.used = 0 /\ cb' = [cb EXCEPT !.todo = <<>>]
        /\ UNCHANGED <<pane, cp, pending, client, flags>>
    BY DEF Full
  <1>2. client \in Clients /\ Sound(client) /\ Limited(client, cb) /\ cb \in Callbacks
    BY DEF IInv, Typed
  <1>3. cb.message \in Nat /\ cb.message <= cb.used
    BY <1>2 DEF Limited, Callbacks
  <1>4. /\ cb' \in Callbacks /\ cb'.on /\ cb'.todo = <<>> /\ cb'.used = cb.used
        /\ cb'.message = cb.message
    BY <1>1, <1>2, EmptySeq DEF Callbacks
  <1>5. cb'.message = 0 /\ cb'.used = 0
    BY <1>1, <1>3, <1>4
  <1>6. Goes(client, client') /\ client' = client
    BY <1>1, <1>2, FollowsItself DEF Goes
  <1>7. Limited(client', cb')
    <2>1. /\ client' \in Clients
          /\ Cardinality(LineBlocks(client'.all))
               <= Larger(Cardinality(LineBlocks(client.all)), MaxReplies - 1)
          /\ Waits(client') <= Larger(Waits(client), MaxReplies - 1)
      BY <1>6, Zenon DEF Goes, Follows
    <2> QED
      BY <1>2, <1>4, <1>5, <2>1, LimitedIdle
  <1> QED
    BY <1>1, <1>4, <1>6, <1>7, CallbackStep

\* The callback ends: the descriptor is watched as long as there is something to
\* write, and there is when output is left.
LEMMA CallbackDoneOk == IInv /\ CallbackDone => IInv'
PROOF
  <1> SUFFICES ASSUME IInv, CallbackDone PROVE IInv'
    OBVIOUS
  <1> DEFINE more == client.evb > 0
  <1>1. /\ pending = <<>> \/ client.evb >= High
        /\ client' = [client EXCEPT !.writing = more] /\ cb' = Idle
        /\ UNCHANGED <<pane, cp, pending, flags>>
    BY DEF CallbackDone
  <1>2. /\ Typed /\ client \in Clients /\ Sound(client) /\ Marks(pane, cp)
        /\ Filled(pane, cp, client, flags)
        /\ cp \in [Panes -> CpRecord] /\ Watched(pending, client) /\ Limited(client, cb)
    BY DEF IInv, Typed
  <1>3. pending # <<>> => more
    <2>1. client.evb \in Nat
      BY <1>2, WaitsIs
    <2>2. client.evb >= High => more
      BY <2>1, Sizes
    <2> HIDE DEF more
    <2> QED
      BY <1>1, <2>2
  <1>4. more \in BOOLEAN
    OBVIOUS
  <1> HIDE DEF more
  <1>5. /\ client' \in Clients /\ client'.exit = client.exit /\ client'.all = client.all
        /\ client'.told = client.told /\ client'.evb = client.evb
        /\ client'.lines = client.lines /\ client'.writing = more
        /\ client'.discard = client.discard /\ client'.timer = client.timer
        /\ client'.exited = client.exited /\ client'.lost = client.lost
    BY <1>1, <1>2, <1>4 DEF Clients
  <1>6. Sound(client')
    BY <1>2, <1>5, Zenon DEF Sound, Orderly, Sorted
  <1>7. Idle \in Callbacks /\ Idle.todo = <<>> /\ Idle.message = 0 /\ Idle.used = 0
    BY EmptySeq DEF Callbacks, Idle
  <1>8. Typed'
    BY <1>1, <1>2, <1>5, <1>7 DEF Typed
  <1>9. Watched(pending', client')
    BY <1>1, <1>2, <1>3, <1>5, Zenon DEF Watched
  <1>10. Limited(client', cb')
    <2>1. Waits(client') = Waits(client)
      BY <1>5 DEF Waits
    <2>2. /\ Waits(client') <= Larger(Waits(client), MaxReplies - 1)
          /\ Cardinality(LineBlocks(client'.all))
               <= Larger(Cardinality(LineBlocks(client.all)), MaxReplies - 1)
      <3>1. Waits(client) \in Nat /\ Cardinality(LineBlocks(client.all)) \in Nat
        BY <1>2, WaitsIs
      <3> QED
        BY <3>1, <2>1, <1>5, Sizes DEF Larger
    <2>3. Limited(client', Idle)
      BY <1>2, <1>5, <1>7, <2>2, LimitedIdle
    <2> QED
      BY <1>1, <2>3
  <1>11. Filled(pane', cp', client', flags')
    BY <1>1, <1>2, <1>5 DEF Filled, FilledAt, Allowed
  <1>12. Marks(pane', cp')
    BY <1>1, <1>2
  <1> QED
    BY <1>6, <1>8, <1>9, <1>10, <1>11, <1>12 DEF IInv

\* The turn of a pane ends; what was made of its blocks is written, or lost.
LEMMA TurnEnds ==
  ASSUME IInv, cb.on, cb.todo # <<>>, NEW d \in Clients,
         Cardinality(LineBlocks(d.all)) <= Larger(Cardinality(LineBlocks(client.all)), MaxReplies - 1),
         Waits(d) <= Larger(Waits(client), MaxReplies - 1) \/ Waits(d) = Waits(client) + cb.message
  PROVE  NextTurn \in Callbacks /\ Limited(d, NextTurn)
PROOF
  <1>1. client \in Clients /\ Limited(client, cb) /\ cb \in Callbacks
    BY DEF IInv, Typed
  <1>2. /\ Waits(client) \in Nat /\ Cardinality(LineBlocks(client.all)) \in Nat
        /\ Waits(d) \in Nat /\ Cardinality(LineBlocks(d.all)) \in Nat
    BY <1>1, WaitsIs
  <1>3. cb.message \in Nat
    BY <1>1 DEF Callbacks
  <1>4. Cardinality(LineBlocks(client.all)) <= MaxReplies - 1
    BY <1>1, Zenon DEF Limited
  <1>5. Cardinality(LineBlocks(d.all)) <= MaxReplies - 1
    BY <1>2, <1>4, Sizes DEF Larger
  <1>6. Waits(d) <= Larger(Waits(client) + cb.message, MaxReplies - 1)
    BY <1>2, <1>3, Sizes DEF Larger
  <1> DEFINE e == [cb EXCEPT !.todo = Tail(cb.todo), !.used = 0, !.message = 0]
  <1>7. NextTurn = e
    BY DEF NextTurn
  <1>8. e \in Callbacks /\ Limited(d, e)
    BY <1>1, <1>5, <1>6, LimitedNext
  <1> QED
    BY <1>7, <1>8

\* ... and it is not in the list any more.
LEMMA LeavesList ==
  ASSUME IInv, NEW p \in Panes, NEW d, d.exited = client.exited, d.lost = client.lost,
         client.writing => d.writing,
         \A q \in Panes : Blocks(client.all, q) = {} => Blocks(d.all, q) = {},
         Blocks(d.all, p) = {}
  PROVE  NoLonger(p) \in Seq(Panes) /\ Watched(NoLonger(p), d)
PROOF
  <1>1. pending \in Seq(Panes) /\ Watched(pending, client)
    BY DEF IInv, Typed
  <1> DEFINE w == Only(pending, {i \in DOMAIN pending : pending[i] # p})
  <1>2. NoLonger(p) = w
    BY DEF NoLonger
  <1>3. w \in Seq(Panes) /\ Watched(w, d)
    BY <1>1, WatchedWithout
  <1> QED
    BY <1>2, <1>3

LEMMA PaneGoneOk == ASSUME IInv, NEW p \in Panes, PaneGone(p) PROVE IInv'
PROOF
  <1> DEFINE c == Discard(client, {p})
  <1>1. /\ cb.on /\ cb.todo # <<>> /\ client' = Flush(c) /\ pending' = NoLonger(p) /\ cb' = NextTurn
        /\ UNCHANGED <<pane, cp, flags>>
    BY DEF PaneGone, Turn
  <1>2. /\ Typed /\ client \in Clients /\ Sound(client) /\ Marks(pane, cp)
        /\ Filled(pane, cp, client, flags)
        /\ cp \in [Panes -> CpRecord]
    BY DEF IInv, Typed
  <1>3. {p} \in SUBSET Panes /\ p \in {p}
    OBVIOUS
  <1>4. Goes(client, c) /\ Blocks(c.all, p) = {}
    BY <1>2, <1>3, DiscardGoes
  <1> HIDE DEF c
  <1>5. c \in Clients /\ Sound(c)
    BY <1>4 DEF Goes
  <1>6. Goes(c, client')
    BY <1>1, <1>5, FlushGoes
  <1>7. Goes(client, client')
    BY <1>2, <1>4, <1>6, GoesOn
  <1>8. Blocks(client'.all, p) = {}
    BY <1>4, <1>6 DEF Goes, Follows
  <1>9. /\ client' \in Clients /\ Sound(client')
        /\ client'.exited = client.exited /\ client'.lost = client.lost
        /\ client.writing => client'.writing
        /\ \A q \in Panes : Blocks(client.all, q) = {} => Blocks(client'.all, q) = {}
        /\ Cardinality(LineBlocks(client'.all))
             <= Larger(Cardinality(LineBlocks(client.all)), MaxReplies - 1)
        /\ Waits(client') <= Larger(Waits(client), MaxReplies - 1)
    BY <1>7, Zenon DEF Goes, Follows
  <1>10. cb' \in Callbacks /\ Limited(client', cb')
    BY <1>1, <1>9, TurnEnds
  <1>11. pending' \in Seq(Panes) /\ Watched(pending', client')
    BY <1>1, <1>8, <1>9, LeavesList
  <1>12. Typed'
    BY <1>1, <1>2, <1>9, <1>10, <1>11 DEF Typed
  <1>13. Filled(pane, cp, client', flags)
    BY <1>2, <1>7, FilledGoes
  <1>14. Marks(pane', cp') /\ Filled(pane', cp', client', flags')
    BY <1>1, <1>2, <1>13
  <1> QED
    BY <1>9, <1>10, <1>11, <1>12, <1>14 DEF IInv

LEMMA PaneDoneOk == ASSUME IInv, NEW p \in Panes, PaneDone(p) PROVE IInv'
PROOF
  <1>1. /\ cb.on /\ cb.todo # <<>> /\ client' = [client EXCEPT !.evb = client.evb + cb.message]
        /\ pending' = IF Blocks(client.all, p) = {} THEN NoLonger(p) ELSE pending
        /\ cb' = NextTurn /\ UNCHANGED <<pane, cp, flags>>
    BY DEF PaneDone, Turn
  <1>2. /\ Typed /\ client \in Clients /\ Sound(client) /\ Marks(pane, cp) /\ cb \in Callbacks
        /\ Filled(pane, cp, client, flags)
        /\ Watched(pending, client) /\ pending \in Seq(Panes)
    BY DEF IInv, Typed
  <1>3. cb.message \in Nat
    BY <1>2 DEF Callbacks
  <1>4. /\ client' \in Clients /\ Sound(client') /\ Waits(client') = Waits(client) + cb.message
        /\ client'.all = client.all /\ client'.writing = client.writing
        /\ client'.exited = client.exited /\ client'.lost = client.lost
    BY <1>1, <1>2, <1>3, MoreGoes
  <1>5. cb' \in Callbacks /\ Limited(client', cb')
    <2>1. Cardinality(LineBlocks(client'.all))
            <= Larger(Cardinality(LineBlocks(client.all)), MaxReplies - 1)
      <3>1. Cardinality(LineBlocks(client.all)) \in Nat
        BY <1>2, WaitsIs
      <3> QED
        BY <3>1, <1>4, Sizes DEF Larger
    <2> QED
      BY <1>1, <1>4, <2>1, TurnEnds
  <1>6. pending' \in Seq(Panes) /\ Watched(pending', client')
    <2>1. CASE Blocks(client.all, p) = {}
      <3>1. /\ Blocks(client'.all, p) = {}
            /\ \A q \in Panes : Blocks(client.all, q) = {} => Blocks(client'.all, q) = {}
        BY <1>4, <2>1
      <3>2. NoLonger(p) \in Seq(Panes) /\ Watched(NoLonger(p), client')
        BY <1>4, <3>1, LeavesList
      <3> QED
        BY <1>1, <2>1, <3>2
    <2>2. CASE Blocks(client.all, p) # {}
      <3>1. Watched(pending, client')
        BY <1>2, <1>4, Zenon DEF Watched
      <3> QED
        BY <1>1, <1>2, <2>2, <3>1
    <2> QED
      BY <2>1, <2>2
  <1>7. Typed'
    BY <1>1, <1>2, <1>4, <1>5, <1>6 DEF Typed
  <1>8. Marks(pane', cp') /\ Filled(pane', cp', client', flags')
    BY <1>1, <1>2, <1>4 DEF Filled, FilledAt, Allowed
  <1> QED
    BY <1>4, <1>5, <1>6, <1>7, <1>8 DEF IInv

LEMMA WriteAgedOk == ASSUME IInv, NEW p \in Panes, WriteAged(p) PROVE IInv'
PROOF
  <1>1. /\ cb.on /\ cb.todo # <<>> /\ Blocks(client.all, p) # {} /\ Aged(p, client, cp[p])
        /\ pending' = NoLonger(p) /\ cb' = NextTurn /\ UNCHANGED <<pane, flags>>
    BY DEF WriteAged, HasMore, Turn
  <1>2. /\ Typed /\ client \in Clients /\ Sound(client) /\ Marks(pane, cp)
        /\ Filled(pane, cp, client, flags)
        /\ cp \in [Panes -> CpRecord]
    BY DEF IInv, Typed
  <1>3. ~client.exited /\ ~client.lost
    <2>1. client.all # <<>>
      BY <1>1, EmptyQueue
    <2> QED
      BY <1>2, <2>1 DEF Sound
  <1>4. cp[p] \in CpRecord
    BY <1>2
  <1>5. /\ Goes(client, client') /\ Blocks(client'.all, p) = {}
        /\ cp' \in [Panes -> CpRecord] /\ \A q \in Panes : q # p => cp'[q] = cp[q]
        /\ cp'[p].queued = cp[p].queued /\ cp'[p].offset = cp[p].offset
        /\ cp'[p].skipped = cp[p].skipped
        /\ cp'[p].paused \/ cp'[p] = cp[p]
    BY <1>1, <1>3, <1>4, AgedStep
  <1>6. /\ client' \in Clients /\ Sound(client')
        /\ client'.exited = client.exited /\ client'.lost = client.lost
        /\ client.writing => client'.writing
        /\ \A q \in Panes : /\ Blocks(client.all, q) = {} => Blocks(client'.all, q) = {}
                            /\ Size(client'.all, q) <= Size(client.all, q)
        /\ Cardinality(LineBlocks(client'.all))
             <= Larger(Cardinality(LineBlocks(client.all)), MaxReplies - 1)
        /\ Waits(client') <= Larger(Waits(client), MaxReplies - 1)
    BY <1>5, Zenon DEF Goes, Follows
  <1>7. cb' \in Callbacks /\ Limited(client', cb')
    BY <1>1, <1>6, TurnEnds
  <1>8. pending' \in Seq(Panes) /\ Watched(pending', client')
    BY <1>1, <1>5, <1>6, LeavesList
  <1>9. Typed'
    BY <1>1, <1>2, <1>5, <1>6, <1>7, <1>8 DEF Typed
  <1>10. Marks(pane', cp')
    BY <1>1, <1>2, <1>5 DEF Marks
  <1>11. Filled(pane', cp', client', flags')
    <2>1. Filled(pane, cp, client, flags)
      BY <1>2
    <2>2. Allowed(cp', client', flags, p) /\ ~cp'[p].skipped =>
            pane[p].base <= cp'[p].offset /\ cp'[p].offset <= cp'[p].queued
      <3>1. Allowed(cp', client', flags, p) => Allowed(cp, client, flags, p)
        BY <1>5, <1>6 DEF Allowed
      <3>2. Allowed(cp, client, flags, p) /\ ~cp[p].skipped =>
              /\ pane[p].base <= cp[p].offset
              /\ cp[p].offset + Size(client.all, p) <= cp[p].queued
        BY <2>1 DEF Filled, FilledAt
      <3>3. Size(client.all, p) \in Nat /\ cp[p].offset \in Nat /\ cp[p].queued \in Nat
        BY <1>2, WaitsIs, PaneIs
      <3>4. cp[p].offset + Size(client.all, p) <= cp[p].queued => cp[p].offset <= cp[p].queued
        BY <3>3
      <3> QED
        BY <3>1, <3>2, <3>4, <1>5
    <2>3. FilledAt(pane, cp', client', flags, p)
      BY <1>5, <1>6, <2>2, FilledNone
    <2>4. Beside(pane, cp, client, pane, cp', client', p)
      BY <1>5, <1>6 DEF Beside
    <2>5. Filled(pane, cp', client', flags)
      BY ONLY <1>2, <1>6, <2>1, <2>3, <2>4, p \in Panes, OneCp
    <2> QED
      BY <1>1, <2>5
  <1> QED
    BY <1>6, <1>7, <1>8, <1>9, <1>10, <1>11 DEF IInv

\* A block is written, or as much of it as there is room for.
LEMMA WriteBlockOk == ASSUME IInv, NEW p \in Panes, WriteBlock(p) PROVE IInv'
PROOF
  <1> DEFINE i == Nth(Blocks(client.all, p), 1)
             n == Smaller(client.all[i].size, cb.limit - cb.used)
             rest == client.all[i].size - n
             t == IF rest = 0 THEN Only(client.all, DOMAIN client.all \ {i})
                  ELSE [client.all EXCEPT ![i].size = rest]
             c == [client EXCEPT !.all = t]
             lines == rest = 0 /\ c.all # <<>> /\ ~IsOutput(Head(c.all))
             w == [c EXCEPT !.evb = c.evb + cb.message + n]
             y == [cp[p] EXCEPT !.offset = cp[p].offset + n]
             e == [cb EXCEPT !.used = cb.used + n, !.message = IF lines THEN 0 ELSE cb.message + n]
  <1>1. /\ cb.on /\ cb.todo # <<>>
        /\ cb.used > 0 \/ client.evb < High
        /\ Blocks(client.all, p) # {} /\ cb.used < cb.limit
        /\ cp' = [cp EXCEPT ![p] = y]
        /\ client' = IF lines THEN Flush(w) ELSE c
        /\ cb' = e /\ UNCHANGED <<pane, pending, flags>>
    BY DEF WriteBlock, HasMore, Turn, Portion, FirstBlock
  <1>2. /\ Typed /\ client \in Clients /\ Sound(client) /\ Marks(pane, cp)
        /\ Filled(pane, cp, client, flags)
        /\ cb \in Callbacks /\ cp \in [Panes -> CpRecord] /\ Watched(pending, client) /\ Limited(client, cb)
        /\ pending \in Seq(Panes)
    BY DEF IInv, Typed
  <1>3. cb.used \in Nat /\ cb.limit \in Nat /\ cb.message \in Nat
    <2>1. cb \in Callbacks
      BY <1>2
    <2> QED
      BY ONLY <2>1 DEF Callbacks
  <1>4. client.all[i].size \in Nat
    <2>1. client.all \in Seq(Entry)
      BY <1>2 DEF Clients
    <2>2. /\ Len(client.all) \in Nat /\ Blocks(client.all, p) \in SUBSET (1..Len(client.all))
          /\ \A k \in Blocks(client.all, p) : client.all[k].size \in Nat
      BY <2>1, Queue, QueueOf
    <2>3. i \in Blocks(client.all, p)
      BY <1>1, <2>2, FirstPlace
    <2> QED
      BY <2>2, <2>3
  <1>5. n \in Nat /\ n <= client.all[i].size /\ n <= cb.limit - cb.used
    BY <1>1, <1>3, <1>4 DEF Smaller
  <1>6. i = Nth(Blocks(client.all, p), 1)
    OBVIOUS
  <1> HIDE DEF i, n
  <1>7. /\ c \in Clients /\ Sound(c) /\ Waits(c) = Waits(client) /\ c.evb = client.evb
        /\ c.writing = client.writing /\ c.exited = client.exited /\ c.lost = client.lost
        /\ Cardinality(LineBlocks(c.all)) = Cardinality(LineBlocks(client.all))
        /\ \A q \in Panes : q # p => Size(c.all, q) = Size(client.all, q)
        /\ \A q \in Panes : Blocks(client.all, q) = {} => Blocks(c.all, q) = {}
        /\ Size(c.all, p) = Size(client.all, p) - n
    <2>1. client \in Clients /\ Sound(client) /\ Blocks(client.all, p) # {}
      BY <1>1, <1>2
    <2> QED
      <3>1. Shortened(client, p, i, n, t, c)
        BY <1>5, <1>6 DEF rest, t, c, Shortened
      <3>2. n \in Nat
        BY <1>5
      <3>3. Lessened(client, p, n, c)
        BY ONLY <2>1, <3>1, <3>2, p \in Panes, BlockSent
      <3> QED
        BY ONLY <3>3 DEF Lessened
  <1>8. lines \in BOOLEAN
    OBVIOUS
  <1> HIDE DEF c, t, rest, lines
  <1>9. /\ client' \in Clients /\ Sound(client')
        /\ Waits(client') = Waits(client) + (IF lines THEN cb.message + n ELSE 0)
        /\ client.writing => client'.writing
        /\ client'.exited = client.exited /\ client'.lost = client.lost
        /\ Cardinality(LineBlocks(client'.all)) <= MaxReplies - 1
        /\ \A q \in Panes : Size(client'.all, q) <= Size(c.all, q)
        /\ \A q \in Panes : Blocks(client.all, q) = {} => Blocks(client'.all, q) = {}
    <2>1. /\ Waits(c) \in Nat /\ Cardinality(LineBlocks(c.all)) \in Nat /\ c.evb \in Nat
          /\ \A q \in Panes : Size(c.all, q) \in Nat
      BY <1>7, WaitsIs
    <2>2. Cardinality(LineBlocks(client.all)) <= MaxReplies - 1
      BY <1>2 DEF Limited
    <2>3. CASE ~lines
      <3>1. client' = c
        BY <1>1, <2>3
      <3>2. Waits(client') = Waits(client) + (IF lines THEN cb.message + n ELSE 0)
        BY <2>1, <2>3, <3>1, <1>7
      <3>3. \A q \in Panes : Size(client'.all, q) <= Size(c.all, q)
        BY <2>1, <3>1
      <3> QED
        BY <1>7, <2>2, <3>1, <3>2, <3>3
    <2>4. CASE lines
      <3> DEFINE m == cb.message + n
                 v == [c EXCEPT !.evb = c.evb + m]
      <3>1. w = v /\ m \in Nat
        <4>1. c.evb + cb.message + n = c.evb + m /\ m \in Nat
          BY <2>1, <1>3, <1>5
        <4> QED
          BY <4>1
      <3> HIDE DEF m, w
      <3>2. /\ v \in Clients /\ Sound(v) /\ Waits(v) = Waits(c) + m /\ v.all = c.all
            /\ v.writing = c.writing /\ v.exited = c.exited /\ v.lost = c.lost
        BY <1>7, <3>1, MoreGoes
      <3> HIDE DEF v
      <3>3. client' = Flush(v)
        BY <1>1, <2>4, <3>1
      <3>4. Goes(v, client') /\ Waits(client') = Waits(v)
        BY <3>2, <3>3, FlushGoes
      <3>5. /\ client' \in Clients /\ Sound(client')
            /\ client'.exited = v.exited /\ client'.lost = v.lost /\ (v.writing => client'.writing)
            /\ \A q \in Panes : /\ Blocks(v.all, q) = {} => Blocks(client'.all, q) = {}
                                /\ Size(client'.all, q) <= Size(v.all, q)
            /\ Cardinality(LineBlocks(client'.all))
                 <= Larger(Cardinality(LineBlocks(v.all)), MaxReplies - 1)
        BY <3>4, Zenon DEF Goes, Follows
      <3>6. Cardinality(LineBlocks(client'.all)) <= MaxReplies - 1
        <4>1. Cardinality(LineBlocks(v.all)) = Cardinality(LineBlocks(client.all))
          BY <3>2, <1>7
        <4>2. Larger(Cardinality(LineBlocks(v.all)), MaxReplies - 1) = MaxReplies - 1
          BY <4>1, <2>1, <2>2, <1>7, Sizes DEF Larger
        <4> QED
          BY <3>5, <4>2
      <3>7. Waits(client') = Waits(client) + (IF lines THEN cb.message + n ELSE 0)
        BY <3>2, <3>4, <1>7, <2>4 DEF m
      <3> QED
        BY <3>2, <3>5, <3>6, <3>7, <1>7
    <2> QED
      BY <2>3, <2>4
  <1>10. cb' \in Callbacks /\ Limited(client', cb')
    <2>1. n <= cb.limit - cb.used /\ n \in Nat
      BY <1>5
    <2>2. cb.used > 0 \/ client.evb < High
      BY <1>1
    <2>3. e \in Callbacks /\ Limited(client', e)
      <3>1. /\ client \in Clients /\ client' \in Clients /\ cb \in Callbacks /\ Limited(client, cb)
            /\ cb.on /\ cb.todo # <<>> /\ Cardinality(LineBlocks(client'.all)) <= MaxReplies - 1
            /\ Waits(client') = Waits(client) + (IF lines THEN cb.message + n ELSE 0)
        <4>1. cb.on /\ cb.todo # <<>>
          BY <1>1
        <4>2. /\ client \in Clients /\ cb \in Callbacks /\ Limited(client, cb)
          BY <1>2
        <4> QED
          BY ONLY <4>1, <4>2, <1>9
      <3> QED
        BY ONLY <3>1, <1>8, <2>1, <2>2, LimitedMore DEF e
    <2> QED
      BY <1>1, <2>3
  <1>11. y \in CpRecord /\ y.offset = cp[p].offset + n /\ y.queued = cp[p].queued
         /\ y.known = cp[p].known /\ y.off = cp[p].off /\ y.paused = cp[p].paused
         /\ y.skipped = cp[p].skipped
    <2>1. cp[p] \in CpRecord /\ cp[p].offset + n \in Nat
      BY <1>5, PaneIs
    <2> QED
      BY <2>1 DEF CpRecord
  <1> HIDE DEF y
  <1>12. cp' \in [Panes -> CpRecord] /\ cp'[p] = y /\ \A q \in Panes : q # p => cp'[q] = cp[q]
    BY <1>1, <1>2, <1>11
  <1>13. Typed'
    BY <1>1, <1>2, <1>9, <1>10, <1>12 DEF Typed
  <1>14. Marks(pane', cp')
    BY <1>1, <1>2, <1>11, <1>12 DEF Marks
  <1>15. Watched(pending', client')
    BY <1>1, <1>2, <1>9, Zenon DEF Watched
  <1>16. Filled(pane', cp', client', flags')
    <2>1. Filled(pane, cp, client, flags)
      BY <1>2
    <2>2. /\ Size(client.all, p) \in Nat /\ Size(c.all, p) \in Nat /\ Size(client'.all, p) \in Nat
          /\ cp[p].offset \in Nat /\ cp[p].queued \in Nat /\ pane[p].base \in Nat
      BY <1>2, <1>7, <1>9, WaitsIs, PaneIs
    <2>3. /\ Allowed(cp, client, flags, p)
          /\ ~cp[p].skipped => /\ pane[p].base <= cp[p].offset
                               /\ cp[p].offset + Size(client.all, p) <= cp[p].queued
      BY <1>1, <2>1 DEF Filled, FilledAt
    <2>4. Size(client'.all, p) <= Size(c.all, p) /\ Size(c.all, p) = Size(client.all, p) - n
      BY <1>7, <1>9
    <2>5. ~cp[p].skipped =>
          /\ pane[p].base <= cp[p].offset + n
          /\ cp[p].offset + n + Size(client'.all, p) <= cp[p].queued
      BY ONLY <2>2, <2>3, <2>4, <1>5
    <2>6. Allowed(cp', client', flags, p)
      BY <1>9, <1>11, <1>12, <2>3 DEF Allowed
    <2>7. FilledAt(pane, cp', client', flags, p)
      <3>1. ~cp'[p].skipped =>
            /\ pane[p].base <= cp'[p].offset
            /\ cp'[p].offset + Size(client'.all, p) <= cp'[p].queued
        BY ONLY <2>5, <1>11, <1>12
      <3> QED
        BY <2>6, <3>1, Zenon DEF FilledAt
    <2>8. ASSUME NEW q \in Panes, q # p PROVE FilledAt(pane, cp', client', flags, q)
      <3>1. FilledAt(pane, cp, client, flags, q) /\ cp[q] \in CpRecord
        BY <1>2, <2>1 DEF Filled
      <3>2. Size(client'.all, q) <= Size(client.all, q)
        BY <1>7, <1>9, <2>8
      <3>3. /\ Blocks(client.all, q) = {} => Blocks(client'.all, q) = {}
            /\ client'.lost = client.lost /\ pane[q].base = pane[q].base /\ cp'[q] = cp[q]
            /\ flags.noOutput = flags.noOutput
        BY <1>9, <1>12, <2>8
      <3> QED
        BY ONLY <1>2, <1>9, <2>8, <3>1, <3>2, <3>3, FilledSame
    <2> QED
      BY <1>1, <2>7, <2>8 DEF Filled
  <1> QED
    BY <1>9, <1>10, <1>13, <1>14, <1>15, <1>16 DEF IInv

-----------------------------------------------------------------------------
(***************************************************************************)
(* Every step keeps the invariant.                                         *)
(***************************************************************************)
LEMMA StepKeeps == IInv /\ [Next]_vars => IInv'
PROOF
  <1> SUFFICES ASSUME IInv, [Next]_vars PROVE IInv'
    OBVIOUS
  <1>1. CASE WriteCallback
    BY <1>1, PassOk, FullOk, CallbackDoneOk, PaneGoneOk, WriteAgedOk, NotEnoughOk,
       WriteBlockOk, PaneDoneOk
    DEF WriteCallback
  <1>2. CASE ClientReads
    BY <1>2, WritableOk DEF ClientReads
  <1>3. CASE Requests
    BY <1>3, CommandOk, SetPaneOnOk, SetPaneOffOk, ContinuePaneOk, PausePaneOk, SetNoOutputOk,
       SuspendOk, ExitOk
    DEF Requests
  <1>4. CASE PaneSteps
    BY <1>4, PaneOutputOk, PaneEndsOk, RespawnOk, MoveOk DEF PaneSteps
  <1>5. CASE ServerClientLoop
    BY <1>5, ServerClientLoopOk
  <1>6. CASE ExitTimer
    BY <1>6, ExitTimerOk
  <1>7. CASE ClientLost
    BY <1>7, ClientLostOk
  <1>8. CASE UNCHANGED vars
    BY <1>8 DEF vars, IInv, Typed, Marks, Sound, Watched, Limited, Shared, Least, Filled, FilledAt,
       Allowed, Waits
  <1> QED
    BY <1>1, <1>2, <1>3, <1>4, <1>5, <1>6, <1>7, <1>8 DEF Next

\* The invariant holds in every reachable state.
THEOREM OutputInvariance == Spec => []IInv
PROOF
  <1>1. Init => IInv
    BY FirstState
  <1>2. IInv /\ [Next]_vars => IInv'
    BY StepKeeps
  <1> QED
    BY <1>1, <1>2, PTL DEF Spec

-----------------------------------------------------------------------------
(***************************************************************************)
(* The properties.                                                         *)
(***************************************************************************)

\* Every variable has its type: the queue holds blocks of panes and lines only,
\* and no size, offset or count ever falls below zero.
THEOREM TypeCorrect == Spec => []TypeOK
PROOF
  <1>1. IInv => TypeOK
    BY DEF IInv, Typed, TypeOK, PaneRecord, CpRecord, Clients, ToldOf, FlagsRecord, Callbacks
  <1> QED
    BY <1>1, OutputInvariance, PTL

\* Lines arrive in order and none is left out, a notification never occurs inside
\* the output block of a command, and no line arrives before output that came
\* before it, however commands, output, pauses and what the client takes alternate.
THEOREM OrderKept == Spec => []LinesInOrder
PROOF
  <1>1. IInv => LinesInOrder
    <2> SUFFICES ASSUME IInv PROVE LinesInOrder
      OBVIOUS
    <2>1. client \in Clients /\ Orderly(client, FALSE)
      BY DEF IInv, Typed, Sound
    <2>2. ~client.discard => client.told.ok /\ ~client.told.open
      BY <2>1, Zenon DEF Orderly
    <2>3. Outputs(client.all, client.told.n)
      BY <2>1, Zenon DEF Orderly, Sorted
    <2>4. ASSUME NEW i \in DOMAIN client.all, IsOutput(client.all[i])
          PROVE  client.all[i].no >= client.told.n
      <3> DEFINE r == Rank(LineBlocks(client.all), i)
      <3>1. client.told.n + r <= client.all[i].no
        BY <2>3, <2>4 DEF Outputs
      <3>2. r \in Nat
        <4>1. client.all \in Seq(Entry)
          BY <2>1 DEF Clients
        <4>2. Len(client.all) \in Nat /\ LineBlocks(client.all) \in SUBSET (1..Len(client.all))
          BY <4>1, Queue
        <4> QED
          BY <4>2, PlacesFinite
      <3> HIDE DEF r
      <3>3. client.told.n \in Nat /\ client.all[i].no \in Nat
        <4>1. client.told.n \in Nat
          BY <2>1 DEF Clients, ToldOf
        <4>2. client.all \in Seq(Entry)
          BY <2>1 DEF Clients
        <4>3. client.all[i] \in Entry
          BY <2>4, <4>2
        <4> QED
          BY <4>1, <4>3 DEF Entry
      <3> QED
        BY ONLY <3>1, <3>2, <3>3
    <2> QED
      BY <2>2, <2>4 DEF LinesInOrder
  <1> QED
    BY <1>1, OutputInvariance, PTL

\* What a client does not read is bounded, the lines that wait for output
\* included: by CONTROL_MAXIMUM_REPLY_BUFFER, CONTROL_BUFFER_HIGH and one
\* CONTROL_WRITE_MINIMUM, however many panes share the buffer.
THEOREM BufferBounded == Spec => []RepliesBounded
PROOF
  <1>1. IInv => RepliesBounded
    <2> SUFFICES ASSUME IInv PROVE RepliesBounded
      OBVIOUS
    <2>1. client \in Clients /\ Waits(client) <= (MaxReplies + High + Minimum) - 2
      BY DEF IInv, Typed, Limited
    <2>2. Waits(client) \in Nat
      BY <2>1, WaitsIs
    <2>3. Waits(client) < MaxReplies + High + Minimum - 1
      BY <2>1, <2>2, Sizes
    <2> QED
      BY <2>3 DEF RepliesBounded, Waits
  <1> QED
    BY <1>1, OutputInvariance, PTL

\* Output that is queued has its pane in the list of those to be written, once,
\* and the client's descriptor watched: no callback, command or timer leaves
\* output behind that nothing would write.
THEOREM OutputIsWatched == Spec => []OutputWatched
PROOF
  <1>1. IInv => OutputWatched
    BY Zenon DEF IInv, Watched, OutputWatched, Attached
  <1> QED
    BY <1>1, OutputInvariance, PTL

\* The buffer of a pane and what is queued of it fit together, for any number of
\* panes and however commands, pauses, respawns, suspension and what the client
\* takes alternate: the fatalx in control_append_data is reached only by a pane
\* whose output was passed over while earlier output was queued.
THEOREM OutputStaysInBuffer == Spec => []OutputInBuffer
PROOF
  <1>1. IInv => OutputInBuffer
    <2> SUFFICES ASSUME IInv, NEW p \in Panes, ~cp[p].skipped PROVE DataOf(p) /\ OffsetsOf(p)
      BY DEF OutputInBuffer
    <2>1. client \in Clients /\ FilledAt(pane, cp, client, flags, p)
      BY DEF IInv, Typed, Filled
    <2>2. /\ cp[p].queued \in Nat /\ cp[p].offset \in Nat /\ pane[p].made \in Nat
          /\ Size(client.all, p) \in Nat /\ cp[p].queued <= pane[p].made
          /\ Blocks(client.all, p) # {} => Allowed(cp, client, flags, p)
          /\ Allowed(cp, client, flags, p) =>
               /\ pane[p].base <= cp[p].offset
               /\ cp[p].offset + Size(client.all, p) <= cp[p].queued
      BY <2>1, PaneIs, WaitsIs DEF FilledAt
    <2>3. Allowed(cp, client, flags, p) =>
            /\ cp[p].offset <= cp[p].queued
            /\ cp[p].offset + Size(client.all, p) <= pane[p].made
      BY ONLY <2>2
    <2>4. DataOf(p)
      BY <2>2, <2>3 DEF DataOf
    <2>5. OffsetsOf(p)
      BY <2>2, <2>3 DEF OffsetsOf, On, Allowed
    <2> QED
      BY <2>4, <2>5
  <1> QED
    BY <1>1, OutputInvariance, PTL
=============================================================================
