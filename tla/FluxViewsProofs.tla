--------------------------- MODULE FluxViewsProofs ---------------------------
(***************************************************************************)
(* Proofs about what a tab shows, for any boards, views, searches and      *)
(* histories: the list shows what a search of the present names finds, the *)
(* counts beside it agree with it, ticked cards are shown, the address     *)
(* names the open card, and cards land where the browser says they do.     *)
(***************************************************************************)
EXTENDS FluxViews, FiniteSetTheorems, SequenceTheorems, TLAPS

-----------------------------------------------------------------------------
(* Sequences without repetition, and the order they put their elements in. *)

Distinct(s) == s \in Seq(ToSet(s)) /\ IsInjective(s)

Precedes(s, x, y) == \E i, j \in DOMAIN s : i < j /\ s[i] = x /\ s[j] = y

LEMMA RankRises ==
  ASSUME NEW at \in SUBSET Nat, IsFiniteSet(at), NEW i \in Nat, NEW j \in at, i < j
  PROVE  /\ Rank(at, i) \in Nat /\ Rank(at, j) \in 1 .. Cardinality(at)
         /\ Rank(at, i) < Rank(at, j)
<1> DEFINE low == {k \in at : k <= i}
           high == {k \in at : k <= j}
<1>1. /\ IsFiniteSet(high) /\ Cardinality(high) <= Cardinality(at)
  BY FS_Subset, high \in SUBSET at
<1>2. /\ IsFiniteSet(low) /\ Cardinality(low) <= Cardinality(high)
      /\ Cardinality(high) = Cardinality(low) => high = low
  <2>1. \A k \in at : k \in Nat /\ (k <= i => k <= j)
    OBVIOUS
  <2>2. low \in SUBSET high
    BY <2>1
  <2> QED
    BY <1>1, <2>2, FS_Subset
<1>3. j \in high /\ j \notin low
  OBVIOUS
<1> HIDE DEF low, high
<1>4. /\ Cardinality(low) \in Nat /\ Cardinality(high) \in Nat /\ Cardinality(at) \in Nat
  BY <1>1, <1>2, FS_CardinalityType
<1>5. Cardinality(low) < Cardinality(high)
  BY <1>2, <1>3, <1>4
<1> QED
  BY <1>1, <1>4, <1>5 DEF Rank, low, high

LEMMA RankIsPositive ==
  ASSUME NEW at \in SUBSET Nat, IsFiniteSet(at), NEW j \in at
  PROVE  Rank(at, j) \in 1 .. Cardinality(at)
<1> DEFINE high == {k \in at : k <= j}
<1>1. /\ IsFiniteSet(high) /\ Cardinality(high) <= Cardinality(at)
  BY FS_Subset, high \in SUBSET at
<1>2. high # {}
  BY j \in high
<1> HIDE DEF high
<1>3. /\ Cardinality(high) \in Nat /\ Cardinality(at) \in Nat /\ Cardinality(high) # 0
  BY <1>1, <1>2, FS_CardinalityType, FS_EmptySet
<1> QED
  BY <1>1, <1>3 DEF Rank, high

\* The ranks of the positions are the numbers up to their count, each once.
LEMMA RankFills ==
  ASSUME NEW at \in SUBSET Nat, IsFiniteSet(at), NEW j \in 1 .. Cardinality(at)
  PROVE  \E i \in at : Rank(at, i) = j
<1> DEFINE n == Cardinality(at)
           f == [i \in at |-> Rank(at, i)]
<1>1. n \in Nat
  BY FS_CardinalityType
<1>2. IsFiniteSet(1 .. n) /\ Cardinality(1 .. n) = n
  BY <1>1, FS_Interval
<1>3. f \in [at -> 1 .. n]
  BY RankIsPositive
<1>4. ASSUME NEW i \in at, NEW k \in at, f[i] = f[k]
      PROVE  i = k
  <2>1. Rank(at, i) \in Nat /\ Rank(at, k) \in Nat
    BY RankIsPositive
  <2>2. i < k => Rank(at, i) < Rank(at, k)
    BY RankRises
  <2>3. k < i => Rank(at, k) < Rank(at, i)
    BY RankRises
  <2> QED
    BY <1>4, <2>1, <2>2, <2>3
<1>5. f \in Injection(at, 1 .. n)
  BY <1>3, <1>4 DEF Injection, IsInjective
<1>6. f \in Surjection(at, 1 .. n)
  BY <1>2, <1>5, FS_Injection
<1> HIDE DEF f
<1>7. \E i \in at : f[i] = j
  BY <1>6 DEF Surjection
<1> QED
  BY <1>7 DEF f

\* The n elements of o are those of s at the positions at, in their order.
Picked(o, s, at, n) ==
  \E p \in [1 .. n -> at] :
    /\ \A j \in 1 .. n : o[j] = s[p[j]]
    /\ \A j, k \in 1 .. n : j < k => p[j] < p[k]
    /\ \A i \in at : \E j \in 1 .. n : p[j] = i

\* Only picks the elements at rising positions, all those that are in S.
LEMMA OnlyPicks ==
  ASSUME NEW T, NEW s \in Seq(T), NEW S
  PROVE  /\ Only(s, S) \in Seq(T) /\ Len(Only(s, S)) = Cardinality(Positions(s, S))
         /\ Cardinality(Positions(s, S)) \in Nat
         /\ Picked(Only(s, S), s, Positions(s, S), Cardinality(Positions(s, S)))
<1> DEFINE at == Positions(s, S)
           n == Cardinality(at)
           o == Only(s, S)
           p == [j \in 1 .. n |-> CHOOSE i \in at : Rank(at, i) = j]
<1>1. Len(s) \in Nat /\ DOMAIN s = 1 .. Len(s) /\ \A i \in DOMAIN s : s[i] \in T
  BY LenProperties, ElementOfSeq
<1>2. at \in SUBSET (1 .. Len(s)) /\ \A i \in at : s[i] \in T
  BY <1>1 DEF Positions
<1>3. IsFiniteSet(at) /\ n \in Nat
  <2>1. IsFiniteSet(1 .. Len(s))
    BY <1>1, FS_Interval
  <2> QED
    BY <1>2, <2>1, FS_Subset, FS_CardinalityType
<1>4. at \in SUBSET Nat
  BY <1>1, <1>2
<1> HIDE DEF at
<1>5. \A j \in 1 .. n : p[j] \in at /\ Rank(at, p[j]) = j
  BY <1>3, <1>4, RankFills
<1>6. o = [j \in 1 .. n |-> s[p[j]]]
  BY DEF Only, at
<1> HIDE DEF p, o
<1>7. p \in [1 .. n -> at]
  BY <1>5 DEF p
<1>8. o \in Seq(T) /\ Len(o) = n /\ \A j \in 1 .. n : o[j] = s[p[j]]
  <2>1. \A j \in 1 .. n : s[p[j]] \in T
    BY <1>2, <1>5
  <2>2. o \in [1 .. n -> T]
    BY <1>6, <2>1
  <2> QED
    BY <1>3, <1>6, <2>2, IsASeq, LenProperties
<1>9. ASSUME NEW j \in 1 .. n, NEW k \in 1 .. n, j < k
      PROVE  p[j] < p[k]
  <2>1. p[j] \in at /\ p[k] \in at /\ Rank(at, p[j]) = j /\ Rank(at, p[k]) = k
    BY <1>5
  <2>2. p[j] \in Nat /\ p[k] \in Nat
    BY <1>4, <2>1
  <2>3. p[k] < p[j] => Rank(at, p[k]) < Rank(at, p[j])
    BY <1>3, <1>4, <2>1, <2>2, RankRises
  <2> HIDE DEF n
  <2> QED
    BY <1>9, <2>1, <2>2, <2>3
<1>10. ASSUME NEW i \in at
       PROVE  \E j \in 1 .. n : p[j] = i
  <2>1. Rank(at, i) \in 1 .. n
    BY <1>3, <1>4, RankIsPositive
  <2> DEFINE j == Rank(at, i)
             k == p[j]
  <2>2. k \in at /\ Rank(at, k) = j
    BY <1>5, <2>1
  <2>3. i \in Nat /\ k \in Nat
    BY <1>4, <2>2
  <2> HIDE DEF k
  <2>4. i < k => Rank(at, i) < Rank(at, k)
    BY <1>3, <1>4, <2>2, <2>3, RankRises
  <2>5. k < i => Rank(at, k) < Rank(at, i)
    BY <1>3, <1>4, <2>2, <2>3, RankRises
  <2>6. j \in Nat
    BY <1>3, <2>1
  <2>7. k = i
    <3> HIDE DEF j
    <3> SUFFICES ~(i < k) /\ ~(k < i)
      BY <2>3
    <3>1. Rank(at, i) = j
      BY DEF j
    <3> QED
      BY <2>2, <2>4, <2>5, <2>6, <3>1
  <2> QED
    BY <2>1, <2>7 DEF k
<1> QED
  <2>1. Picked(o, s, at, n)
    BY <1>7, <1>8, <1>9, <1>10 DEF Picked
  <2> QED
    BY <1>3, <1>8, <2>1 DEF at, o

LEMMA DistinctSequence ==
  ASSUME NEW T, NEW s \in Seq(T), \A i, j \in 1 .. Len(s) : s[i] = s[j] => i = j
  PROVE  Distinct(s)
<1>1. Len(s) \in Nat /\ s \in [1 .. Len(s) -> T]
  BY LenProperties
<1>2. s \in [1 .. Len(s) -> ToSet(s)]
  BY <1>1 DEF ToSet
<1>3. s \in Seq(ToSet(s))
  BY <1>1, <1>2
<1> QED
  BY <1>1, <1>3 DEF Distinct, IsInjective

LEMMA DistinctFacts ==
  ASSUME NEW s, Distinct(s)
  PROVE  /\ s \in Seq(ToSet(s)) /\ Len(s) \in Nat /\ DOMAIN s = 1 .. Len(s)
         /\ \A i \in 1 .. Len(s) : s[i] \in ToSet(s)
         /\ \A x \in ToSet(s) : \E i \in 1 .. Len(s) : s[i] = x
         /\ \A i, j \in 1 .. Len(s) : s[i] = s[j] => i = j
         /\ \A i, j \in 1 .. Len(s) : Precedes(s, s[i], s[j]) <=> i < j
         /\ \A x, y : Precedes(s, x, y) => x \in ToSet(s) /\ y \in ToSet(s) /\ x # y
<1>1. s \in Seq(ToSet(s)) /\ Len(s) \in Nat /\ DOMAIN s = 1 .. Len(s)
  BY LenProperties DEF Distinct
<1>2. /\ \A i \in 1 .. Len(s) : s[i] \in ToSet(s)
      /\ \A x \in ToSet(s) : \E i \in 1 .. Len(s) : s[i] = x
  BY <1>1 DEF ToSet
<1>3. \A i, j \in 1 .. Len(s) : s[i] = s[j] => i = j
  BY <1>1 DEF Distinct, IsInjective
<1>4. \A i, j \in 1 .. Len(s) : Precedes(s, s[i], s[j]) <=> i < j
  BY <1>1, <1>3 DEF Precedes
<1>5. \A x, y : Precedes(s, x, y) => x \in ToSet(s) /\ y \in ToSet(s) /\ x # y
  BY <1>1, <1>2, <1>3 DEF Precedes
<1> QED
  BY <1>1, <1>2, <1>3, <1>4, <1>5

\* Only leaves elements out and changes nothing else.
LEMMA OnlyOf ==
  ASSUME NEW s, Distinct(s), NEW S
  PROVE  /\ Distinct(Only(s, S)) /\ ToSet(Only(s, S)) = ToSet(s) \cap S
         /\ \A x, y : Precedes(Only(s, S), x, y) <=> x \in S /\ y \in S /\ Precedes(s, x, y)
<1> DEFINE at == Positions(s, S)
           n == Cardinality(at)
           o == Only(s, S)
<1>1. /\ s \in Seq(ToSet(s)) /\ Len(s) \in Nat /\ DOMAIN s = 1 .. Len(s)
      /\ \A i \in 1 .. Len(s) : s[i] \in ToSet(s)
      /\ \A x \in ToSet(s) : \E i \in 1 .. Len(s) : s[i] = x
      /\ \A i, j \in 1 .. Len(s) : s[i] = s[j] => i = j
  BY DistinctFacts
<1>2. n \in Nat /\ o \in Seq(ToSet(s)) /\ Len(o) = n /\ Picked(o, s, at, n)
  BY ONLY <1>1, OnlyPicks
<1>3. PICK p \in [1 .. n -> at] :
        /\ \A j \in 1 .. n : o[j] = s[p[j]]
        /\ \A j, k \in 1 .. n : j < k => p[j] < p[k]
        /\ \A i \in at : \E j \in 1 .. n : p[j] = i
  BY <1>2 DEF Picked
<1>4. at \in SUBSET (1 .. Len(s)) /\ \A i \in 1 .. Len(s) : i \in at <=> s[i] \in S
  BY <1>1 DEF Positions
<1> HIDE DEF at, n, o
<1>5. DOMAIN o = 1 .. n
  BY <1>2, LenProperties
<1>6. \A j \in 1 .. n : p[j] \in at /\ p[j] \in 1 .. Len(s) /\ p[j] \in Nat /\ j \in Nat
  <2> SUFFICES ASSUME NEW j \in 1 .. n
               PROVE  p[j] \in at /\ p[j] \in 1 .. Len(s) /\ p[j] \in Nat /\ j \in Nat
    OBVIOUS
  <2>1. p[j] \in at
    BY <1>3
  <2>2. p[j] \in 1 .. Len(s)
    BY <1>4, <2>1
  <2> QED
    BY <1>1, <1>2, <2>1, <2>2
<1>7. \A j, k \in 1 .. n : j < k \/ k < j \/ j = k
  BY <1>6
<1>8. \A j, k \in 1 .. n : p[j] = p[k] => j = k
  BY <1>3, <1>6, <1>7
<1>9. Distinct(o)
  <2>1. \A j, k \in 1 .. Len(o) : o[j] = o[k] => j = k
    BY <1>1, <1>2, <1>3, <1>6, <1>8
  <2> QED
    BY <1>2, <2>1, DistinctSequence
<1>10. ToSet(o) = ToSet(s) \cap S
  <2>1. ToSet(o) \subseteq ToSet(s) \cap S
    BY <1>1, <1>3, <1>4, <1>5, <1>6 DEF ToSet
  <2>2. ASSUME NEW x \in ToSet(s) \cap S
        PROVE  x \in ToSet(o)
    <3>1. PICK i \in 1 .. Len(s) : s[i] = x
      BY <1>1
    <3>2. PICK j \in 1 .. n : p[j] = i
      BY <1>3, <1>4, <3>1
    <3> QED
      BY <1>3, <1>5, <3>1, <3>2 DEF ToSet
  <2> QED
    BY <2>1, <2>2
<1>11. ASSUME NEW x, NEW y
       PROVE  Precedes(o, x, y) <=> x \in S /\ y \in S /\ Precedes(s, x, y)
  <2>1. ASSUME Precedes(o, x, y)
        PROVE  x \in S /\ y \in S /\ Precedes(s, x, y)
    <3>1. PICK j \in 1 .. n, k \in 1 .. n : j < k /\ o[j] = x /\ o[k] = y
      BY <1>5, <2>1 DEF Precedes
    <3>2. p[j] < p[k] /\ s[p[j]] = x /\ s[p[k]] = y
      BY <1>3, <3>1
    <3> QED
      BY <1>1, <1>4, <1>6, <3>2 DEF Precedes
  <2>2. ASSUME x \in S, y \in S, Precedes(s, x, y)
        PROVE  Precedes(o, x, y)
    <3>1. PICK i \in 1 .. Len(s), m \in 1 .. Len(s) : i < m /\ s[i] = x /\ s[m] = y
      BY <1>1, <2>2 DEF Precedes
    <3>2. i \in at /\ m \in at
      BY <1>4, <2>2, <3>1
    <3>3. PICK j \in 1 .. n : p[j] = i
      BY <1>3, <3>2
    <3>4. PICK k \in 1 .. n : p[k] = m
      BY <1>3, <3>2
    <3>5. j < k
      <4>1. ~(k < j) /\ j # k
        BY <1>3, <1>6, <3>1, <3>3, <3>4
      <4> QED
        BY <1>7, <4>1
    <3> QED
      BY <1>3, <1>5, <3>1, <3>3, <3>4, <3>5 DEF Precedes
  <2> QED
    BY <2>1, <2>2
<1> QED
  BY <1>9, <1>10, <1>11 DEF o

\* An element's place is the number of those it does not precede.
UpTo(s, x) == {y \in ToSet(s) : y = x \/ Precedes(s, y, x)}

LEMMA PlaceCounts ==
  ASSUME NEW s, Distinct(s), NEW i \in 1 .. Len(s)
  PROVE  Cardinality(UpTo(s, s[i])) = i
<1> DEFINE U == UpTo(s, s[i])
           f == [k \in 1 .. i |-> s[k]]
<1>1. /\ Len(s) \in Nat
      /\ \A k \in 1 .. Len(s) : s[k] \in ToSet(s)
      /\ \A x \in ToSet(s) : \E k \in 1 .. Len(s) : s[k] = x
      /\ \A k, m \in 1 .. Len(s) : s[k] = s[m] => k = m
      /\ \A k, m \in 1 .. Len(s) : Precedes(s, s[k], s[m]) <=> k < m
  BY DistinctFacts
<1>2. i \in Nat /\ 1 .. i \subseteq 1 .. Len(s)
  BY <1>1
<1>3. \A k \in 1 .. i : s[k] \in U
  <2> SUFFICES ASSUME NEW k \in 1 .. i
               PROVE  s[k] \in U
    OBVIOUS
  <2>1. k \in 1 .. Len(s) /\ (k < i \/ k = i)
    BY <1>2
  <2>2. k < i => Precedes(s, s[k], s[i])
    BY <1>1, <2>1
  <2> QED
    BY <1>1, <2>1, <2>2 DEF UpTo
<1>4. ASSUME NEW y \in U
      PROVE  \E k \in 1 .. i : s[k] = y
  <2>1. y \in ToSet(s) /\ (y = s[i] \/ Precedes(s, y, s[i]))
    BY DEF UpTo
  <2>2. PICK k \in 1 .. Len(s) : s[k] = y
    BY <1>1, <2>1
  <2>3. k = i \/ k < i
    BY <1>1, <2>1, <2>2
  <2>4. k \in 1 .. i
    BY <1>2, <2>3
  <2> QED
    BY <2>2, <2>4
<1> HIDE DEF U
<1>5. f \in [1 .. i -> U]
  BY <1>3
<1>6. \A k, m \in 1 .. i : f[k] = f[m] => k = m
  BY <1>1, <1>2
<1>7. \A y \in U : \E k \in 1 .. i : f[k] = y
  BY <1>4
<1>8. f \in Bijection(1 .. i, U)
  BY <1>5, <1>6, <1>7 DEF Bijection, Injection, Surjection, IsInjective
<1>9. IsFiniteSet(1 .. i) /\ Cardinality(1 .. i) = i
  BY <1>2, FS_Interval
<1> HIDE DEF f
<1>10. ExistsBijection(1 .. i, U)
  BY <1>8 DEF ExistsBijection
<1>11. Cardinality(U) = Cardinality(1 .. i)
  BY <1>9, <1>10, FS_Bijection
<1> QED
  BY <1>9, <1>11 DEF U

SameOrder(s, t) ==
  /\ ToSet(s) = ToSet(t)
  /\ \A x, y \in ToSet(s) : Precedes(s, x, y) <=> Precedes(t, x, y)

LEMMA SamePlaces ==
  ASSUME NEW s, NEW t, Distinct(s), Distinct(t), SameOrder(s, t), NEW i \in 1 .. Len(s)
  PROVE  i \in 1 .. Len(t) /\ t[i] = s[i]
<1>1. /\ s[i] \in ToSet(s) /\ ToSet(s) = ToSet(t)
      /\ \A x \in ToSet(t) : \E k \in 1 .. Len(t) : t[k] = x
  BY DistinctFacts DEF SameOrder
<1>2. PICK j \in 1 .. Len(t) : t[j] = s[i]
  BY <1>1
<1>3. UpTo(s, s[i]) = UpTo(t, t[j])
  BY <1>1, <1>2 DEF UpTo, SameOrder
<1>4. i = j
  BY <1>3, PlaceCounts
<1> QED
  BY <1>2, <1>4

\* A sequence without repetition is known from its elements and their order.
LEMMA OrderIsUnique ==
  ASSUME NEW s, NEW t, Distinct(s), Distinct(t), SameOrder(s, t)
  PROVE  s = t
<1>1. SameOrder(t, s)
  BY DEF SameOrder
<1>2. Len(s) \in Nat /\ Len(t) \in Nat /\ s \in Seq(ToSet(s)) /\ t \in Seq(ToSet(t))
  BY DistinctFacts
<1>3. \A i \in 1 .. Len(s) : i \in 1 .. Len(t) /\ t[i] = s[i]
  BY SamePlaces
<1>4. \A i \in 1 .. Len(t) : i \in 1 .. Len(s)
  BY <1>1, SamePlaces
<1>5. Len(s) = Len(t)
  <2>1. Len(s) <= Len(t)
    BY <1>2, <1>3
  <2>2. Len(t) <= Len(s)
    BY <1>2, <1>4
  <2> QED
    BY <1>2, <2>1, <2>2
<1>6. s \in Seq(ToSet(s)) /\ t \in Seq(ToSet(s))
  BY <1>2 DEF SameOrder
<1> QED
  BY <1>3, <1>5, <1>6, SeqEqual

\* What Only keeps of a sequence it has already kept, and of all its elements.
LEMMA OnlyAll ==
  ASSUME NEW s, Distinct(s), NEW S, ToSet(s) \subseteq S
  PROVE  Only(s, S) = s
<1>1. /\ Distinct(Only(s, S)) /\ ToSet(Only(s, S)) = ToSet(s) \cap S
      /\ \A x, y : Precedes(Only(s, S), x, y) <=> x \in S /\ y \in S /\ Precedes(s, x, y)
  BY OnlyOf
<1>2. ToSet(s) \cap S = ToSet(s)
  OBVIOUS
<1>3. SameOrder(Only(s, S), s)
  BY <1>1, <1>2 DEF SameOrder
<1> QED
  BY <1>1, <1>3, OrderIsUnique

LEMMA OnlyOnly ==
  ASSUME NEW s, Distinct(s), NEW S, NEW T
  PROVE  Only(Only(s, S), T) = Only(s, S \cap T)
<1>1. /\ Distinct(Only(s, S)) /\ ToSet(Only(s, S)) = ToSet(s) \cap S
      /\ \A x, y : Precedes(Only(s, S), x, y) <=> x \in S /\ y \in S /\ Precedes(s, x, y)
  BY OnlyOf
<1> DEFINE o == Only(s, S)
<1>2. /\ Distinct(Only(o, T)) /\ ToSet(Only(o, T)) = ToSet(o) \cap T
      /\ \A x, y : Precedes(Only(o, T), x, y) <=> x \in T /\ y \in T /\ Precedes(o, x, y)
  BY <1>1, OnlyOf
<1>3. /\ Distinct(Only(s, S \cap T)) /\ ToSet(Only(s, S \cap T)) = ToSet(s) \cap (S \cap T)
      /\ \A x, y : Precedes(Only(s, S \cap T), x, y)
                     <=> x \in S \cap T /\ y \in S \cap T /\ Precedes(s, x, y)
  BY OnlyOf
<1>4. SameOrder(Only(o, T), Only(s, S \cap T))
  BY <1>1, <1>2, <1>3 DEF SameOrder
<1> QED
  BY <1>2, <1>3, <1>4, OrderIsUnique

LEMMA DistinctAppend ==
  ASSUME NEW s, Distinct(s), NEW x, x \notin ToSet(s)
  PROVE  /\ Distinct(Append(s, x)) /\ ToSet(Append(s, x)) = ToSet(s) \cup {x}
         /\ \A y, z \in ToSet(s) : Precedes(Append(s, x), y, z) <=> Precedes(s, y, z)
         /\ \A y \in ToSet(s) : Precedes(Append(s, x), y, x)
<1> DEFINE T == ToSet(s) \cup {x}
           n == Len(s)
           t == Append(s, x)
<1>1. /\ s \in Seq(ToSet(s)) /\ n \in Nat /\ DOMAIN s = 1 .. n
      /\ \A i \in 1 .. n : s[i] \in ToSet(s)
      /\ \A y \in ToSet(s) : \E i \in 1 .. n : s[i] = y
      /\ \A i, j \in 1 .. n : s[i] = s[j] => i = j
  BY DistinctFacts
<1>2. s \in Seq(T)
  <2>1. ToSet(s) \subseteq T
    OBVIOUS
  <2> HIDE DEF T
  <2> QED
    BY <1>1, <2>1, SeqMonotonic
<1>3. x \in T
  OBVIOUS
<1> HIDE DEF T
<1>4. /\ t \in Seq(T) /\ Len(t) = n + 1 /\ t[n + 1] = x
      /\ \A i \in 1 .. n : t[i] = s[i]
  BY <1>2, <1>3, AppendProperties
<1>5. DOMAIN t = 1 .. n + 1
  BY <1>4, LenProperties
<1> HIDE DEF t, n
<1>6. \A i \in 1 .. n + 1 : \/ i \in 1 .. n /\ i # n + 1
                            \/ i = n + 1 /\ i \notin 1 .. n
  BY <1>1
<1>7. Distinct(t)
  <2>1. \A i, j \in 1 .. Len(t) : t[i] = t[j] => i = j
    BY <1>1, <1>4, <1>6
  <2> QED
    BY <1>4, <2>1, DistinctSequence
<1>8. ToSet(t) = ToSet(s) \cup {x}
  <2>1. \A i \in 1 .. n : i \in 1 .. n + 1
    BY <1>1
  <2>2. n + 1 \in 1 .. n + 1
    BY <1>1
  <2>3. ToSet(t) \subseteq ToSet(s) \cup {x}
    BY <1>1, <1>4, <1>5, <1>6 DEF ToSet
  <2>4. ToSet(s) \cup {x} \subseteq ToSet(t)
    BY <1>1, <1>4, <1>5, <2>1, <2>2 DEF ToSet
  <2> QED
    BY <2>3, <2>4
<1>9. ASSUME NEW y \in ToSet(s), NEW z \in ToSet(s)
      PROVE  Precedes(t, y, z) <=> Precedes(s, y, z)
  <2>1. Precedes(t, y, z) => Precedes(s, y, z)
    BY <1>1, <1>4, <1>5, <1>6 DEF Precedes
  <2>2. Precedes(s, y, z) => Precedes(t, y, z)
    <3>1. \A i \in 1 .. n : i \in 1 .. n + 1
      BY <1>1
    <3> QED
      BY <1>1, <1>4, <1>5, <3>1 DEF Precedes
  <2> QED
    BY <2>1, <2>2
<1>10. ASSUME NEW y \in ToSet(s)
       PROVE  Precedes(t, y, x)
  <2>1. PICK i \in 1 .. n : s[i] = y
    BY <1>1
  <2>2. i < n + 1 /\ i \in 1 .. n + 1 /\ n + 1 \in 1 .. n + 1
    BY <1>1
  <2> QED
    BY <1>4, <1>5, <2>1, <2>2 DEF Precedes
<1> QED
  BY <1>7, <1>8, <1>9, <1>10 DEF t

\* Every finite set has an order; SetToSeq picks one.
LEMMA DistinctSetToSeq ==
  ASSUME NEW S, IsFiniteSet(S)
  PROVE  Distinct(SetToSeq(S)) /\ ToSet(SetToSeq(S)) = S
<1> DEFINE n == Cardinality(S)
           s == SetToSeq(S)
<1>1. n \in Nat /\ \E f : f \in Bijection(1 .. n, S)
  BY FS_CardinalityType DEF ExistsBijection
<1>2. \E f \in [1 .. n -> S] : IsInjective(f)
  BY <1>1 DEF Bijection, Injection
<1>3. s \in [1 .. n -> S] /\ IsInjective(s)
  <2> HIDE DEF n
  <2> QED
    BY <1>2 DEF SetToSeq, n
<1> HIDE DEF s
<1>4. /\ s \in Seq(S) /\ Len(s) = n
  BY <1>1, <1>3, IsASeq, LenProperties
<1>5. Distinct(s)
  <2>1. \A i, j \in 1 .. Len(s) : s[i] = s[j] => i = j
    BY <1>3, <1>4 DEF IsInjective
  <2> QED
    BY <1>4, <2>1, DistinctSequence
<1>6. ToSet(s) = S
  <2>1. IsFiniteSet(1 .. n) /\ Cardinality(1 .. n) = n
    BY <1>1, FS_Interval
  <2>2. s \in Injection(1 .. n, S)
    BY <1>3 DEF Injection
  <2> HIDE DEF n
  <2>3. s \in Surjection(1 .. n, S)
    BY <2>1, <2>2, FS_Injection DEF n
  <2> QED
    BY <1>3, <2>3 DEF Surjection, ToSet
<1> QED
  BY <1>5, <1>6 DEF s

LEMMA DistinctConcat ==
  ASSUME NEW s, NEW t, Distinct(s), Distinct(t), ToSet(s) \cap ToSet(t) = {}
  PROVE  Distinct(s \o t) /\ ToSet(s \o t) = ToSet(s) \cup ToSet(t)
<1> DEFINE T == ToSet(s) \cup ToSet(t)
           n == Len(s)
           m == Len(t)
           u == s \o t
<1>1. /\ s \in Seq(ToSet(s)) /\ n \in Nat
      /\ \A i \in 1 .. n : s[i] \in ToSet(s)
      /\ \A y \in ToSet(s) : \E i \in 1 .. n : s[i] = y
      /\ \A i, j \in 1 .. n : s[i] = s[j] => i = j
  BY DistinctFacts
<1>2. /\ t \in Seq(ToSet(t)) /\ m \in Nat
      /\ \A i \in 1 .. m : t[i] \in ToSet(t)
      /\ \A y \in ToSet(t) : \E i \in 1 .. m : t[i] = y
      /\ \A i, j \in 1 .. m : t[i] = t[j] => i = j
  BY DistinctFacts
<1>3. s \in Seq(T) /\ t \in Seq(T)
  <2>1. ToSet(s) \subseteq T /\ ToSet(t) \subseteq T
    OBVIOUS
  <2> HIDE DEF T
  <2> QED
    BY <1>1, <1>2, <2>1, SeqMonotonic
<1> HIDE DEF T
<1>4. /\ u \in Seq(T) /\ Len(u) = n + m
      /\ \A i \in 1 .. n + m : u[i] = IF i <= n THEN s[i] ELSE t[i - n]
  BY <1>3, ConcatProperties
<1>5. DOMAIN u = 1 .. n + m
  BY <1>4, LenProperties
<1> HIDE DEF u, n, m
<1>6. \A i \in 1 .. n + m :
        \/ i \in 1 .. n /\ u[i] = s[i]
        \/ i \notin 1 .. n /\ i - n \in 1 .. m /\ u[i] = t[i - n]
  BY <1>1, <1>2, <1>4
<1>7. \A i, j \in 1 .. n + m : i - n = j - n => i = j
  BY <1>1, <1>2
<1>8. Distinct(u)
  <2>1. ASSUME NEW i \in 1 .. n + m, NEW j \in 1 .. n + m, u[i] = u[j]
        PROVE  i = j
    <3>1. CASE i \in 1 .. n
      BY <1>1, <1>2, <1>6, <2>1, <3>1
    <3>2. CASE i \notin 1 .. n
      <4>1. i - n \in 1 .. m /\ u[i] = t[i - n] /\ j - n \in 1 .. m /\ u[j] = t[j - n]
        BY <1>1, <1>2, <1>6, <2>1, <3>2, ZenonT(40)
      <4> QED
        BY <1>2, <1>7, <2>1, <4>1
    <3> QED
      BY <3>1, <3>2
  <2>2. \A i, j \in 1 .. Len(u) : u[i] = u[j] => i = j
    BY <1>4, <2>1
  <2> QED
    BY <1>4, <2>2, DistinctSequence
<1>9. ToSet(u) = ToSet(s) \cup ToSet(t)
  <2>1. \A i \in 1 .. n + m : u[i] \in ToSet(s) \cup ToSet(t)
    BY <1>1, <1>2, <1>6
  <2>2. ToSet(u) \subseteq ToSet(s) \cup ToSet(t)
    BY <1>5, <2>1 DEF ToSet
  <2>3. ASSUME NEW y \in ToSet(s)
        PROVE  y \in ToSet(u)
    <3>1. PICK i \in 1 .. n : s[i] = y
      BY <1>1
    <3>2. i \in 1 .. n + m /\ i <= n
      BY <1>1, <1>2
    <3> QED
      BY <1>4, <1>5, <3>1, <3>2 DEF ToSet
  <2>4. ASSUME NEW y \in ToSet(t)
        PROVE  y \in ToSet(u)
    <3>1. PICK i \in 1 .. m : t[i] = y
      BY <1>2
    <3> DEFINE k == i + n
    <3>2. k \in 1 .. n + m /\ k \notin 1 .. n /\ k - n = i
      BY <1>1, <1>2
    <3> HIDE DEF k
    <3>3. u[k] = y
      BY <1>6, <3>1, <3>2
    <3> QED
      BY <1>5, <3>2, <3>3 DEF ToSet
  <2> QED
    BY <2>2, <2>3, <2>4
<1> QED
  BY <1>8, <1>9 DEF u

LEMMA DistinctCounts ==
  ASSUME NEW s, Distinct(s)
  PROVE  Cardinality(ToSet(s)) = Len(s)
<1>1. /\ Len(s) \in Nat /\ DOMAIN s = 1 .. Len(s)
      /\ \A k \in 1 .. Len(s) : s[k] \in ToSet(s)
      /\ \A x \in ToSet(s) : \E k \in 1 .. Len(s) : s[k] = x
      /\ \A k, m \in 1 .. Len(s) : s[k] = s[m] => k = m
      /\ s \in Seq(ToSet(s))
  BY DistinctFacts
<1>2. s \in [1 .. Len(s) -> ToSet(s)]
  BY <1>1, LenProperties
<1>3. s \in Bijection(1 .. Len(s), ToSet(s))
  BY <1>1, <1>2 DEF Bijection, Injection, Surjection, IsInjective
<1>4. ExistsBijection(1 .. Len(s), ToSet(s))
  BY <1>3 DEF ExistsBijection
<1>5. IsFiniteSet(1 .. Len(s)) /\ Cardinality(1 .. Len(s)) = Len(s)
  <2> DEFINE n == Len(s)
  <2>1. n \in Nat
    BY <1>1
  <2> HIDE DEF n
  <2>2. IsFiniteSet(1 .. n) /\ Cardinality(1 .. n) = n
    BY <2>1, FS_Interval
  <2> QED
    BY <2>2 DEF n
<1> QED
  BY <1>4, <1>5, FS_Bijection

LEMMA EmptyIsDistinct == Distinct(<<>>) /\ ToSet(<<>>) = {}
<1>1. ToSet(<<>>) = {}
  BY DEF ToSet
<1>2. <<>> \in Seq({}) /\ IsInjective(<<>>)
  BY DEF IsInjective
<1> QED
  BY <1>1, <1>2 DEF Distinct

-----------------------------------------------------------------------------
(* The list: the inductive invariant *)

\* The text kept of a card, if it is of this board's generation, is the text it
\* has now.
IndexFits(b, p, gen, idx) ==
  \A k \in DOMAIN idx :
    /\ k \in PlanningViews \X DOMAIN CardsOf(b, p, k[1])
    /\ idx[k].generation \in Nat /\ idx[k].generation <= gen
    /\ idx[k].generation = gen => idx[k].text = Haystack(b, CardsOf(b, p, k[1])[k[2]])

ListFields ==
  {"view", "body", "presentation", "scope", "filters", "query", "bulk", "settled"}

\* The body shows one of the planning views, through a list for each filter.
IsList(l) ==
  DOMAIN l = ListFields /\ l.body \in PlanningViews /\ DOMAIN l.filters = FilterNames

ListInv ==
  /\ WellFormed(loaded) /\ IsList(list) /\ generation \in Nat
  /\ IndexFits(loaded, page, generation, index)
  /\ ShownIsCurrent

\* What a render shows and keeps.
Found(b, p, l) ==
  {c \in Candidates(b, p, l) :
     l.query = None \/ l.query \in Haystack(b, CardsOf(b, p, l.body)[c])}

LEMMA CandidatesAreCards ==
  ASSUME NEW b, NEW p, NEW l
  PROVE  Candidates(b, p, l) \subseteq DOMAIN CardsOf(b, p, l.body)
BY DEF Candidates, FilteredItems, CardsOf

LEMMA RenderFits ==
  ASSUME NEW b, NEW p, NEW l, NEW gen \in Nat, NEW idx, l.body \in PlanningViews,
         IndexFits(b, p, gen, idx), Renders(b, p, l, gen, idx)
  PROVE  shown' = Found(b, p, l) /\ IndexFits(b, p, gen, index')
<1> DEFINE found == Candidates(b, p, l)
           text == [c \in found |-> TextOf(b, p, gen, idx, l.body, c)]
           searched == IF l.query = None THEN {} ELSE {l.body} \X found
<1>1. /\ shown' = {c \in found : l.query = None \/ l.query \in text[c]}
      /\ index' = [k \in DOMAIN idx \cup searched |->
                     IF k \in searched THEN [generation |-> gen, text |-> text[k[2]]]
                     ELSE idx[k]]
  BY DEF Renders
<1>2. \A c \in found : text[c] = Haystack(b, CardsOf(b, p, l.body)[c])
  <2> SUFFICES ASSUME NEW c \in found
               PROVE  TextOf(b, p, gen, idx, l.body, c) = Haystack(b, CardsOf(b, p, l.body)[c])
    OBVIOUS
  <2> HIDE DEF found
  <2>1. <<l.body, c>>[1] = l.body /\ <<l.body, c>>[2] = c
    OBVIOUS
  <2> QED
    BY <2>1 DEF TextOf, IndexFits
<1>3. found \subseteq DOMAIN CardsOf(b, p, l.body)
  BY CandidatesAreCards
<1> HIDE DEF found, text
<1>4. shown' = Found(b, p, l)
  BY <1>1, <1>2 DEF Found, found
<1>5. \A k \in searched : /\ k[1] = l.body /\ k[2] \in found
                          /\ k \in PlanningViews \X DOMAIN CardsOf(b, p, k[1])
  BY <1>3
<1> HIDE DEF searched
<1>6. IndexFits(b, p, gen, index')
  <2> SUFFICES ASSUME NEW k \in DOMAIN index'
               PROVE  /\ k \in PlanningViews \X DOMAIN CardsOf(b, p, k[1])
                      /\ index'[k].generation \in Nat /\ index'[k].generation <= gen
                      /\ index'[k].generation = gen =>
                           index'[k].text = Haystack(b, CardsOf(b, p, k[1])[k[2]])
    BY DEF IndexFits
  <2>1. CASE k \in searched
    <3>1. index'[k] = [generation |-> gen, text |-> text[k[2]]]
      BY <1>1, <2>1
    <3> QED
      BY <1>2, <1>5, <2>1, <3>1
  <2>2. CASE k \notin searched
    <3>1. k \in DOMAIN idx /\ index'[k] = idx[k]
      BY <1>1, <2>2
    <3> QED
      BY <3>1 DEF IndexFits
  <2> QED
    BY <2>1, <2>2
<1> QED
  BY <1>4, <1>6

-----------------------------------------------------------------------------
(* The list: every step keeps the invariant *)

LEMMA FoundOf ==
  ASSUME NEW l, NEW m, m.body = l.body, m.scope = l.scope, m.filters = l.filters,
         m.query = l.query
  PROVE  \A b, p : Found(b, p, m) = Found(b, p, l)
BY DEF Found, Candidates

\* A render of a changed board, page or view.
LEMMA RenderKeepsList ==
  ASSUME NEW l, IsList(l), NEW idx, list' = [l EXCEPT !.settled = FALSE],
         WellFormed(loaded'), generation' \in Nat,
         IndexFits(loaded', page', generation', idx),
         Renders(loaded', page', l, generation', idx)
  PROVE  ListInv'
<1> DEFINE b == loaded'
           p == page'
           gen == generation'
<1>1. IsList(list') /\ list'.body = l.body /\ list'.scope = l.scope
      /\ list'.filters = l.filters /\ list'.query = l.query
  BY DEF IsList, ListFields
<1>2. shown' = Found(b, p, l) /\ IndexFits(b, p, gen, index')
  <2>1. l.body \in PlanningViews /\ gen \in Nat /\ IndexFits(b, p, gen, idx)
        /\ Renders(b, p, l, gen, idx)
    BY DEF IsList
  <2> HIDE DEF b, p, gen
  <2> QED
    BY <2>1, RenderFits
<1>3. shown' = Found(loaded', page', list')
  <2>1. \A c, q : Found(c, q, list') = Found(c, q, l)
    <3> DEFINE m == list'
    <3>1. m.body = l.body /\ m.scope = l.scope /\ m.filters = l.filters /\ m.query = l.query
      BY <1>1
    <3> HIDE DEF m
    <3>2. \A c, q : Found(c, q, m) = Found(c, q, l)
      BY <3>1, FoundOf
    <3> QED
      BY <3>2 DEF m
  <2> QED
    BY <1>2, <2>1
<1>4. ShownIsCurrent'
  BY <1>3 DEF ShownIsCurrent, Found
<1> QED
  BY <1>1, <1>2, <1>4 DEF ListInv

LEMMA SetsKeepsList ==
  ASSUME ListInv, NEW l, IsList(l), Sets(l)
  PROVE  ListInv'
<1>1. /\ list' = [l EXCEPT !.settled = FALSE] /\ UNCHANGED <<loaded, page, generation>>
      /\ Renders(loaded, page, l, generation, index)
  BY DEF Sets
<1>2. /\ WellFormed(loaded) /\ generation \in Nat
      /\ IndexFits(loaded, page, generation, index)
  BY DEF ListInv
<1>3. /\ WellFormed(loaded') /\ generation' \in Nat
      /\ IndexFits(loaded', page', generation', index)
      /\ Renders(loaded', page', l, generation', index)
  BY <1>1, <1>2
<1> QED
  BY <1>1, <1>3, RenderKeepsList

\* What the user chooses.
LEMMA ChoicesKeepList ==
  ASSUME ListInv,
         \/ \E view : ListNavigate(view)
         \/ \E presentation : ListPresent(presentation)
         \/ \E scope : ListScope(scope)
         \/ \E name, value : ListAddFilter(name, value) \/ ListRemoveFilter(name, value)
         \/ ListClearFilters
         \/ \E query : Search(query)
         \/ \E project : ListOpenProject(project)
         \/ \E sprint : ListViewSprint(sprint)
         \/ \E url : ListTravel(url)
         \/ \E c : SetBulkSelected(c)
         \/ SelectAllBulk \/ ClearBulk \/ RunBulk
  PROVE  ListInv'
<1>0. IsList(list)
  BY DEF ListInv
<1>1. ASSUME NEW view, ListNavigate(view) PROVE ListInv'
  <2>1. IsList([list EXCEPT !.view = view, !.bulk = <<>>,
                            !.body = IF view \in PlanningViews THEN view ELSE @])
    BY <1>0 DEF IsList, ListFields
  <2> QED
    BY <1>1, <2>1, SetsKeepsList DEF ListNavigate
<1>2. ASSUME NEW presentation, ListPresent(presentation) PROVE ListInv'
  <2>1. IsList([list EXCEPT !.presentation = presentation, !.bulk = <<>>])
    BY <1>0 DEF IsList, ListFields
  <2> QED
    BY <1>2, <2>1, SetsKeepsList DEF ListPresent
<1>3. ASSUME NEW scope, ListScope(scope) PROVE ListInv'
  <2>1. IsList([list EXCEPT !.scope = scope])
    BY <1>0 DEF IsList, ListFields
  <2> QED
    BY <1>3, <2>1, SetsKeepsList DEF ListScope
<1>4. ASSUME NEW name, NEW value, ListAddFilter(name, value) \/ ListRemoveFilter(name, value)
      PROVE  ListInv'
  <2>1. /\ IsList([list EXCEPT !.filters[name] = WithFilterValue(@, value)])
        /\ IsList([list EXCEPT !.filters[name] = Without(@, value)])
    BY <1>0 DEF IsList, ListFields
  <2> QED
    BY <1>4, <2>1, SetsKeepsList DEF ListAddFilter, ListRemoveFilter
<1>5. CASE ListClearFilters
  <2>1. IsList([list EXCEPT !.filters = EmptyFilters])
    BY <1>0 DEF IsList, ListFields, EmptyFilters
  <2> QED
    BY <1>5, <2>1, SetsKeepsList DEF ListClearFilters
<1>6. ASSUME NEW query, Search(query) PROVE ListInv'
  <2>1. IsList([list EXCEPT !.query = query])
    BY <1>0 DEF IsList, ListFields
  <2> QED
    BY <1>6, <2>1, SetsKeepsList DEF Search
<1>7. ASSUME NEW project, ListOpenProject(project) PROVE ListInv'
  <2>1. IsList([list EXCEPT !.view = "board", !.body = "board", !.presentation = "list",
                  !.filters = [EmptyFilters EXCEPT !.project = <<project>>],
                  !.scope = "all", !.query = None])
    BY <1>0 DEF IsList, ListFields, EmptyFilters, PlanningViews
  <2> QED
    BY <1>7, <2>1, SetsKeepsList DEF ListOpenProject
<1>8. ASSUME NEW sprint, ListViewSprint(sprint) PROVE ListInv'
  <2>1. IsList([list EXCEPT !.view = "board", !.body = "board", !.scope = sprint])
    BY <1>0 DEF IsList, ListFields, PlanningViews
  <2> QED
    BY <1>8, <2>1, SetsKeepsList DEF ListViewSprint
<1>9. ASSUME NEW url, ListTravel(url) PROVE ListInv'
  <2> DEFINE patch == PlanningPatchFromURL(url, loaded)
  <2>1. DOMAIN patch.filters = FilterNames
    BY DEF PlanningPatchFromURL
  <2>2. Sets([list EXCEPT !.presentation = patch.presentation, !.scope = patch.scope,
                          !.filters = patch.filters])
    BY <1>9 DEF ListTravel
  <2> HIDE DEF patch
  <2>3. IsList([list EXCEPT !.presentation = patch.presentation, !.scope = patch.scope,
                            !.filters = patch.filters])
    BY <1>0, <2>1 DEF IsList, ListFields
  <2> QED
    BY <2>2, <2>3, SetsKeepsList
<1>10. ASSUME (\E c : SetBulkSelected(c)) \/ SelectAllBulk \/ ClearBulk \/ RunBulk
       PROVE  ListInv'
  <2>1. PICK bulk : Sets([list EXCEPT !.bulk = bulk])
    BY <1>10 DEF SetBulkSelected, SelectAllBulk, ClearBulk, RunBulk
  <2>2. IsList([list EXCEPT !.bulk = bulk])
    BY <1>0 DEF IsList, ListFields
  <2> QED
    BY <2>1, <2>2, SetsKeepsList
<1> QED
  BY <1>1, <1>2, <1>3, <1>4, <1>5, <1>6, <1>7, <1>8, <1>9, <1>10

\* Texts of cards that stay as they are, on a board with the same names.
LEMMA RestrictFits ==
  ASSUME NEW b, NEW p, NEW gen, NEW idx, IndexFits(b, p, gen, idx),
         NEW c, NEW q, NEW S \in SUBSET DOMAIN idx, c.names = b.names,
         \A k \in S : /\ k[2] \in DOMAIN CardsOf(c, q, k[1])
                      /\ LET new == CardsOf(c, q, k[1])[k[2]]
                             old == CardsOf(b, p, k[1])[k[2]]
                         IN  /\ new.words = old.words /\ new.projects = old.projects
                             /\ new.assignee = old.assignee
  PROVE  IndexFits(c, q, gen, Restrict(idx, S))
<1> DEFINE kept == Restrict(idx, S)
<1>1. DOMAIN kept = S /\ \A k \in S : kept[k] = idx[k]
  BY DEF Restrict
<1> HIDE DEF kept
<1> SUFFICES ASSUME NEW k \in DOMAIN kept
             PROVE  /\ k \in PlanningViews \X DOMAIN CardsOf(c, q, k[1])
                    /\ kept[k].generation \in Nat /\ kept[k].generation <= gen
                    /\ kept[k].generation = gen =>
                         kept[k].text = Haystack(c, CardsOf(c, q, k[1])[k[2]])
  BY DEF IndexFits, kept
<1>2. k \in S /\ kept[k] = idx[k]
  BY <1>1
<1>3. /\ k \in PlanningViews \X DOMAIN CardsOf(b, p, k[1])
      /\ idx[k].generation \in Nat /\ idx[k].generation <= gen
      /\ idx[k].generation = gen => idx[k].text = Haystack(b, CardsOf(b, p, k[1])[k[2]])
  BY <1>2 DEF IndexFits
<1>4. Haystack(c, CardsOf(c, q, k[1])[k[2]]) = Haystack(b, CardsOf(b, p, k[1])[k[2]])
  BY <1>2 DEF Haystack
<1>5. k[2] \in DOMAIN CardsOf(c, q, k[1])
  BY <1>2
<1>6. k \in PlanningViews \X DOMAIN CardsOf(c, q, k[1])
  <2>1. k = <<k[1], k[2]>> /\ k[1] \in PlanningViews
    BY <1>3
  <2> QED
    BY <1>5, <2>1
<1> QED
  BY <1>2, <1>3, <1>4, <1>6

\* What the server answers.
LEMMA RefreshKeepsList ==
  ASSUME ListInv, NEW b \in Boards, NEW p, ListRefresh(b, p)
  PROVE  ListInv'
<1> DEFINE l == [list EXCEPT !.filters = KnownFilters(@, b), !.scope = KnownScope(@, b)]
           idx == Restrict(index, Kept(b, index))
<1>1. /\ loaded' = b /\ page' = p /\ generation' = generation + 1
      /\ list' = [l EXCEPT !.settled = FALSE]
      /\ Renders(b, p, l, generation + 1, idx)
  BY DEF ListRefresh
<1>2. IsList(l)
  BY DEF ListInv, IsList, ListFields, KnownFilters
<1>3. generation \in Nat /\ WellFormed(b)
  BY LensAssumption DEF ListInv
<1>4. DOMAIN idx = Kept(b, index) /\ \A k \in DOMAIN idx : idx[k] = index[k]
  BY DEF Restrict
<1> HIDE DEF idx, l
<1>5. IndexFits(b, p, generation + 1, idx)
  <2> SUFFICES ASSUME NEW k \in DOMAIN idx
               PROVE  /\ k \in PlanningViews \X DOMAIN CardsOf(b, p, k[1])
                      /\ idx[k].generation \in Nat /\ idx[k].generation <= generation + 1
                      /\ idx[k].generation # generation + 1
    BY DEF IndexFits
  <2>1. /\ k \in DOMAIN index /\ idx[k] = index[k]
        /\ k[1] = "board" /\ k[2] \in DOMAIN b.cards
    BY <1>4 DEF Kept
  <2>2. /\ k \in PlanningViews \X DOMAIN CardsOf(loaded, page, k[1])
        /\ index[k].generation \in Nat /\ index[k].generation <= generation
    BY <2>1 DEF ListInv, IndexFits
  <2>3. k = <<k[1], k[2]>> /\ DOMAIN CardsOf(b, p, k[1]) = DOMAIN b.cards
    BY <2>1, <2>2 DEF CardsOf
  <2>4. k \in PlanningViews \X DOMAIN CardsOf(b, p, k[1])
    BY <2>1, <2>2, <2>3
  <2> QED
    BY <1>3, <2>1, <2>2, <2>4
<1>6. /\ WellFormed(loaded') /\ generation' \in Nat
      /\ IndexFits(loaded', page', generation', idx)
      /\ Renders(loaded', page', l, generation', idx)
  BY <1>1, <1>3, <1>5
<1> QED
  BY <1>1, <1>2, <1>6, RenderKeepsList

LEMMA PagesKeepList ==
  ASSUME ListInv, (\E p : ListArchivePage(p)) \/ (\E c : ListRestore(c))
  PROVE  ListInv'
<1>0. /\ WellFormed(loaded) /\ IsList(list) /\ generation \in Nat
      /\ IndexFits(loaded, page, generation, index)
  BY DEF ListInv
<1>1. PICK S \in SUBSET DOMAIN index :
        /\ list' = [list EXCEPT !.settled = FALSE] /\ UNCHANGED <<loaded, generation>>
        /\ Renders(loaded, page', list, generation, Restrict(index, S))
        /\ \A k \in S : \/ k[1] = "board"
                        \/ /\ k[2] \in DOMAIN page'
                           /\ page'[k[2]] = page[k[2]]
  <2>1. CASE \E p : ListArchivePage(p)
    <3>1. {k \in DOMAIN index : k[1] = "board"} \in SUBSET DOMAIN index
      OBVIOUS
    <3> QED
      BY <2>1, <3>1 DEF ListArchivePage
  <2>2. CASE \E c : ListRestore(c)
    <3>1. PICK c : ListRestore(c)
      BY <2>2
    <3> DEFINE S == DOMAIN index \ {<<"archive", c>>}
    <3>2. \A k \in S : k[1] # "board" => k[1] = "archive" /\ k[2] \in DOMAIN page /\ k[2] # c
      <4> SUFFICES ASSUME NEW k \in DOMAIN index, k # <<"archive", c>>, k[1] # "board"
                   PROVE  k[1] = "archive" /\ k[2] \in DOMAIN page /\ k[2] # c
        OBVIOUS
      <4>1. k \in PlanningViews \X DOMAIN CardsOf(loaded, page, k[1])
        BY <1>0 DEF IndexFits
      <4>2. k = <<k[1], k[2]>> /\ k[1] = "archive" /\ k[2] \in DOMAIN page
        BY <4>1 DEF CardsOf, PlanningViews
      <4> QED
        BY <4>2
    <3>3. DOMAIN page' = DOMAIN page \ {c} /\ \A d \in DOMAIN page' : page'[d] = page[d]
      BY <3>1 DEF ListRestore, Restrict
    <3>4. /\ list' = [list EXCEPT !.settled = FALSE] /\ UNCHANGED <<loaded, generation>>
          /\ Renders(loaded, page', list, generation, Restrict(index, S))
      BY <3>1 DEF ListRestore
    <3> QED
      BY <3>2, <3>3, <3>4
  <2> QED
    BY <2>1, <2>2
<1>2. \A k \in S : /\ k[2] \in DOMAIN CardsOf(loaded, page', k[1])
                   /\ CardsOf(loaded, page', k[1])[k[2]] = CardsOf(loaded, page, k[1])[k[2]]
  <2> SUFFICES ASSUME NEW k \in S
               PROVE  /\ k[2] \in DOMAIN CardsOf(loaded, page', k[1])
                      /\ CardsOf(loaded, page', k[1])[k[2]]
                           = CardsOf(loaded, page, k[1])[k[2]]
    OBVIOUS
  <2>1. k \in PlanningViews \X DOMAIN CardsOf(loaded, page, k[1])
    BY <1>0 DEF IndexFits
  <2>2. k[1] \in {"board", "archive"} /\ k[2] \in DOMAIN CardsOf(loaded, page, k[1])
    BY <2>1 DEF PlanningViews
  <2> QED
    BY <1>1, <2>2 DEF CardsOf
<1>3. IndexFits(loaded, page', generation, Restrict(index, S))
  <2> DEFINE q == page'
  <2>1. \A k \in S : /\ k[2] \in DOMAIN CardsOf(loaded, q, k[1])
                     /\ CardsOf(loaded, q, k[1])[k[2]] = CardsOf(loaded, page, k[1])[k[2]]
    BY <1>2
  <2> HIDE DEF q
  <2>2. IndexFits(loaded, q, generation, Restrict(index, S))
    BY <1>0, <2>1, RestrictFits
  <2> QED
    BY <2>2 DEF q
<1>4. /\ WellFormed(loaded') /\ generation' \in Nat
      /\ IndexFits(loaded', page', generation', Restrict(index, S))
      /\ Renders(loaded', page', list, generation', Restrict(index, S))
  BY <1>0, <1>1, <1>3
<1> QED
  BY <1>0, <1>1, <1>4, RenderKeepsList

\* A card is placed or archived before the server answers.
LEMMA GuessesKeepList ==
  ASSUME ListInv,
         \/ \E c \in DOMAIN loaded.cards : \E column, ranked : ListPlace(c, column, ranked)
         \/ \E c : ListArchive(c)
  PROVE  ListInv'
<1>0. /\ WellFormed(loaded) /\ IsList(list) /\ generation \in Nat
      /\ IndexFits(loaded, page, generation, index)
  BY DEF ListInv
<1>1. PICK S, c :
        /\ S \in SUBSET DOMAIN index
        /\ list' = [list EXCEPT !.settled = FALSE] /\ UNCHANGED <<page, generation>>
        /\ Renders(loaded', page, list, generation, Restrict(index, S))
        /\ <<"board", c>> \notin S
        /\ \/ \E column : loaded' = [loaded EXCEPT !.cards[c].column = column]
           \/ loaded' = [loaded EXCEPT !.cards = Restrict(@, DOMAIN @ \ {c})]
  <2>1. ASSUME NEW c, NEW column, NEW ranked, ListPlace(c, column, ranked)
        PROVE  \E S \in SUBSET DOMAIN index :
                 /\ list' = [list EXCEPT !.settled = FALSE] /\ UNCHANGED <<page, generation>>
                 /\ Renders(loaded', page, list, generation, Restrict(index, S))
                 /\ <<"board", c>> \notin S
                 /\ loaded' = [loaded EXCEPT !.cards[c].column = column]
    <3> DEFINE S == {k \in DOMAIN index : k[1] = "board" => k[2] \notin ranked \cup {c}}
    <3>1. S \in SUBSET DOMAIN index /\ <<"board", c>> \notin S
      OBVIOUS
    <3>2. /\ list' = [list EXCEPT !.settled = FALSE] /\ UNCHANGED <<page, generation>>
          /\ Renders(loaded', page, list, generation, Restrict(index, S))
          /\ loaded' = [loaded EXCEPT !.cards[c].column = column]
      BY <2>1 DEF ListPlace
    <3> HIDE DEF S
    <3> QED
      BY <3>1, <3>2
  <2>2. ASSUME NEW c, ListArchive(c)
        PROVE  \E S \in SUBSET DOMAIN index :
                 /\ list' = [list EXCEPT !.settled = FALSE] /\ UNCHANGED <<page, generation>>
                 /\ Renders(loaded', page, list, generation, Restrict(index, S))
                 /\ <<"board", c>> \notin S
                 /\ loaded' = [loaded EXCEPT !.cards = Restrict(@, DOMAIN @ \ {c})]
    <3> DEFINE S == DOMAIN index \ {<<"board", c>>}
    <3>1. S \in SUBSET DOMAIN index /\ <<"board", c>> \notin S
      OBVIOUS
    <3>2. /\ list' = [list EXCEPT !.settled = FALSE] /\ UNCHANGED <<page, generation>>
          /\ Renders(loaded', page, list, generation, Restrict(index, S))
          /\ loaded' = [loaded EXCEPT !.cards = Restrict(@, DOMAIN @ \ {c})]
      BY <2>2 DEF ListArchive
    <3> HIDE DEF S
    <3> QED
      BY <3>1, <3>2
  <2> QED
    BY <2>1, <2>2, ZenonT(40)
<1>2. /\ WellFormed(loaded') /\ loaded'.names = loaded.names
      /\ \A d \in DOMAIN loaded.cards \ {c} :
           d \in DOMAIN loaded'.cards /\ loaded'.cards[d] = loaded.cards[d]
  <2>0. DOMAIN loaded = {"known", "names", "columns", "sprints", "scoped", "cards", "archive"}
    BY <1>0 DEF WellFormed
  <2>1. CASE \E column : loaded' = [loaded EXCEPT !.cards[c].column = column]
    <3>1. PICK column : loaded' = [loaded EXCEPT !.cards[c].column = column]
      BY <2>1
    <3>2. /\ DOMAIN loaded' = DOMAIN loaded /\ loaded'.names = loaded.names
          /\ loaded'.known = loaded.known /\ loaded'.sprints = loaded.sprints
          /\ loaded'.cards = [loaded.cards EXCEPT ![c].column = column]
      BY <2>0, <3>1
    <3>3. /\ DOMAIN loaded'.cards = DOMAIN loaded.cards
          /\ \A d \in DOMAIN loaded.cards :
               /\ DOMAIN loaded'.cards[d] = DOMAIN loaded.cards[d]
               /\ d # c => loaded'.cards[d] = loaded.cards[d]
      BY <3>2
    <3>4. \A d \in DOMAIN loaded.cards : loaded'.cards[d].sprints = loaded.cards[d].sprints
      BY <1>0, <3>2 DEF WellFormed
    <3> QED
      BY <1>0, <3>2, <3>3, <3>4 DEF WellFormed
  <2>2. CASE loaded' = [loaded EXCEPT !.cards = Restrict(@, DOMAIN @ \ {c})]
    <3>1. /\ DOMAIN loaded' = DOMAIN loaded /\ loaded'.names = loaded.names
          /\ loaded'.known = loaded.known /\ loaded'.sprints = loaded.sprints
          /\ loaded'.cards = Restrict(loaded.cards, DOMAIN loaded.cards \ {c})
      BY <2>0, <2>2
    <3>2. /\ DOMAIN loaded'.cards = DOMAIN loaded.cards \ {c}
          /\ \A d \in DOMAIN loaded'.cards : loaded'.cards[d] = loaded.cards[d]
      BY <3>1 DEF Restrict
    <3>3. IsFiniteSet(DOMAIN loaded'.cards)
      BY <1>0, <3>2, FS_RemoveElement DEF WellFormed
    <3> QED
      BY <1>0, <3>1, <3>2, <3>3 DEF WellFormed
  <2> QED
    BY <1>1, <2>1, <2>2
<1>3. IndexFits(loaded', page, generation, Restrict(index, S))
  <2> DEFINE b == loaded'
  <2>1. \A k \in S : /\ k[2] \in DOMAIN CardsOf(b, page, k[1])
                     /\ CardsOf(b, page, k[1])[k[2]] = CardsOf(loaded, page, k[1])[k[2]]
    <3> SUFFICES ASSUME NEW k \in S
                 PROVE  /\ k[2] \in DOMAIN CardsOf(b, page, k[1])
                        /\ CardsOf(b, page, k[1])[k[2]] = CardsOf(loaded, page, k[1])[k[2]]
      OBVIOUS
    <3>1. k \in PlanningViews \X DOMAIN CardsOf(loaded, page, k[1])
      BY <1>0, <1>1 DEF IndexFits
    <3>2. k = <<k[1], k[2]>> /\ k[1] \in {"board", "archive"}
          /\ k[2] \in DOMAIN CardsOf(loaded, page, k[1])
      BY <3>1 DEF PlanningViews
    <3>3. k[1] = "board" => k[2] # c
      BY <1>1, <3>2
    <3> QED
      BY <1>2, <3>2, <3>3 DEF CardsOf
  <2>2. b.names = loaded.names
    BY <1>2
  <2> HIDE DEF b
  <2>3. IndexFits(b, page, generation, Restrict(index, S))
    BY <1>0, <1>1, <2>1, <2>2, RestrictFits
  <2> QED
    BY <2>3 DEF b
<1>4. /\ WellFormed(loaded') /\ generation' \in Nat
      /\ IndexFits(loaded', page', generation', Restrict(index, S))
      /\ Renders(loaded', page', list, generation', Restrict(index, S))
  BY <1>0, <1>1, <1>2, <1>3
<1> QED
  BY <1>0, <1>1, <1>4, RenderKeepsList

LEMMA PruningKeepsList ==
  ASSUME ListInv, PruneSelection
  PROVE  ListInv'
<1>1. PICK bulk : list' = [list EXCEPT !.settled = TRUE, !.bulk = bulk]
  BY DEF PruneSelection
<1>2. UNCHANGED <<loaded, page, generation, index, shown>>
  BY DEF PruneSelection
<1>3. /\ IsList(list') /\ list'.body = list.body /\ list'.scope = list.scope
      /\ list'.filters = list.filters /\ list'.query = list.query
  BY <1>1 DEF ListInv, IsList, ListFields
<1>4. ShownIsCurrent'
  BY <1>2, <1>3 DEF ListInv, ShownIsCurrent, Candidates
<1> QED
  BY <1>2, <1>3, <1>4 DEF ListInv

LEMMA ListInvariant == ListSpec => []ListInv
<1>1. ListInit => ListInv
  <2> SUFFICES ASSUME ListInit PROVE ListInv
    OBVIOUS
  <2>1. /\ loaded \in Boards /\ generation = 0 /\ index = <<>>
        /\ list = [view |-> "board", body |-> "board", presentation |-> "list",
                   scope |-> "active", filters |-> EmptyFilters, query |-> None,
                   bulk |-> <<>>, settled |-> TRUE]
        /\ shown = Candidates(loaded, page, list)
    BY DEF ListInit
  <2>2. WellFormed(loaded)
    BY <2>1, LensAssumption
  <2>3. IsList(list) /\ list.query = None
    BY <2>1 DEF IsList, ListFields, PlanningViews, EmptyFilters
  <2>4. IndexFits(loaded, page, generation, index)
    <3>1. DOMAIN index = {}
      BY <2>1
    <3> QED
      BY <3>1 DEF IndexFits
  <2>5. ShownIsCurrent
    <3>1. Candidates(loaded, page, list)
            = {c \in Candidates(loaded, page, list) :
                 list.query = None
                   \/ list.query \in Haystack(loaded, CardsOf(loaded, page, list.body)[c])}
      BY <2>3
    <3> QED
      BY <2>1, <3>1 DEF ShownIsCurrent
  <2> QED
    BY <2>1, <2>2, <2>3, <2>4, <2>5 DEF ListInv
<1>2. ListInv /\ [ListNext]_listVars => ListInv'
  <2> SUFFICES ASSUME ListInv, [ListNext]_listVars PROVE ListInv'
    OBVIOUS
  <2>1. CASE UNCHANGED listVars
    BY <2>1 DEF listVars, ListInv, IsList, IndexFits, ShownIsCurrent, WellFormed, Haystack,
                CardsOf, Candidates
  <2>2. CASE \/ \E view : ListNavigate(view)
             \/ \E presentation : ListPresent(presentation)
             \/ \E scope : ListScope(scope)
             \/ \E name, value : ListAddFilter(name, value) \/ ListRemoveFilter(name, value)
             \/ ListClearFilters
             \/ \E query : Search(query)
             \/ \E project : ListOpenProject(project)
             \/ \E sprint : ListViewSprint(sprint)
             \/ \E url : ListTravel(url)
             \/ \E c : SetBulkSelected(c)
             \/ SelectAllBulk \/ ClearBulk \/ RunBulk
    BY <2>2, ChoicesKeepList
  <2>3. CASE PruneSelection
    BY <2>3, PruningKeepsList
  <2>4. CASE \E b \in Boards : \E p : ListRefresh(b, p)
    BY <2>4, RefreshKeepsList
  <2>5. CASE (\E p : ListArchivePage(p)) \/ (\E c : ListRestore(c))
    BY <2>5, PagesKeepList
  <2>6. CASE \/ \E c \in DOMAIN loaded.cards : \E column, ranked : ListPlace(c, column, ranked)
             \/ \E c : ListArchive(c)
    BY <2>6, GuessesKeepList
  <2>7. ListNext =>
          \/ \/ \E view : ListNavigate(view)
             \/ \E presentation : ListPresent(presentation)
             \/ \E scope : ListScope(scope)
             \/ \E name, value : ListAddFilter(name, value) \/ ListRemoveFilter(name, value)
             \/ ListClearFilters
             \/ \E query : Search(query)
             \/ \E project : ListOpenProject(project)
             \/ \E sprint : ListViewSprint(sprint)
             \/ \E url : ListTravel(url)
             \/ \E c : SetBulkSelected(c)
             \/ SelectAllBulk \/ ClearBulk \/ RunBulk
          \/ PruneSelection
          \/ \E b \in Boards : \E p : ListRefresh(b, p)
          \/ (\E p : ListArchivePage(p)) \/ (\E c : ListRestore(c))
          \/ \/ \E c \in DOMAIN loaded.cards : \E column, ranked : ListPlace(c, column, ranked)
             \/ \E c : ListArchive(c)
    BY DEF ListNext
  <2> QED
    BY <2>1, <2>2, <2>3, <2>4, <2>5, <2>6, <2>7
<1> QED
  BY <1>1, <1>2, PTL DEF ListSpec

\* However boards, pages, names and searches follow each other, the cards shown
\* are the ones a search of the present names finds: no text kept with a card
\* object outlives the names it was made of.
THEOREM SearchIsCurrent == ListSpec => []ShownIsCurrent
<1>1. ListInv => ShownIsCurrent
  BY DEF ListInv
<1> QED
  BY <1>1, ListInvariant, PTL

-----------------------------------------------------------------------------
(* The selection.                                                          *)

\* No card is ticked twice, and once the list's effect ran the ticked ones are
\* shown and can be changed.
Changeable == {c \in shown : Selectable(c)}
SelectionInv ==
  /\ Distinct(list.bulk)
  /\ list.settled /\ InList(list) => Ticked(list) \subseteq Changeable

LEMMA SetsUnsettles ==
  ASSUME NEW l, IsList(l), Sets(l), Distinct(l.bulk)
  PROVE  SelectionInv'
<1>1. list' = [l EXCEPT !.settled = FALSE]
  BY DEF Sets
<1>2. list'.settled = FALSE /\ list'.bulk = l.bulk
  BY <1>1 DEF IsList, ListFields
<1> QED
  BY <1>2 DEF SelectionInv

\* What is ticked by hand.
LEMMA TickingKeepsSelection ==
  ASSUME ListInv, SelectionInv,
         (\E c : SetBulkSelected(c)) \/ SelectAllBulk \/ ClearBulk \/ RunBulk
  PROVE  SelectionInv'
<1>0. IsList(list) /\ Distinct(list.bulk) /\ IsFiniteSet(DOMAIN loaded.cards)
  BY DEF ListInv, SelectionInv, WellFormed
<1>1. ASSUME NEW bulk, Sets([list EXCEPT !.bulk = bulk]), Distinct(bulk)
      PROVE  SelectionInv'
  <2> DEFINE l == [list EXCEPT !.bulk = bulk]
  <2>1. IsList(l) /\ l.bulk = bulk
    BY <1>0 DEF IsList, ListFields
  <2>2. Sets(l) /\ Distinct(l.bulk)
    BY <1>1, <2>1
  <2> HIDE DEF l
  <2> QED
    BY <2>1, <2>2, SetsUnsettles
<1>2. ASSUME NEW c, SetBulkSelected(c) PROVE SelectionInv'
  <2> DEFINE bulk == IF Contains(list.bulk, c) THEN Without(list.bulk, c)
                     ELSE Append(list.bulk, c)
  <2>1. Sets([list EXCEPT !.bulk = bulk])
    BY <1>2 DEF SetBulkSelected
  <2>2. CASE Contains(list.bulk, c)
    <3>1. Distinct(Without(list.bulk, c))
      BY <1>0, OnlyOf DEF Without
    <3> QED
      BY <1>1, <2>1, <2>2, <3>1
  <2>3. CASE ~Contains(list.bulk, c)
    <3>1. c \notin ToSet(list.bulk)
      BY <1>0, <2>3, DistinctFacts DEF Contains
    <3>2. Distinct(Append(list.bulk, c))
      BY <1>0, <3>1, DistinctAppend
    <3> QED
      BY <1>1, <2>1, <2>3, <3>2
  <2> QED
    BY <2>2, <2>3
<1>3. CASE SelectAllBulk
  <2> DEFINE rest == {c \in shown : Selectable(c)} \ Ticked(list)
  <2>1. Sets([list EXCEPT !.bulk = list.bulk \o SetToSeq(rest)])
    BY <1>3 DEF SelectAllBulk
  <2>2. IsFiniteSet(rest)
    <3>1. rest \in SUBSET DOMAIN loaded.cards
      BY DEF Selectable
    <3> QED
      BY <1>0, <3>1, FS_Subset
  <2>3. ToSet(list.bulk) \cap rest = {}
    BY DEF Ticked
  <2> HIDE DEF rest
  <2>4. Distinct(SetToSeq(rest)) /\ ToSet(SetToSeq(rest)) = rest
    BY <2>2, DistinctSetToSeq
  <2>5. Distinct(list.bulk \o SetToSeq(rest))
    BY <1>0, <2>3, <2>4, DistinctConcat
  <2> QED
    BY <1>1, <2>1, <2>5
<1>4. CASE ClearBulk \/ RunBulk
  <2>1. Sets([list EXCEPT !.bulk = <<>>])
    BY <1>4 DEF ClearBulk, RunBulk
  <2> QED
    BY <1>1, <2>1, EmptyIsDistinct
<1> QED
  BY <1>2, <1>3, <1>4

\* Everything else that renders leaves the selection alone, or clears it.
LEMMA RendersKeepSelection ==
  ASSUME ListInv, SelectionInv,
         \/ \E view : ListNavigate(view)
         \/ \E presentation : ListPresent(presentation)
         \/ \E scope : ListScope(scope)
         \/ \E name, value : ListAddFilter(name, value) \/ ListRemoveFilter(name, value)
         \/ ListClearFilters
         \/ \E query : Search(query)
         \/ \E project : ListOpenProject(project)
         \/ \E sprint : ListViewSprint(sprint)
         \/ \E url : ListTravel(url)
         \/ \E b, p : ListRefresh(b, p)
         \/ \E p : ListArchivePage(p)
         \/ \E c, column, ranked : ListPlace(c, column, ranked)
         \/ \E c : ListArchive(c) \/ ListRestore(c)
  PROVE  SelectionInv'
<1>1. IsList(list) /\ Distinct(list.bulk)
  BY DEF ListInv, SelectionInv
<1>2. /\ list'.settled = FALSE
      /\ list'.bulk \in {list.bulk, <<>>}
  <2>1. DOMAIN list = ListFields
    BY <1>1 DEF IsList
  <2> QED
    BY <2>1 DEF ListFields, Sets, ListNavigate, ListPresent, ListScope, ListAddFilter,
      ListRemoveFilter, ListClearFilters, Search, ListOpenProject, ListViewSprint, ListTravel,
      ListRefresh, ListArchivePage, ListPlace, ListArchive, ListRestore
<1>3. Distinct(list'.bulk)
  BY <1>1, <1>2, EmptyIsDistinct
<1> QED
  BY <1>2, <1>3 DEF SelectionInv

LEMMA PruningSelects ==
  ASSUME ListInv, SelectionInv, PruneSelection
  PROVE  SelectionInv'
<1> DEFINE bulk == IF InList(list) THEN Only(list.bulk, Changeable) ELSE list.bulk
<1>1. IsList(list) /\ Distinct(list.bulk)
  BY DEF ListInv, SelectionInv
<1>2. /\ list' = [list EXCEPT !.settled = TRUE, !.bulk = bulk]
      /\ UNCHANGED <<loaded, shown>>
  BY DEF PruneSelection, Changeable
<1> HIDE DEF bulk
<1>3. list'.bulk = bulk /\ InList(list') = InList(list)
  BY <1>1, <1>2 DEF IsList, ListFields, InList
<1>4. Changeable' = Changeable
  BY <1>2 DEF Changeable, Selectable
<1>5. /\ Distinct(Only(list.bulk, Changeable))
      /\ ToSet(Only(list.bulk, Changeable)) = ToSet(list.bulk) \cap Changeable
  BY <1>1, OnlyOf
<1>6. Distinct(bulk) /\ (InList(list) => ToSet(bulk) \subseteq Changeable)
  BY <1>1, <1>5 DEF bulk
<1>7. Ticked(list') = ToSet(bulk)
  BY <1>3 DEF Ticked
<1> QED
  BY <1>3, <1>4, <1>6, <1>7 DEF SelectionInv

LEMMA SelectionInvariant == ListSpec => [](ListInv /\ SelectionInv)
<1>1. ListInit => SelectionInv
  <2> SUFFICES ASSUME ListInit
               PROVE  SelectionInv
    OBVIOUS
  <2>1. list.bulk = <<>>
    BY DEF ListInit
  <2>2. Distinct(list.bulk) /\ Ticked(list) = {}
    BY <2>1, EmptyIsDistinct DEF Ticked
  <2> QED
    BY <2>2 DEF SelectionInv
<1>2. ListInv /\ SelectionInv /\ [ListNext]_listVars => SelectionInv'
  <2> SUFFICES ASSUME ListInv, SelectionInv, [ListNext]_listVars
               PROVE  SelectionInv'
    OBVIOUS
  <2>1. CASE UNCHANGED listVars
    BY <2>1 DEF listVars, SelectionInv, Changeable, Selectable, Ticked, InList
  <2>2. CASE ListNext
    <3>1. ASSUME (\E c : SetBulkSelected(c)) \/ SelectAllBulk \/ ClearBulk \/ RunBulk
          PROVE  SelectionInv'
      BY <3>1, TickingKeepsSelection
    <3>2. ASSUME \/ \E view : ListNavigate(view)
                 \/ \E presentation : ListPresent(presentation)
                 \/ \E scope : ListScope(scope)
                 \/ \E name, value : ListAddFilter(name, value) \/ ListRemoveFilter(name, value)
                 \/ ListClearFilters
                 \/ \E query : Search(query)
                 \/ \E project : ListOpenProject(project)
                 \/ \E sprint : ListViewSprint(sprint)
                 \/ \E url : ListTravel(url)
                 \/ \E b, p : ListRefresh(b, p)
                 \/ \E p : ListArchivePage(p)
                 \/ \E c, column, ranked : ListPlace(c, column, ranked)
                 \/ \E c : ListArchive(c) \/ ListRestore(c)
          PROVE  SelectionInv'
      BY <3>2, RendersKeepSelection
    <3>3. ASSUME PruneSelection PROVE SelectionInv'
      BY <3>3, PruningSelects
    <3> QED
      BY <2>2, <3>1, <3>2, <3>3 DEF ListNext
  <2> QED
    BY <2>1, <2>2
<1> QED
  BY <1>1, <1>2, ListInvariant, PTL DEF ListSpec

\* What a bulk command of the list acts on is what the list shows as ticked.
THEOREM SelectionStaysShown == ListSpec => []SelectionIsShown
<1>1. ListInv /\ SelectionInv => SelectionIsShown
  <2> SUFFICES ASSUME ListInv, SelectionInv, list.settled, InList(list)
               PROVE  /\ BulkTargets(list) = list.bulk
                      /\ Ticked(list) \subseteq shown /\ Cardinality(Ticked(list)) = Len(list.bulk)
    BY DEF SelectionIsShown
  <2> DEFINE can == {c \in DOMAIN loaded.cards : Selectable(c)}
  <2>1. Distinct(list.bulk) /\ Ticked(list) \subseteq Changeable
    BY DEF SelectionInv
  <2>2. ToSet(list.bulk) \subseteq can
    BY <2>1 DEF Changeable, Selectable, Ticked
  <2> HIDE DEF can
  <2>3. Only(list.bulk, can) = list.bulk
    BY <2>1, <2>2, OnlyAll
  <2>4. BulkTargets(list) = list.bulk
    BY <2>3 DEF BulkTargets, can
  <2>5. Cardinality(Ticked(list)) = Len(list.bulk)
    BY <2>1, DistinctCounts DEF Ticked
  <2> QED
    BY <2>1, <2>4, <2>5 DEF Changeable
<1> QED
  BY <1>1, SelectionInvariant, PTL

-----------------------------------------------------------------------------
(* The counts outside the body *)

LEMMA FilterOfOne ==
  ASSUME NEW value, value # "none", NEW candidates
  PROVE  MatchesFilter(<<value>>, candidates) <=> value \in candidates
<1>1. <<value>> # <<>> /\ ~Contains(<<value>>, "none") /\ ToSet(<<value>>) = {value}
  BY DEF Contains, ToSet
<1> QED
  BY <1>1 DEF MatchesFilter

LEMMA LoneProject ==
  ASSUME NEW project, project # "none", NEW card
  PROVE  MatchesItemFilters(card, [EmptyFilters EXCEPT !.project = <<project>>])
           <=> project \in card.projects
<1> DEFINE lone == [EmptyFilters EXCEPT !.project = <<project>>]
<1>1. lone.project = <<project>> /\ lone.assignee = <<>> /\ lone.label = <<>>
  BY DEF EmptyFilters, FilterNames
<1>2. MatchesFilter(<<project>>, card.projects) <=> project \in card.projects
  BY FilterOfOne
<1>3. \A candidates : MatchesFilter(<<>>, candidates)
  BY DEF MatchesFilter
<1> HIDE DEF lone
<1>4. MatchesItemFilters(card, lone) <=> project \in card.projects
  BY <1>1, <1>2, <1>3 DEF MatchesItemFilters, MatchesWork
<1> QED
  BY <1>4 DEF lone

\* Of every board, the counts of the project summaries and the sprint panels are
\* the numbers of cards Planning shows for the same lens.
THEOREM CountsAgree == ListSpec => []CountsMatchTheView
<1>1. ListInv => CountsMatchTheView
  <2> SUFFICES ASSUME ListInv PROVE CountsMatchTheView
    OBVIOUS
  <2>1. WellFormed(loaded) /\ DOMAIN list.filters = FilterNames
    BY DEF ListInv, IsList
  <2>2. /\ DOMAIN loaded.sprints \cap {"active", "backlog", "all"} = {}
        /\ \A c \in DOMAIN loaded.cards : loaded.cards[c].sprints \subseteq DOMAIN loaded.sprints
        /\ "none" \notin loaded.known["project"]
    BY <2>1 DEF WellFormed, FixedScopes
  <2>3. ASSUME NEW project \in loaded.known.project
        PROVE  LET lone == [EmptyFilters EXCEPT !.project = <<project>>]
               IN  /\ InPlanning("all", lone) = ProjectItems(project)
                   /\ InPlanning("backlog", lone) = Unscheduled(project)
                   /\ \A s \in ActiveSprints(project) :
                        InPlanning(s, lone) = Coverage(project, s)
                   /\ InPlanning("active", lone)
                        = UNION {Coverage(project, s) : s \in ActiveSprints(project)}
    <3> DEFINE lone == [EmptyFilters EXCEPT !.project = <<project>>]
    <3>1. \A scope : InPlanning(scope, lone)
            = {c \in DOMAIN loaded.cards :
                 InScope(loaded, c, scope) /\ project \in loaded.cards[c].projects}
      BY <2>2, LoneProject DEF InPlanning, FilteredItems
    <3> HIDE DEF lone
    <3>2. InPlanning("all", lone) = ProjectItems(project)
      BY <2>2, <3>1 DEF InScope, ProjectItems
    <3>3. InPlanning("backlog", lone) = Unscheduled(project)
      BY <2>2, <3>1 DEF InScope, ProjectItems, Unscheduled
    <3>4. ASSUME NEW s \in ActiveSprints(project)
          PROVE  InPlanning(s, lone) = Coverage(project, s)
      <4>1. s \in DOMAIN loaded.sprints /\ loaded.sprints[s] = "active"
            /\ s # "active" /\ s # "backlog"
        BY <2>2 DEF ActiveSprints
      <4> QED
        BY <3>1, <4>1 DEF InScope, ScopeItems, Coverage, ProjectItems
    <3>5. InPlanning("active", lone)
            = UNION {Coverage(project, s) : s \in ActiveSprints(project)}
      BY <2>2, <3>1 DEF InScope, Coverage, ProjectItems, ActiveSprints
    <3> QED
      BY <3>2, <3>3, <3>4, <3>5 DEF lone
  <2>4. ASSUME NEW s \in DOMAIN loaded.sprints
        PROVE  LET counted == [list.filters EXCEPT !.label = <<>>]
               IN  InPlanning(s, counted) = PanelItems(s, counted)
    <3> DEFINE counted == [list.filters EXCEPT !.label = <<>>]
    <3>1. counted.label = <<>>
      BY <2>1 DEF FilterNames
    <3> HIDE DEF counted
    <3>2. s # "active" /\ s # "backlog"
      BY <2>2
    <3>3. \A card : MatchesItemFilters(card, counted) <=> MatchesWork(card, counted)
      BY <3>1 DEF MatchesItemFilters, MatchesFilter
    <3>4. ScopeItems(loaded, s) \subseteq DOMAIN loaded.cards
          /\ \A c \in ScopeItems(loaded, s) :
               loaded.sprints[s] # "closed" => ~loaded.cards[c].archived
      BY DEF ScopeItems
    <3>5. InPlanning(s, counted) = PanelItems(s, counted)
      BY <3>2, <3>3, <3>4 DEF InPlanning, FilteredItems, InScope, PanelItems
    <3> QED
      BY <3>5 DEF counted
  <2> QED
    BY <2>3, <2>4 DEF CountsMatchTheView
<1> QED
  BY <1>1, ListInvariant, PTL

-----------------------------------------------------------------------------
(* The address and the open card: the inductive invariant *)

TabFields ==
  {"view", "shared", "detail", "editor", "editorItem", "push", "fresh", "lens", "entries", "at"}

\* A history, a place in it, and a card's editor under the card's name.
IsTab(t) ==
  /\ DOMAIN t = TabFields /\ DOMAIN t.lens = {"presentation", "scope", "filters"}
  /\ t.entries \in Seq(ToSet(t.entries)) /\ t.at \in 1..Len(t.entries)
  /\ t.detail \in {None} \cup Panes
  /\ t.editor \in {None, OtherDialog} \cup AllCards
  /\ t.editor \in AllCards => t.editorItem = t.editor

\* The card shared is the one in the pane, else the one in the editor, else none
\* or one of those that are still being read.
Fits(t, pending) ==
  /\ t.detail # None => ListPresentation(t) /\ t.shared = t.detail.card
  /\ t.detail = None /\ t.editor \in AllCards => t.shared = t.editor
  /\ t.detail = None /\ t.editor \notin AllCards /\ t.shared # None => t.shared \in pending

NavigationInv ==
  /\ board \in Boards /\ IsTab(tab) /\ tab.entries[tab.at] = Address(tab)
  /\ ~strayed => Fits(tab, reads)

-----------------------------------------------------------------------------
(* The history of a tab *)

LEMMA OwnElements ==
  ASSUME NEW S, NEW e \in Seq(S)
  PROVE  e \in Seq(ToSet(e))
<1>1. Len(e) \in Nat /\ e \in [1..Len(e) -> S]
  BY LenProperties
<1>2. e \in [1..Len(e) -> ToSet(e)]
  BY <1>1 DEF ToSet
<1> QED
  BY <1>1, <1>2, SeqDef

\* An entry is replaced.
LEMMA EntryReplaced ==
  ASSUME NEW e, e \in Seq(ToSet(e)), NEW i \in 1..Len(e), NEW x
  PROVE  LET f == [e EXCEPT ![i] = x]
         IN  f \in Seq(ToSet(f)) /\ i \in 1..Len(f) /\ f[i] = x
<1> DEFINE S == ToSet(e) \cup {x}
           f == [e EXCEPT ![i] = x]
<1>1. e \in Seq(S) /\ x \in S
  BY SeqMonotonic
<1> HIDE DEF S
<1>2. f \in Seq(S) /\ Len(f) = Len(e) /\ f[i] = x
  BY <1>1, ExceptSeq
<1> HIDE DEF f
<1>3. f \in Seq(ToSet(f)) /\ i \in 1..Len(f) /\ f[i] = x
  BY <1>2, OwnElements
<1> QED
  BY <1>3 DEF f

\* An entry is pushed over those after the present one.
LEMMA EntryPushed ==
  ASSUME NEW e, e \in Seq(ToSet(e)), NEW i \in 1..Len(e), NEW x
  PROVE  LET f == Append(SubSeq(e, 1, i), x)
         IN  f \in Seq(ToSet(f)) /\ i + 1 \in 1..Len(f) /\ f[i + 1] = x
<1> DEFINE S == ToSet(e) \cup {x}
           begin == SubSeq(e, 1, i)
           f == Append(begin, x)
<1>1. e \in Seq(S) /\ x \in S
  BY SeqMonotonic
<1> HIDE DEF S
<1>2. begin \in Seq(S) /\ Len(begin) = i
  <2>1. \A j \in 1..i : e[j] \in S
    BY <1>1, ElementOfSeq, LenProperties
  <2>2. i \in Int /\ 1 \in Int /\ 1 <= i /\ i - 1 + 1 = i
    BY <1>1, LenProperties
  <2>3. begin \in Seq(S) /\ Len(begin) = IF 1 <= i THEN i - 1 + 1 ELSE 0
    BY <2>1, <2>2, SubSeqProperties
  <2> QED
    BY <2>2, <2>3
<1> HIDE DEF begin
<1>3. f \in Seq(S) /\ Len(f) = i + 1 /\ f[i + 1] = x
  BY <1>1, <1>2, AppendProperties
<1> HIDE DEF f
<1>4. f \in Seq(ToSet(f)) /\ i + 1 \in 1..Len(f) /\ f[i + 1] = x
  BY <1>1, <1>2, <1>3, OwnElements
<1> QED
  BY <1>4 DEF f, begin

\* What a render leaves of the tab as it is.
Alike(t, w) ==
  /\ w.view = t.view /\ w.detail = t.detail /\ w.editor = t.editor /\ w.lens = t.lens

LEMMA WriteURLWrites ==
  ASSUME NEW t, IsTab(t), NEW push
  PROVE  LET w == WriteURL(t, push)
         IN  /\ IsTab(w) /\ w.entries[w.at] = Address(w) /\ Alike(t, w)
             /\ w.shared = t.shared /\ w.editorItem = t.editorItem
             /\ t.entries[t.at] = Address(t) => w = t
<1> DEFINE w == WriteURL(t, push)
<1>0. DOMAIN t = TabFields /\ t.entries \in Seq(ToSet(t.entries)) /\ t.at \in 1..Len(t.entries)
  BY DEF IsTab
<1>1. CASE t.entries[t.at] = Address(t)
  BY <1>1 DEF WriteURL, Alike
<1>2. CASE t.entries[t.at] # Address(t) /\ push /\ t.entries[t.at].item # t.shared
  <2> DEFINE f == Append(SubSeq(t.entries, 1, t.at), Address(t))
  <2>1. f \in Seq(ToSet(f)) /\ t.at + 1 \in 1..Len(f) /\ f[t.at + 1] = Address(t)
    BY <1>0, EntryPushed
  <2>2. w = [t EXCEPT !.entries = f, !.at = t.at + 1]
    BY <1>2 DEF WriteURL
  <2> HIDE DEF f, w
  <2>3. /\ DOMAIN w = TabFields /\ w.entries = f /\ w.at = t.at + 1
        /\ Alike(t, w) /\ w.shared = t.shared /\ w.editorItem = t.editorItem
    BY <1>0, <2>2 DEF TabFields, Alike
  <2>4. IsTab(w)
    BY <2>1, <2>3 DEF IsTab, Alike
  <2>5. w.entries[w.at] = Address(w)
    BY <2>1, <2>3 DEF Address, Alike
  <2> QED
    BY <1>2, <2>3, <2>4, <2>5 DEF w
<1>3. CASE t.entries[t.at] # Address(t) /\ ~(push /\ t.entries[t.at].item # t.shared)
  <2> DEFINE f == [t.entries EXCEPT ![t.at] = Address(t)]
  <2>1. f \in Seq(ToSet(f)) /\ t.at \in 1..Len(f) /\ f[t.at] = Address(t)
    BY <1>0, EntryReplaced
  <2>2. w = [t EXCEPT !.entries = f]
    BY <1>3 DEF WriteURL
  <2> HIDE DEF f, w
  <2>3. /\ DOMAIN w = TabFields /\ w.entries = f /\ w.at = t.at
        /\ Alike(t, w) /\ w.shared = t.shared /\ w.editorItem = t.editorItem
    BY <1>0, <2>2 DEF TabFields, Alike
  <2>4. IsTab(w)
    BY <2>1, <2>3 DEF IsTab, Alike
  <2>5. w.entries[w.at] = Address(w)
    BY <2>1, <2>3 DEF Address, Alike
  <2> QED
    BY <1>3, <2>3, <2>4, <2>5 DEF w
<1> QED
  BY <1>1, <1>2, <1>3

\* The dialog host's effect drops the card of a dialog that is gone.
Leaves(before, t) == before.editor # None /\ t.editor = None /\ t.detail = None

LEMMA SharedTyped ==
  ASSUME NEW t, IsTab(t), NEW card
  PROVE  LET s == Share(t, card)
         IN  /\ IsTab(s) /\ Alike(t, s) /\ s.shared = card /\ s.editorItem = t.editorItem
             /\ s.entries = t.entries /\ s.at = t.at
             /\ t.shared = card => s = t
<1> DEFINE s == Share(t, card)
<1>1. s = t \/ s = [t EXCEPT !.shared = card, !.push = TRUE]
  BY DEF Share
<1>2. t.shared = card => s = t
  BY DEF Share
<1>3. t.shared # card => s = [t EXCEPT !.shared = card, !.push = TRUE]
  BY DEF Share
<1> HIDE DEF s
<1>4. CASE t.shared = card
  BY <1>2, <1>4 DEF s, Alike
<1>5. CASE t.shared # card
  <2>1. /\ DOMAIN s = TabFields /\ Alike(t, s) /\ s.shared = card /\ s.editorItem = t.editorItem
        /\ s.entries = t.entries /\ s.at = t.at
    BY <1>3, <1>5 DEF IsTab, TabFields, Alike
  <2>2. IsTab(s)
    BY <2>1 DEF IsTab, Alike
  <2> QED
    BY <1>5, <2>1, <2>2 DEF s
<1> QED
  BY <1>4, <1>5

LEMMA RenderedFits ==
  ASSUME NEW before, NEW t, IsTab(t)
  PROVE  LET r == Rendered(before, t)
         IN  /\ IsTab(r) /\ r.entries[r.at] = Address(r) /\ Alike(t, r)
             /\ r.shared = IF Leaves(before, t) THEN None ELSE t.shared
             /\ r.fresh = FALSE /\ r.push = FALSE
             /\ ~Leaves(before, t) /\ t.entries[t.at] = Address(t) =>
                  r.entries = t.entries /\ r.at = t.at
<1> DEFINE left == DialogLeft(before, t)
           first == t.fresh \/ Address(t) # Address(before)
           wrote == IF first THEN WriteURL(t, left.push) ELSE t
           mid == [left EXCEPT !.entries = wrote.entries, !.at = wrote.at]
           push == ~first /\ left.push
           w == WriteURL(mid, push)
           r == Rendered(before, t)
<1>1. r = [w EXCEPT !.push = FALSE, !.fresh = FALSE]
  BY DEF Rendered
<1>2. /\ IsTab(left) /\ Alike(t, left)
      /\ left.shared = IF Leaves(before, t) THEN None ELSE t.shared
      /\ ~Leaves(before, t) => left = t
  <2>1. CASE ~Leaves(before, t)
    <3>1. left = t
      BY <2>1 DEF DialogLeft, Leaves
    <3> QED
      BY <2>1, <3>1 DEF Alike
  <2>2. CASE Leaves(before, t)
    <3> DEFINE u == [t EXCEPT !.editorItem = None]
    <3>1. left = Share(u, None)
      BY <2>2 DEF DialogLeft, Leaves
    <3>2. /\ DOMAIN u = TabFields /\ Alike(t, u) /\ u.entries = t.entries /\ u.at = t.at
          /\ u.editor = None
      BY <2>2 DEF IsTab, TabFields, Alike, Leaves
    <3> HIDE DEF u
    <3>3. IsTab(u)
      BY <3>2, NamesAssumption DEF IsTab, Alike
    <3>4. IsTab(left) /\ Alike(u, left) /\ left.shared = None
      BY <3>1, <3>3, SharedTyped
    <3> QED
      BY <2>2, <3>2, <3>4 DEF Alike
  <2> QED
    BY <2>1, <2>2
<1>3. /\ IsTab(wrote) /\ (t.entries[t.at] = Address(t) => wrote = t)
  BY WriteURLWrites
<1> HIDE DEF left, wrote, first
<1>4. /\ IsTab(mid) /\ Alike(left, mid) /\ mid.shared = left.shared
      /\ mid.entries = wrote.entries /\ mid.at = wrote.at
  <2>1. /\ DOMAIN mid = TabFields /\ Alike(left, mid) /\ mid.shared = left.shared
        /\ mid.editorItem = left.editorItem
        /\ mid.entries = wrote.entries /\ mid.at = wrote.at
    BY <1>2 DEF IsTab, TabFields, Alike
  <2> HIDE DEF mid
  <2> QED
    BY <1>2, <1>3, <2>1 DEF IsTab, Alike
<1> HIDE DEF mid, push
<1>5. /\ IsTab(w) /\ w.entries[w.at] = Address(w) /\ Alike(mid, w)
      /\ w.shared = mid.shared /\ w.editorItem = mid.editorItem
      /\ mid.entries[mid.at] = Address(mid) => w = mid
  BY <1>4, WriteURLWrites
<1> HIDE DEF w, r
<1>6. /\ DOMAIN r = TabFields /\ Alike(w, r) /\ r.shared = w.shared
      /\ r.editorItem = w.editorItem /\ r.entries = w.entries /\ r.at = w.at
      /\ r.fresh = FALSE /\ r.push = FALSE
  BY <1>1, <1>5 DEF IsTab, TabFields, Alike
<1>7. IsTab(r)
  BY <1>5, <1>6 DEF IsTab, Alike
<1>8. r.entries[r.at] = Address(r)
  BY <1>5, <1>6 DEF Address, Alike
<1>9. Alike(t, r)
  BY <1>2, <1>4, <1>5, <1>6 DEF Alike
<1>10. r.shared = IF Leaves(before, t) THEN None ELSE t.shared
  BY <1>2, <1>4, <1>5, <1>6
<1>11. ~Leaves(before, t) /\ t.entries[t.at] = Address(t) =>
         r.entries = t.entries /\ r.at = t.at
  <2> SUFFICES ASSUME ~Leaves(before, t), t.entries[t.at] = Address(t)
               PROVE  r.entries = t.entries /\ r.at = t.at
    OBVIOUS
  <2>1. left = t /\ wrote = t
    BY <1>2, <1>3
  <2>2. mid.entries[mid.at] = Address(mid)
    BY <1>4, <2>1 DEF Address, Alike
  <2> QED
    BY <1>4, <1>5, <1>6, <2>1, <2>2
<1>12. /\ IsTab(r) /\ r.entries[r.at] = Address(r) /\ Alike(t, r)
       /\ r.shared = IF Leaves(before, t) THEN None ELSE t.shared
       /\ r.fresh = FALSE /\ r.push = FALSE
       /\ ~Leaves(before, t) /\ t.entries[t.at] = Address(t) =>
            r.entries = t.entries /\ r.at = t.at
  BY <1>6, <1>7, <1>8, <1>9, <1>10, <1>11
<1> QED
  BY <1>12 DEF r

-----------------------------------------------------------------------------
(* The handlers *)

\* A render shows the card its tab shared, or none once the last dialog is gone.
LEMMA RenderedShows ==
  ASSUME NEW before, NEW t, IsTab(t), NEW pending, Leaves(before, t) \/ Fits(t, pending)
  PROVE  LET r == Rendered(before, t)
         IN  IsTab(r) /\ r.entries[r.at] = Address(r) /\ Fits(r, pending)
<1> DEFINE r == Rendered(before, t)
<1>1. /\ IsTab(r) /\ r.entries[r.at] = Address(r) /\ Alike(t, r)
      /\ r.shared = IF Leaves(before, t) THEN None ELSE t.shared
  BY RenderedFits
<1> HIDE DEF r
<1>2. CASE Leaves(before, t)
  <2>1. r.detail = None /\ r.editor = None /\ r.shared = None
    BY <1>1, <1>2 DEF Leaves, Alike
  <2>2. Fits(r, pending)
    BY <2>1, NamesAssumption DEF Fits
  <2> QED
    BY <1>1, <2>2 DEF r
<1>3. CASE ~Leaves(before, t) /\ Fits(t, pending)
  <2>1. Fits(r, pending)
    BY <1>1, <1>3 DEF Fits, Alike, ListPresentation
  <2> QED
    BY <1>1, <2>1 DEF r
<1> QED
  BY <1>2, <1>3

LEMMA DetailClosedTyped ==
  ASSUME NEW t, IsTab(t)
  PROVE  LET c == DetailClosed(t)
         IN  /\ IsTab(c) /\ c.detail = None /\ c.editor = t.editor
             /\ c.editorItem = t.editorItem /\ c.view = t.view /\ c.lens = t.lens
             /\ c.entries = t.entries /\ c.at = t.at
             /\ c.shared = IF t.detail = None THEN t.shared ELSE None
<1> DEFINE c == DetailClosed(t)
<1>1. CASE t.detail = None
  BY <1>1 DEF DetailClosed
<1>2. CASE t.detail # None
  <2> DEFINE u == [t EXCEPT !.detail = None]
  <2>1. c = Share(u, None)
    BY <1>2 DEF DetailClosed
  <2>2. /\ DOMAIN u = TabFields /\ u.detail = None /\ u.editor = t.editor
        /\ u.editorItem = t.editorItem /\ u.view = t.view /\ u.lens = t.lens
        /\ u.entries = t.entries /\ u.at = t.at
    BY DEF IsTab, TabFields
  <2> HIDE DEF u, c
  <2>3. IsTab(u)
    BY <2>2 DEF IsTab
  <2>4. /\ IsTab(c) /\ Alike(u, c) /\ c.shared = None /\ c.editorItem = u.editorItem
        /\ c.entries = u.entries /\ c.at = u.at
    BY <2>1, <2>3, SharedTyped
  <2> QED
    BY <1>2, <2>2, <2>4 DEF Alike, c
<1> QED
  BY <1>1, <1>2

\* No pane is opened while a change is saved.
OpensNone(t) == busy /\ ListPresentation(t)

LEMMA OpensNoneTyped ==
  ASSUME NEW t, NEW card, OpensNone(t)
  PROVE  Opened(t, card) = t
BY DEF OpensNone, Opened

\* A card is opened in the pane of a list and in the editor anywhere else.
LEMMA OpenedTyped ==
  ASSUME NEW t, IsTab(t), NEW card \in AllCards, ~OpensNone(t)
  PROVE  LET o == Opened(t, card)
         IN  /\ IsTab(o) /\ o.shared = card /\ o.view = t.view /\ o.lens = t.lens
             /\ o.entries = t.entries /\ o.at = t.at
             /\ IF ListPresentation(t)
                THEN o.detail = Pane(card) /\ o.editor = t.editor
                ELSE o.detail = t.detail /\ o.editor = card
<1> DEFINE o == Opened(t, card)
<1>1. CASE ListPresentation(t)
  <2> DEFINE c == DetailClosed(t)
             u == [c EXCEPT !.detail = Pane(card)]
  <2>1. o = Share(u, card)
    BY <1>1 DEF Opened, OpenItemDetail, OpensNone
  <2>2. IsTab(c) /\ c.editor = t.editor /\ c.view = t.view /\ c.lens = t.lens
        /\ c.entries = t.entries /\ c.at = t.at
    BY DetailClosedTyped
  <2> HIDE DEF c
  <2>3. /\ DOMAIN u = TabFields /\ u.detail = Pane(card) /\ u.editor = c.editor
        /\ u.editorItem = c.editorItem /\ u.view = c.view /\ u.lens = c.lens
        /\ u.entries = c.entries /\ u.at = c.at
    BY <2>2 DEF IsTab, TabFields
  <2>4. Pane(card) \in Panes
    BY DEF Pane, Panes
  <2> HIDE DEF u, o
  <2>5. IsTab(u)
    BY <2>2, <2>3, <2>4 DEF IsTab
  <2>6. IsTab(o) /\ Alike(u, o) /\ o.shared = card /\ o.entries = u.entries /\ o.at = u.at
    BY <2>1, <2>5, SharedTyped
  <2> QED
    BY <1>1, <2>2, <2>3, <2>6 DEF Alike, o
<1>2. CASE ~ListPresentation(t)
  <2> DEFINE s == Share(t, card)
  <2>1. o = [s EXCEPT !.editor = card, !.editorItem = card]
    BY <1>2 DEF Opened, EditItemModal
  <2>2. IsTab(s) /\ Alike(t, s) /\ s.shared = card /\ s.entries = t.entries /\ s.at = t.at
    BY SharedTyped
  <2> HIDE DEF s, o
  <2>3. /\ DOMAIN o = TabFields /\ o.detail = s.detail /\ o.editor = card
        /\ o.editorItem = card /\ o.view = s.view /\ o.lens = s.lens
        /\ o.entries = s.entries /\ o.at = s.at /\ o.shared = card
    BY <2>1, <2>2 DEF IsTab, TabFields
  <2>4. IsTab(o)
    BY <2>2, <2>3 DEF IsTab
  <2> QED
    BY <1>2, <2>2, <2>3, <2>4 DEF Alike, o
<1> QED
  BY <1>1, <1>2

LEMMA OpenedFits ==
  ASSUME NEW t, IsTab(t), NEW card \in AllCards, ~OpensNone(t),
         t.detail # None => ListPresentation(t), NEW pending
  PROVE  Fits(Opened(t, card), pending)
<1> DEFINE o == Opened(t, card)
<1>1. /\ o.shared = card /\ o.view = t.view /\ o.lens = t.lens
      /\ IF ListPresentation(t)
         THEN o.detail = Pane(card) /\ o.editor = t.editor
         ELSE o.detail = t.detail /\ o.editor = card
  BY OpenedTyped
<1> HIDE DEF o
<1>2. Pane(card).card = card /\ Pane(card) \in Panes
  BY DEF Pane, Panes
<1>3. Fits(o, pending)
  BY <1>1, <1>2, NamesAssumption DEF Fits, ListPresentation
<1> QED
  BY <1>3 DEF o

\* A tab that takes the lens and the card of an address.
LEMMA PatchedTyped ==
  ASSUME NEW t, IsTab(t), NEW url
  PROVE  LET p == Patched(t, url)
         IN  /\ IsTab(p) /\ p.shared = url.item /\ p.detail = t.detail /\ p.editor = t.editor
             /\ p.view = t.view /\ p.entries = t.entries /\ p.at = t.at
             /\ p.lens = LensOf(PlanningPatchFromURL(url, board))
<1> DEFINE p == Patched(t, url)
           lens == LensOf(PlanningPatchFromURL(url, board))
<1>1. p = [t EXCEPT !.lens = lens, !.shared = url.item, !.fresh = TRUE]
  BY DEF Patched
<1>2. DOMAIN lens = {"presentation", "scope", "filters"}
  BY DEF LensOf
<1> HIDE DEF p, lens
<1>3. /\ DOMAIN p = TabFields /\ p.shared = url.item /\ p.detail = t.detail
      /\ p.editor = t.editor /\ p.editorItem = t.editorItem
      /\ p.view = t.view /\ p.entries = t.entries /\ p.at = t.at /\ p.lens = lens
  BY <1>1 DEF IsTab, TabFields
<1>4. IsTab(p)
  BY <1>2, <1>3 DEF IsTab
<1> QED
  BY <1>3, <1>4 DEF p, lens

\* What an address leaves on the screen, applied to a tab that was left only what
\* shows the card of that address, and an editor that is saving.
LEMMA AppliedShows ==
  ASSUME board \in Boards, NEW before, NEW t, IsTab(t), NEW url,
         t.detail # None => t.detail.card = url.item,
         t.editor # None => t.editorItem = url.item \/ busy,
         NEW pending
  PROVE  LET a == AddressApplied(before, t, url)
         IN  /\ IsTab(a) /\ a.entries[a.at] = Address(a)
             /\ /\ t.detail # None /\ a.detail # None => ListPresentation(a)
                /\ ~(url.item # None /\ t.editor = OtherDialog /\ t.editorItem = url.item)
                /\ ~(busy /\ a.editor \in AllCards \ {url.item})
                /\ ~(OpensNone(a) /\ Local(url.item) /\ a.detail = None /\ a.editor # url.item)
                => Fits(a, pending \cup ReadFor(t, url))
<1> DEFINE a == AddressApplied(before, t, url)
           p == Patched(t, url)
           rendered == Rendered(before, p)
           item == url.item
           opens == item # None /\ ~IsShown(t, item) /\ Local(item)
<1>1. /\ IsTab(p) /\ p.shared = item /\ p.detail = t.detail /\ p.editor = t.editor
      /\ p.view = t.view
  BY PatchedTyped
<1>2. a = IF opens THEN Rendered(rendered, Opened(rendered, item)) ELSE rendered
  BY DEF AddressApplied
<1> HIDE DEF p
<1>3. /\ IsTab(rendered) /\ Alike(p, rendered) /\ rendered.entries[rendered.at] = Address(rendered)
      /\ rendered.shared = IF Leaves(before, p) THEN None ELSE p.shared
  BY <1>1, RenderedFits
<1> HIDE DEF rendered, a
<1>4. CASE opens /\ ~OpensNone(rendered)
  <2> DEFINE o == Opened(rendered, item)
  <2>1. item \in AllCards
    BY <1>4 DEF Local, AllCards
  <2>2. rendered.detail = None
    BY <1>1, <1>3, <1>4 DEF IsShown, Alike
  <2>3. IsTab(o)
    BY <1>3, <1>4, <2>1, OpenedTyped
  <2>4. \A set : Fits(o, set)
    BY <1>3, <1>4, <2>1, <2>2, OpenedFits
  <2> HIDE DEF o
  <2>5. /\ IsTab(a) /\ a.entries[a.at] = Address(a)
        /\ Fits(a, pending \cup ReadFor(t, url))
    BY <1>2, <1>4, <2>3, <2>4, RenderedShows DEF o
  <2> QED
    BY <2>5 DEF a
<1>5. CASE ~opens
  <2>1. a = rendered
    BY <1>2, <1>5
  <2>2. ASSUME t.detail # None /\ a.detail # None => ListPresentation(a),
               ~(item # None /\ t.editor = OtherDialog /\ t.editorItem = item),
               ~(busy /\ a.editor \in AllCards \ {item})
        PROVE  Fits(a, pending \cup ReadFor(t, url))
    <3>1. CASE Leaves(before, p)
      <4>1. a.shared = None /\ a.detail = None /\ a.editor = None
        BY <1>3, <2>1, <3>1 DEF Leaves, Alike
      <4> QED
        BY <4>1, NamesAssumption DEF Fits
    <3>2. CASE ~Leaves(before, p)
      <4>1. a.shared = item /\ a.detail = t.detail /\ a.editor = t.editor
        BY <1>1, <1>3, <2>1, <3>2 DEF Alike
      <4>2. t.editor \in AllCards => item = t.editor
        BY <2>2, <4>1, NamesAssumption DEF IsTab
      <4>3. ASSUME t.detail = None, t.editor \notin AllCards, item # None
            PROVE  item \in ReadFor(t, url)
        <5>1. t.editor = None \/ (t.editor = OtherDialog /\ t.editorItem # item)
          BY <2>2, <4>3 DEF IsTab
        <5> QED
          BY <1>5, <4>3, <5>1 DEF IsShown, ReadFor
      <4> QED
        BY <2>2, <4>1, <4>2, <4>3 DEF Fits
    <3> QED
      BY <3>1, <3>2
  <2> QED
    BY <1>3, <2>1, <2>2 DEF a
<1>6. CASE opens /\ OpensNone(rendered)
  <2>1. a = Rendered(rendered, rendered)
    BY <1>2, <1>6, OpensNoneTyped
  <2>2. IsTab(a) /\ a.entries[a.at] = Address(a) /\ Alike(rendered, a)
    BY <1>3, <2>1, RenderedFits
  <2>3. a.detail = None /\ a.editor # item
    BY <1>1, <1>3, <1>6, <2>2, NamesAssumption DEF IsShown, Alike, IsTab, Local, AllCards
  <2>4. OpensNone(a) /\ Local(item)
    BY <1>6, <2>2 DEF OpensNone, ListPresentation, Alike
  <2> QED
    BY <2>2, <2>3, <2>4 DEF a
<1> QED
  BY <1>4, <1>5, <1>6

-----------------------------------------------------------------------------
(* Every action keeps the invariant *)

\* A handler of the tab with its render.
LEMMA ShownStep ==
  ASSUME board' \in Boards, NEW t, IsTab(t), tab' = Rendered(tab, t),
         ~strayed' => Leaves(tab, t) \/ Fits(t, reads')
  PROVE  NavigationInv'
<1> DEFINE r == Rendered(tab, t)
<1>1. IsTab(r) /\ r.entries[r.at] = Address(r)
  BY RenderedFits
<1>2. ~strayed' => Fits(r, reads')
  BY RenderedShows
<1> HIDE DEF r
<1>3. tab' = r
  BY DEF r
<1> QED
  BY <1>1, <1>2, <1>3 DEF NavigationInv, IsTab, Fits, Address, ListPresentation, AllCards

LEMMA InitShows == NavigationInit => NavigationInv
<1> SUFFICES ASSUME NavigationInit PROVE NavigationInv
  OBVIOUS
<1>1. PICK url \in AddressesOpened :
        /\ tab = AddressApplied(EmptyTab(url), EmptyTab(url), url)
        /\ reads = ReadFor(EmptyTab(url), url)
  BY DEF NavigationInit
<1> DEFINE e == EmptyTab(url)
           a == AddressApplied(e, e, url)
<1>2. /\ DOMAIN e = TabFields /\ DOMAIN e.lens = {"presentation", "scope", "filters"}
      /\ e.entries = <<url>> /\ e.at = 1 /\ e.detail = None /\ e.editor = None
  BY DEF EmptyTab, TabFields
<1>3. <<url>> \in Seq(ToSet(<<url>>)) /\ 1 \in 1..Len(<<url>>)
  <2>1. <<url>> \in Seq({url}) /\ 1 \in 1..Len(<<url>>)
    OBVIOUS
  <2>2. <<url>> \in Seq(ToSet(<<url>>))
    BY ONLY <2>1, OwnElements
  <2> QED
    BY <2>1, <2>2
<1>4. board \in Boards /\ tab = a /\ reads = ReadFor(e, url)
  BY <1>1 DEF NavigationInit
<1> HIDE DEF e
<1>5. IsTab(e)
  BY <1>2, <1>3, NamesAssumption DEF IsTab
<1>6. e.editor # OtherDialog /\ ~busy
  BY <1>2, NamesAssumption DEF NavigationInit
<1>7. /\ IsTab(a) /\ a.entries[a.at] = Address(a) /\ Fits(a, {} \cup ReadFor(e, url))
  BY <1>2, <1>4, <1>5, <1>6, AppliedShows DEF OpensNone
<1> QED
  BY <1>4, <1>7 DEF NavigationInv

LEMMA OpeningShows ==
  ASSUME NavigationInv, NEW card \in AllCards, OpenItem(card) \/ CardRead(card)
  PROVE  NavigationInv'
<1> DEFINE o == Opened(tab, card)
<1>1. board' \in Boards /\ IsTab(tab)
  BY DEF OpenItem, CardRead, Shows, NavigationInv
<1>2. ASSUME ~strayed' PROVE Fits(tab, reads)
  <2>1. ~strayed => Fits(tab, reads)
    BY DEF NavigationInv
  <2>2. CASE OpenItem(card)
    BY <1>2, <2>1, <2>2 DEF OpenItem, Shows
  <2>3. CASE CardRead(card)
    BY <1>2, <2>1, <2>3 DEF CardRead
  <2> QED
    BY <2>2, <2>3
<1>3. CASE tab' = Rendered(tab, o) /\ ~OpensNone(tab)
  <2>1. IsTab(o)
    BY <1>1, <1>3, OpenedTyped
  <2>2. ~strayed' => \A set : Fits(o, set)
    BY <1>1, <1>2, <1>3, OpenedFits DEF Fits
  <2> HIDE DEF o
  <2> QED
    BY <1>1, <1>3, <2>1, <2>2, ShownStep
<1>4. CASE tab' = Rendered(tab, o) /\ OpensNone(tab)
  <2>1. tab' = Rendered(tab, tab)
    BY <1>4, OpensNoneTyped
  <2>2. ASSUME ~strayed' PROVE Fits(tab, reads')
    <3>1. CASE OpenItem(card)
      BY <1>2, <2>2, <3>1 DEF OpenItem, Shows
    <3>2. CASE CardRead(card)
      <4>1. reads' = reads \ {card} /\ tab.shared # card
        BY <1>4, <2>2, <3>2 DEF CardRead, OpensNone
      <4> QED
        BY <1>2, <2>2, <4>1 DEF Fits
    <3> QED
      BY <3>1, <3>2
  <2> QED
    BY <1>1, <2>1, <2>2, ShownStep
<1>5. CASE ListPresentation(tab) /\ tab.detail # None /\ UNCHANGED tab
  BY <1>1, <1>2, <1>5 DEF NavigationInv, IsTab, Fits, Address, ListPresentation, AllCards
<1>6. \/ tab' = Rendered(tab, o)
      \/ ListPresentation(tab) /\ tab.detail # None /\ UNCHANGED tab
  <2>1. CASE OpenItem(card)
    BY <2>1 DEF OpenItem, Shows, Becomes, o
  <2>2. CASE CardRead(card)
    BY <2>2 DEF CardRead, Becomes, o
  <2> QED
    BY <2>1, <2>2
<1> QED
  BY <1>3, <1>4, <1>5, <1>6

LEMMA CardNotReadShows ==
  ASSUME NavigationInv, NEW card, CardNotRead(card)
  PROVE  NavigationInv'
<1> DEFINE s == Share(tab, None)
<1>1. IsTab(s) /\ Alike(tab, s) /\ s.shared = None
  BY SharedTyped DEF NavigationInv
<1>2. /\ tab' = Rendered(tab, s) /\ board' \in Boards
      /\ strayed' = (strayed \/ CardsOpen(tab) # {})
  BY DEF CardNotRead, Becomes, NavigationInv
<1> HIDE DEF s
<1>3. ASSUME ~strayed' PROVE Fits(s, reads')
  <2>1. ~strayed /\ CardsOpen(tab) = {}
    BY <1>2, <1>3
  <2>2. Fits(tab, reads)
    BY <2>1 DEF NavigationInv
  <2>3. tab.editor \notin AllCards /\ tab.detail = None
    BY <2>1, <2>2 DEF CardsOpen, Fits
  <2> QED
    BY <1>1, <2>3 DEF Fits, Alike
<1> QED
  BY <1>1, <1>2, <1>3, ShownStep

\* The pane closes, and the view or the lens may change with it.
LEMMA LeavingShows ==
  ASSUME NavigationInv, 
         \/ CloseDetail
         \/ \E view \in Views : Navigate(view)
         \/ \E presentation \in {"board", "list"} : SetPresentation(presentation)
         \/ \E project \in board.known.project : OpenProject(project)
  PROVE  NavigationInv'
<1> DEFINE c == DetailClosed(tab)
<1>1. /\ IsTab(c) /\ c.detail = None /\ c.editor = tab.editor
      /\ c.editorItem = tab.editorItem /\ c.view = tab.view /\ c.lens = tab.lens
      /\ c.entries = tab.entries /\ c.at = tab.at
      /\ c.shared = IF tab.detail = None THEN tab.shared ELSE None
  BY DetailClosedTyped DEF NavigationInv
<1>2. /\ board' \in Boards /\ reads' = reads /\ strayed' = strayed /\ tab.editor = None
  BY DEF NavigationInv, CloseDetail, Navigate, SetPresentation, OpenProject, Free, Shows
<1>3. ~strayed => Fits(tab, reads)
  BY DEF NavigationInv
<1> HIDE DEF c
<1>4. ASSUME NEW u, tab' = Rendered(tab, u), DOMAIN u = TabFields,
             DOMAIN u.lens = {"presentation", "scope", "filters"},
             u.detail = None, u.editor = None, u.editorItem = tab.editorItem,
             u.entries = tab.entries, u.at = tab.at, u.shared = c.shared
      PROVE  NavigationInv'
  <2>1. IsTab(u)
    BY <1>4, NamesAssumption DEF NavigationInv, IsTab
  <2>2. ~strayed' => Fits(u, reads')
    BY <1>1, <1>2, <1>3, <1>4, NamesAssumption DEF Fits
  <2> QED
    BY <1>2, <1>4, <2>1, <2>2, ShownStep
<1>5. CASE CloseDetail
  <2>1. tab' = Rendered(tab, c)
    BY <1>5 DEF CloseDetail, Shows, Becomes, c
  <2> QED
    BY <1>1, <1>2, <2>1, <1>4 DEF IsTab
<1>6. ASSUME NEW view \in Views, Navigate(view) PROVE NavigationInv'
  <2> DEFINE u == [(IF tab.view = "board" THEN c ELSE tab) EXCEPT !.view = view]
  <2>1. tab' = Rendered(tab, u)
    BY <1>6 DEF Navigate, Shows, Becomes, c
  <2>2. CASE tab.view = "board" \/ tab.detail = None
    <3>1. /\ DOMAIN u = TabFields /\ u.lens = tab.lens
          /\ u.detail = None /\ u.editor = None /\ u.editorItem = tab.editorItem
          /\ u.entries = tab.entries /\ u.at = tab.at /\ u.shared = c.shared
      BY <1>1, <1>2, <2>2 DEF NavigationInv, IsTab, TabFields
    <3> HIDE DEF u
    <3> QED
      BY <1>4, <2>1, <3>1 DEF NavigationInv, IsTab
  <2>3. CASE tab.view # "board" /\ tab.detail # None
    <3>1. /\ DOMAIN u = TabFields /\ u.lens = tab.lens
          /\ u.detail = tab.detail /\ u.editor = tab.editor /\ u.editorItem = tab.editorItem
          /\ u.entries = tab.entries /\ u.at = tab.at
      BY <2>3 DEF NavigationInv, IsTab, TabFields
    <3> HIDE DEF u
    <3>2. IsTab(u)
      BY <3>1 DEF NavigationInv, IsTab
    <3>3. strayed'
      BY <1>2, <1>3, <2>3 DEF Fits, ListPresentation
    <3> QED
      BY <1>2, <2>1, <3>2, <3>3, ShownStep
  <2> QED
    BY <2>2, <2>3
<1>7. ASSUME NEW presentation, SetPresentation(presentation) PROVE NavigationInv'
  <2> DEFINE u == [c EXCEPT !.lens.presentation = presentation]
  <2>1. tab' = Rendered(tab, u)
    BY <1>7 DEF SetPresentation, Shows, Becomes, c
  <2>2. /\ DOMAIN u = TabFields /\ DOMAIN u.lens = {"presentation", "scope", "filters"}
        /\ u.detail = None /\ u.editor = None /\ u.editorItem = tab.editorItem
        /\ u.entries = tab.entries /\ u.at = tab.at /\ u.shared = c.shared
    BY <1>1, <1>2 DEF IsTab, TabFields
  <2> HIDE DEF u
  <2> QED
    BY <1>4, <2>1, <2>2
<1>8. ASSUME NEW project, OpenProject(project) PROVE NavigationInv'
  <2> DEFINE lens == [presentation |-> "list", scope |-> "all",
                      filters |-> [EmptyFilters EXCEPT !.project = <<project>>]]
             u == [c EXCEPT !.view = "board", !.lens = lens]
  <2>1. tab' = Rendered(tab, u)
    BY <1>8 DEF OpenProject, Shows, Becomes, c
  <2>2. DOMAIN lens = {"presentation", "scope", "filters"}
    OBVIOUS
  <2> HIDE DEF lens
  <2>3. /\ DOMAIN u = TabFields /\ u.lens = lens
        /\ u.detail = None /\ u.editor = None /\ u.editorItem = tab.editorItem
        /\ u.entries = tab.entries /\ u.at = tab.at /\ u.shared = c.shared
    BY <1>1, <1>2 DEF IsTab, TabFields
  <2> HIDE DEF u
  <2> QED
    BY <1>4, <2>1, <2>2, <2>3
<1> QED
  BY <1>5, <1>6, <1>7, <1>8

\* The lens changes and no card is opened or closed.
LEMMA LensShows ==
  ASSUME NavigationInv, 
         \/ \E scope : SetScope(scope)
         \/ \E name, value : AddPlanningFilter(name, value) \/ RemoveFilter(name, value)
         \/ \E sprint : ViewSprintScope(sprint)
         \/ \E b \in Boards : Refresh(b)
  PROVE  NavigationInv'
<1>1. IsTab(tab) /\ DOMAIN tab = TabFields
      /\ DOMAIN tab.lens = {"presentation", "scope", "filters"}
  BY DEF NavigationInv, IsTab
<1>2. /\ board' \in Boards /\ reads' = reads /\ strayed' = strayed
  BY DEF NavigationInv, SetScope, AddPlanningFilter, RemoveFilter, ViewSprintScope,
         Refresh, Shows
<1>3. ~strayed => Fits(tab, reads)
  BY DEF NavigationInv
<1>4. ASSUME NEW u, tab' = Rendered(tab, u), DOMAIN u = TabFields,
             DOMAIN u.lens = {"presentation", "scope", "filters"},
             u.lens.presentation = tab.lens.presentation,
             tab.view # "board" \/ u.view = tab.view,
             u.detail = tab.detail, u.editor = tab.editor, u.editorItem = tab.editorItem,
             u.entries = tab.entries, u.at = tab.at, u.shared = tab.shared
      PROVE  NavigationInv'
  <2>1. IsTab(u)
    BY <1>1, <1>4 DEF IsTab
  <2>2. ~strayed' => Fits(u, reads')
    BY <1>2, <1>3, <1>4 DEF Fits, ListPresentation
  <2> QED
    BY <1>2, <1>4, <2>1, <2>2, ShownStep
<1>5. ASSUME NEW scope, SetScope(scope) PROVE NavigationInv'
  <2> DEFINE u == [tab EXCEPT !.lens.scope = scope]
  <2>1. tab' = Rendered(tab, u)
    BY <1>5 DEF SetScope, Shows, Becomes
  <2>2. /\ DOMAIN u = TabFields /\ DOMAIN u.lens = {"presentation", "scope", "filters"}
        /\ u.lens.presentation = tab.lens.presentation /\ u.view = tab.view
        /\ u.detail = tab.detail /\ u.editor = tab.editor /\ u.editorItem = tab.editorItem
        /\ u.entries = tab.entries /\ u.at = tab.at /\ u.shared = tab.shared
    BY <1>1 DEF TabFields
  <2> HIDE DEF u
  <2> QED
    BY <1>4, <2>1, <2>2
<1>6. ASSUME NEW name, NEW value, AddPlanningFilter(name, value) \/ RemoveFilter(name, value)
      PROVE  NavigationInv'
  <2>1. ASSUME NEW filter, tab' = Rendered(tab, [tab EXCEPT !.lens.filters[name] = filter])
        PROVE  NavigationInv'
    <3> DEFINE u == [tab EXCEPT !.lens.filters[name] = filter]
    <3>1. tab' = Rendered(tab, u)
      BY <2>1
    <3>2. /\ DOMAIN u = TabFields /\ DOMAIN u.lens = {"presentation", "scope", "filters"}
          /\ u.lens.presentation = tab.lens.presentation /\ u.view = tab.view
          /\ u.detail = tab.detail /\ u.editor = tab.editor /\ u.editorItem = tab.editorItem
          /\ u.entries = tab.entries /\ u.at = tab.at /\ u.shared = tab.shared
      BY <1>1 DEF TabFields
    <3> HIDE DEF u
    <3> QED
      BY <1>4, <3>1, <3>2
  <2>2. CASE AddPlanningFilter(name, value)
    BY <2>1, <2>2 DEF AddPlanningFilter, Shows, Becomes
  <2>3. CASE RemoveFilter(name, value)
    BY <2>1, <2>3 DEF RemoveFilter, Shows, Becomes
  <2> QED
    BY <1>6, <2>2, <2>3
<1>7. ASSUME NEW sprint, ViewSprintScope(sprint) PROVE NavigationInv'
  <2> DEFINE u == [tab EXCEPT !.view = "board", !.lens.scope = sprint]
  <2>1. tab' = Rendered(tab, u) /\ tab.view = "sprints"
    BY <1>7 DEF ViewSprintScope, Shows, Becomes
  <2>2. /\ DOMAIN u = TabFields /\ DOMAIN u.lens = {"presentation", "scope", "filters"}
        /\ u.lens.presentation = tab.lens.presentation
        /\ u.detail = tab.detail /\ u.editor = tab.editor /\ u.editorItem = tab.editorItem
        /\ u.entries = tab.entries /\ u.at = tab.at /\ u.shared = tab.shared
    BY <1>1 DEF TabFields
  <2> HIDE DEF u
  <2> QED
    BY <1>4, <2>1, <2>2
<1>8. ASSUME NEW b \in Boards, Refresh(b) PROVE NavigationInv'
  <2> DEFINE u == [tab EXCEPT !.lens.filters = KnownFilters(@, b),
                              !.lens.scope = KnownScope(@, b)]
  <2>1. tab' = Rendered(tab, u)
    BY <1>8 DEF Refresh, Becomes
  <2>2. /\ DOMAIN u = TabFields /\ DOMAIN u.lens = {"presentation", "scope", "filters"}
        /\ u.lens.presentation = tab.lens.presentation /\ u.view = tab.view
        /\ u.detail = tab.detail /\ u.editor = tab.editor /\ u.editorItem = tab.editorItem
        /\ u.entries = tab.entries /\ u.at = tab.at /\ u.shared = tab.shared
    BY <1>1 DEF TabFields
  <2> HIDE DEF u
  <2> QED
    BY <1>4, <2>1, <2>2
<1> QED
  BY <1>5, <1>6, <1>7, <1>8

LEMMA DialogsShow ==
  ASSUME NavigationInv, TypeInDetail \/ CloseDialog \/ \E item \in BOOLEAN : OpenDialog(item)
  PROVE  NavigationInv'
<1>1. IsTab(tab) /\ DOMAIN tab = TabFields
  BY DEF NavigationInv, IsTab
<1>2. /\ board' \in Boards /\ reads' = reads /\ strayed' = strayed
  BY DEF NavigationInv, TypeInDetail, CloseDialog, OpenDialog, Shows
<1>3. ~strayed => Fits(tab, reads)
  BY DEF NavigationInv
<1>4. CASE TypeInDetail
  <2> DEFINE draft == [tab.detail EXCEPT !.dirty = TRUE]
             u == [tab EXCEPT !.detail.dirty = TRUE]
  <2>1. tab' = Rendered(tab, u) /\ tab.detail # None
    BY <1>4 DEF TypeInDetail, Shows, Becomes
  <2>2. draft \in Panes /\ draft.card = tab.detail.card
    BY <1>1, <2>1 DEF IsTab, Panes
  <2>3. /\ DOMAIN u = TabFields /\ u.lens = tab.lens /\ u.view = tab.view
        /\ u.detail = draft /\ u.editor = tab.editor /\ u.editorItem = tab.editorItem
        /\ u.entries = tab.entries /\ u.at = tab.at /\ u.shared = tab.shared
    BY <1>1 DEF TabFields
  <2> HIDE DEF u, draft
  <2>4. IsTab(u)
    BY <1>1, <2>2, <2>3 DEF IsTab
  <2>5. ~strayed' => Fits(u, reads')
    BY <1>2, <1>3, <2>1, <2>2, <2>3, NamesAssumption DEF Fits, ListPresentation
  <2> QED
    BY <1>2, <2>1, <2>4, <2>5, ShownStep
<1>5. CASE CloseDialog
  <2> DEFINE u == [tab EXCEPT !.editor = None]
  <2>1. tab' = Rendered(tab, u) /\ tab.editor # None
    BY <1>5 DEF CloseDialog, Shows, Becomes, Free
  <2>2. /\ DOMAIN u = TabFields /\ u.lens = tab.lens /\ u.view = tab.view
        /\ u.detail = tab.detail /\ u.editor = None
        /\ u.entries = tab.entries /\ u.at = tab.at /\ u.shared = tab.shared
    BY <1>1 DEF TabFields
  <2> HIDE DEF u
  <2>3. IsTab(u)
    BY <1>1, <2>2, NamesAssumption DEF IsTab
  <2>4. ~strayed' => Leaves(tab, u) \/ Fits(u, reads')
    BY <1>2, <1>3, <2>1, <2>2 DEF Fits, ListPresentation, Leaves
  <2> QED
    BY <1>2, <2>1, <2>3, <2>4, ShownStep
<1>6. ASSUME NEW item \in BOOLEAN, OpenDialog(item) PROVE NavigationInv'
  <2> DEFINE named == IF item THEN None ELSE tab.editorItem
             u == [tab EXCEPT !.editor = OtherDialog, !.editorItem = named]
  <2>1. tab' = Rendered(tab, u) /\ tab.editor = None
    BY <1>6 DEF OpenDialog, Shows, Becomes, Free
  <2> HIDE DEF named
  <2>2. /\ DOMAIN u = TabFields /\ u.lens = tab.lens /\ u.view = tab.view
        /\ u.detail = tab.detail /\ u.editor = OtherDialog
        /\ u.entries = tab.entries /\ u.at = tab.at /\ u.shared = tab.shared
    BY <1>1 DEF TabFields
  <2> HIDE DEF u
  <2>3. IsTab(u)
    BY <1>1, <2>2, NamesAssumption DEF IsTab
  <2>4. ~strayed' => Fits(u, reads')
    BY <1>2, <1>3, <2>1, <2>2, NamesAssumption DEF Fits, ListPresentation
  <2> QED
    BY <1>2, <2>1, <2>3, <2>4, ShownStep
<1> QED
  BY <1>4, <1>5, <1>6

\* Back, while a changed draft is in the pane or a change is saved: the entry is
\* written over.
LEMMA RefusedShows ==
  ASSUME NavigationInv, NEW i \in DOMAIN tab.entries, RefuseTraversal(i)
  PROVE  NavigationInv'
<1> DEFINE f == [tab.entries EXCEPT ![i] = Address(tab)]
<1>1. /\ IsTab(tab) /\ tab.entries \in Seq(ToSet(tab.entries)) /\ i \in 1..Len(tab.entries)
  BY LenProperties DEF NavigationInv, IsTab
<1>2. f \in Seq(ToSet(f)) /\ i \in 1..Len(f) /\ f[i] = Address(tab)
  BY <1>1, EntryReplaced
<1>3. /\ tab' = [tab EXCEPT !.at = i, !.entries = f]
      /\ UNCHANGED <<board, reads, strayed>>
  BY DEF RefuseTraversal, Becomes
<1> HIDE DEF f
<1>4. /\ DOMAIN tab' = TabFields /\ tab'.lens = tab.lens /\ tab'.view = tab.view
      /\ tab'.detail = tab.detail /\ tab'.editor = tab.editor
      /\ tab'.editorItem = tab.editorItem
      /\ tab'.shared = tab.shared /\ tab'.entries = f /\ tab'.at = i
  BY <1>1, <1>3 DEF IsTab, TabFields
<1> QED
  BY <1>1, <1>2, <1>3, <1>4
  DEF NavigationInv, IsTab, Fits, Address, ListPresentation, AllCards

\* Back and Forward close what the entry does not show, an editor that is saving
\* excepted.
LEMMA LeftForTyped ==
  ASSUME NEW url, IsTab(tab)
  PROVE  LET t == LeftFor(url)
         IN  /\ IsTab(t) /\ t.entries = tab.entries /\ t.at = tab.at
             /\ t.editorItem = tab.editorItem /\ t.view = tab.view /\ t.lens = tab.lens
             /\ t.detail # None => t.detail = tab.detail /\ t.detail.card = url.item
             /\ t.editor # None => t.editor = tab.editor /\ (t.editorItem = url.item \/ busy)
<1> DEFINE d == IF tab.detail # None /\ tab.detail.card # url.item
                THEN DetailClosed(tab) ELSE tab
           t == LeftFor(url)
<1>1. /\ IsTab(d) /\ d.entries = tab.entries /\ d.at = tab.at /\ d.editor = tab.editor
      /\ d.editorItem = tab.editorItem /\ d.view = tab.view /\ d.lens = tab.lens
      /\ d.detail # None => d.detail = tab.detail /\ d.detail.card = url.item
  BY DetailClosedTyped
<1>2. t = IF d.editor # None /\ d.editorItem # url.item /\ ~busy
          THEN [d EXCEPT !.editor = None] ELSE d
  BY DEF LeftFor
<1> HIDE DEF d, t
<1>3. /\ DOMAIN t = TabFields /\ t.entries = d.entries /\ t.at = d.at
      /\ t.editorItem = d.editorItem /\ t.view = d.view /\ t.lens = d.lens
      /\ t.detail = d.detail /\ t.editor \in {None, d.editor}
      /\ t.editor # None => t.editor = d.editor /\ (t.editorItem = url.item \/ busy)
  BY <1>1, <1>2 DEF IsTab, TabFields
<1>4. IsTab(t)
  BY <1>1, <1>3, NamesAssumption DEF IsTab
<1> QED
  BY <1>1, <1>3, <1>4 DEF t

LEMMA TraversalShows ==
  ASSUME NavigationInv, NEW i \in DOMAIN tab.entries, Traverse(i)
  PROVE  NavigationInv'
<1> DEFINE url == tab.entries[i]
           left == LeftFor(url)
           t == [left EXCEPT !.at = i]
           a == AddressApplied(tab, t, url)
<1>1. /\ IsTab(tab) /\ i \in 1..Len(tab.entries) /\ board \in Boards
  BY LenProperties DEF NavigationInv, IsTab
<1>2. /\ IsTab(left) /\ left.entries = tab.entries
      /\ left.editorItem = tab.editorItem
      /\ left.detail # None => left.detail.card = url.item
      /\ left.editor # None =>
           left.editor = tab.editor /\ (left.editorItem = url.item \/ busy)
  BY <1>1, LeftForTyped
<1>3. /\ tab' = a /\ reads' = reads \cup ReadFor(t, url) /\ board' = board
      /\ strayed' = (strayed \/ Strays(a, url.item))
  BY DEF Traverse, Becomes
<1> HIDE DEF left, url
<1>4. /\ DOMAIN t = TabFields /\ t.entries = tab.entries /\ t.at = i
      /\ t.detail = left.detail /\ t.editor = left.editor /\ t.editorItem = left.editorItem
      /\ t.lens = left.lens
  BY <1>2 DEF IsTab, TabFields
<1> HIDE DEF t
<1>5. IsTab(t)
  BY <1>1, <1>2, <1>4 DEF IsTab
<1>6. /\ IsTab(a) /\ a.entries[a.at] = Address(a)
      /\ /\ t.detail # None /\ a.detail # None => ListPresentation(a)
         /\ ~(url.item # None /\ t.editor = OtherDialog /\ t.editorItem = url.item)
         /\ ~(busy /\ a.editor \in AllCards \ {url.item})
         /\ ~(OpensNone(a) /\ Local(url.item) /\ a.detail = None /\ a.editor # url.item)
         => Fits(a, reads \cup ReadFor(t, url))
  BY <1>1, <1>2, <1>4, <1>5, AppliedShows
<1> HIDE DEF a
<1>7. ~strayed' => Fits(a, reads')
  BY <1>2, <1>3, <1>4, <1>6, NamesAssumption DEF Strays, OpensNone
<1> QED
  BY <1>1, <1>3, <1>6, <1>7 DEF NavigationInv, IsTab, Fits, Address, ListPresentation, AllCards

LEMMA NavigationInvariant == NavigationSpec => []NavigationInv
<1>1. NavigationInv /\ [NavigationNext]_navigationVars => NavigationInv'
  <2> SUFFICES ASSUME NavigationInv, [NavigationNext]_navigationVars PROVE NavigationInv'
    OBVIOUS
  <2>1. CASE \E card \in AllCards : OpenItem(card) \/ CardRead(card)
    BY <2>1, OpeningShows
  <2>2. CASE \E card \in AllCards : CardNotRead(card)
    BY <2>2, CardNotReadShows
  <2>3. CASE \/ CloseDetail
             \/ \E view \in Views : Navigate(view)
             \/ \E presentation \in {"board", "list"} : SetPresentation(presentation)
             \/ \E project \in board.known.project : OpenProject(project)
    BY <2>3, LeavingShows
  <2>4. CASE TypeInDetail \/ CloseDialog \/ \E item \in BOOLEAN : OpenDialog(item)
    BY <2>4, DialogsShow
  <2>5. CASE \/ \E scope : SetScope(scope)
             \/ \E name, value : AddPlanningFilter(name, value) \/ RemoveFilter(name, value)
             \/ \E sprint : ViewSprintScope(sprint)
             \/ \E b \in Boards : Refresh(b)
    BY <2>5, LensShows
  <2>6. CASE \E i \in DOMAIN tab.entries : Traverse(i)
    BY <2>6, TraversalShows
  <2>7. CASE \E i \in DOMAIN tab.entries : RefuseTraversal(i)
    BY <2>7, RefusedShows
  <2>8. CASE StartChange \/ EndChange \/ UNCHANGED navigationVars
    BY <2>8 DEF StartChange, EndChange, navigationVars, NavigationInv, IsTab, Fits, Address,
                ListPresentation, AllCards
  <2> QED
    BY <2>1, <2>2, <2>3, <2>4, <2>5, <2>6, <2>7, <2>8 DEF NavigationNext
<1> QED
  BY <1>1, InitShows, PTL DEF NavigationSpec

-----------------------------------------------------------------------------
(* The address tells the truth, and Back restores *)

\* Whatever was opened, closed, saved, read, refreshed and travelled between, the
\* address bar is the address of the view, and names the card on the screen, but
\* for the cases the code has lost it in (Strays, and a read that fails).
THEOREM AddressTellsTheTruth == NavigationSpec => []AddressIsShown
<1>1. NavigationInv => AddressIsShown
  <2> SUFFICES ASSUME NavigationInv PROVE AddressIsShown
    OBVIOUS
  <2>1. tab.entries[tab.at] = Address(tab) /\ IsTab(tab)
    BY DEF NavigationInv
  <2>2. tab.detail # None => tab.detail.card \in AllCards /\ tab.detail.card # None
    BY <2>1, NamesAssumption DEF IsTab, Panes
  <2>3. ASSUME reads = {}, ~strayed
        PROVE  IF tab.shared = None THEN CardsOpen(tab) = {} ELSE tab.shared \in CardsOpen(tab)
    <3>1. Fits(tab, reads)
      BY <2>3 DEF NavigationInv
    <3>2. CASE tab.shared = None
      <4>1. tab.detail = None /\ tab.editor \notin AllCards
        BY <2>2, <3>1, <3>2, NamesAssumption DEF Fits
      <4> QED
        BY <3>2, <4>1 DEF CardsOpen
    <3>3. CASE tab.shared # None
      BY <2>3, <3>1, <3>3 DEF CardsOpen, Fits
    <3> QED
      BY <3>2, <3>3
  <2> QED
    BY <2>1, <2>3 DEF AddressIsShown
<1> QED
  BY <1>1, NavigationInvariant, PTL

LEMMA TraversalRestoresStep ==
  ASSUME NavigationInv, NEW i \in DOMAIN tab.entries, Traverse(i), tab.editor = None,
         StillMeant(tab.entries[i]), ~strayed'
  PROVE  /\ tab'.entries = tab.entries /\ tab'.at = i
         /\ Address(tab') = tab.entries[i]
         /\ CardsOpen(tab') = {tab.entries[i].item} \ {None}
<1> DEFINE url == tab.entries[i]
           item == url.item
           left == LeftFor(url)
           t == [left EXCEPT !.at = i]
           p == Patched(t, url)
           rendered == Rendered(tab, p)
           a == AddressApplied(tab, t, url)
           opens == item # None /\ ~IsShown(t, item) /\ Local(item)
<1>1. /\ IsTab(tab) /\ i \in 1..Len(tab.entries) /\ board \in Boards
  BY LenProperties DEF NavigationInv, IsTab
<1>2. /\ IsTab(left) /\ left.entries = tab.entries
      /\ left.detail # None => left.detail.card = item
      /\ left.editor = None
  BY <1>1, LeftForTyped
<1>3. tab' = a /\ ~Strays(a, item)
  BY DEF Traverse, Becomes
<1>4. /\ PlanningURL(LensOf(PlanningPatchFromURL(url, board)), item) = url
      /\ item # None => Local(item)
  BY DEF StillMeant
<1>5. a = IF opens THEN Rendered(rendered, Opened(rendered, item)) ELSE rendered
  BY DEF AddressApplied
<1> HIDE DEF left, url
<1>6. /\ DOMAIN t = TabFields /\ t.entries = tab.entries /\ t.at = i
      /\ t.detail = left.detail /\ t.editor = None /\ t.editorItem = left.editorItem
      /\ t.lens = left.lens
  BY <1>2 DEF IsTab, TabFields
<1> HIDE DEF t
<1>7. IsTab(t)
  BY <1>1, <1>2, <1>6 DEF IsTab
<1>8. /\ IsTab(p) /\ p.shared = item /\ p.detail = t.detail /\ p.editor = None
      /\ p.entries = tab.entries /\ p.at = i
      /\ p.lens = LensOf(PlanningPatchFromURL(url, board))
  BY <1>6, <1>7, PatchedTyped, ZenonT(40)
<1>9. ~Leaves(tab, p) /\ p.entries[p.at] = Address(p) /\ Address(p) = url
  BY <1>4, <1>8 DEF Leaves, Address, url
<1> HIDE DEF p
<1>10. /\ IsTab(rendered) /\ Alike(p, rendered) /\ rendered.shared = item
       /\ rendered.entries = tab.entries /\ rendered.at = i
  BY <1>8, <1>9, RenderedFits, ZenonT(40)
<1>11. Address(rendered) = url
  BY <1>8, <1>9, <1>10 DEF Address, Alike
<1> HIDE DEF rendered, a
<1>12. item \in AllCards \cup {None}
  BY <1>1, <1>4 DEF Local, AllCards
<1>13. CASE opens
  <2> DEFINE o == Opened(rendered, item)
  <2>1. rendered.detail = None /\ rendered.editor = None /\ item \in AllCards
    BY <1>2, <1>6, <1>8, <1>10, <1>12, <1>13 DEF Alike, IsShown
  <2>2. ~OpensNone(rendered)
    <3> SUFFICES ASSUME OpensNone(rendered) PROVE FALSE
      OBVIOUS
    <3>1. a = Rendered(rendered, rendered)
      BY <1>5, <1>13, OpensNoneTyped
    <3>2. Alike(rendered, a)
      BY <1>10, <3>1, RenderedFits
    <3>3. busy /\ ListPresentation(a) /\ a.detail = None /\ a.editor = None
      BY <2>1, <3>2 DEF Alike, OpensNone, ListPresentation
    <3> QED
      BY <1>3, <1>13, <2>1, <3>3, NamesAssumption DEF Strays
  <2>3. /\ IsTab(o) /\ o.shared = item /\ o.view = rendered.view /\ o.lens = rendered.lens
        /\ o.entries = rendered.entries /\ o.at = rendered.at
        /\ IF ListPresentation(rendered)
           THEN o.detail = Pane(item) /\ o.editor = None
           ELSE o.detail = None /\ o.editor = item
    BY <1>10, <2>1, <2>2, OpenedTyped
  <2>4. ~Leaves(rendered, o) /\ Address(o) = url /\ o.entries[o.at] = Address(o)
    BY <1>10, <1>11, <2>1, <2>3 DEF Leaves, Address, url
  <2> HIDE DEF o
  <2>5. a = Rendered(rendered, o)
    BY <1>5, <1>13 DEF o
  <2>6. /\ Alike(o, a) /\ a.shared = item /\ a.entries = tab.entries /\ a.at = i
    <3>1. /\ Alike(o, a) /\ a.shared = o.shared
          /\ a.entries = o.entries /\ a.at = o.at
      BY <2>3, <2>4, <2>5, RenderedFits, ZenonT(40)
    <3> QED
      BY <1>10, <2>3, <3>1
  <2>7. Address(a) = url
    BY <2>3, <2>4, <2>6 DEF Address, Alike
  <2>8. Pane(item).card = item /\ Pane(item) # None
    <3>1. Pane(item).card = item /\ Pane(item) \in Panes
      BY <2>1 DEF Pane, Panes
    <3> QED
      BY <3>1, NamesAssumption
  <2>9. CardsOpen(a) = {item}
    BY <2>1, <2>3, <2>6, <2>8, NamesAssumption DEF CardsOpen, Alike, ListPresentation
  <2> QED
    BY <1>3, <1>13, <2>6, <2>7, <2>9 DEF url
<1>14. CASE ~opens
  <2>1. a = rendered
    BY <1>5, <1>14
  <2>2. a.detail = t.detail /\ a.editor = None
    BY <1>8, <1>10, <2>1 DEF Alike
  <2>3. CardsOpen(a) = {item} \ {None}
    <3>1. CASE item = None
      <4>1. a.detail = None
        BY <1>2, <1>6, <1>7, <2>2, <3>1, NamesAssumption DEF IsTab, Panes
      <4> QED
        BY <2>2, <3>1, <4>1, NamesAssumption DEF CardsOpen
    <3>2. CASE item # None
      <4>1. t.detail # None /\ t.detail.card = item
        BY <1>4, <1>6, <1>14, <3>2 DEF IsShown
      <4>2. ListPresentation(a)
        BY <1>3, <2>2, <4>1 DEF Strays
      <4> QED
        BY <2>2, <3>2, <4>1, <4>2, NamesAssumption DEF CardsOpen
    <3> QED
      BY <3>1, <3>2
  <2> QED
    BY <1>3, <1>10, <1>11, <2>1, <2>3 DEF url
<1> QED
  BY <1>13, <1>14

\* Back and Forward restore the view and the card of the entry they reach, and
\* leave the history alone, in a history of any length and for any boards.
THEOREM BackRestores == NavigationSpec => TraversalRestores
<1> DEFINE Restores(i) ==
             Traverse(i) /\ tab.editor = None /\ StillMeant(tab.entries[i]) /\ ~strayed' =>
               /\ tab'.entries = tab.entries /\ tab'.at = i
               /\ Address(tab') = tab.entries[i]
               /\ CardsOpen(tab') = {tab.entries[i].item} \ {None}
<1>1. NavigationInv => \A i \in DOMAIN tab.entries : Restores(i)
  BY TraversalRestoresStep
<1> QED
  BY <1>1, NavigationInvariant, PTL DEF TraversalRestores

-----------------------------------------------------------------------------
(* Places in an order.                                                     *)

LEMMA OrderIsTotal ==
  ASSUME NEW s, Distinct(s)
  PROVE  /\ \A x, y \in ToSet(s) : x = y \/ Precedes(s, x, y) \/ Precedes(s, y, x)
         /\ \A x, y \in ToSet(s) : ~(Precedes(s, x, y) /\ Precedes(s, y, x))
         /\ \A x, y, z \in ToSet(s) : Precedes(s, x, y) /\ Precedes(s, y, z) => Precedes(s, x, z)
<1>1. /\ Len(s) \in Nat
      /\ \A x \in ToSet(s) : \E i \in 1 .. Len(s) : s[i] = x
      /\ \A i, j \in 1 .. Len(s) : Precedes(s, s[i], s[j]) <=> i < j
  BY DistinctFacts
<1>2. ASSUME NEW x \in ToSet(s), NEW y \in ToSet(s)
      PROVE  /\ x = y \/ Precedes(s, x, y) \/ Precedes(s, y, x)
             /\ ~(Precedes(s, x, y) /\ Precedes(s, y, x))
  <2>1. PICK i \in 1 .. Len(s) : s[i] = x
    BY <1>1
  <2>2. PICK j \in 1 .. Len(s) : s[j] = y
    BY <1>1
  <2>3. /\ Precedes(s, x, y) <=> i < j
        /\ Precedes(s, y, x) <=> j < i
    BY <1>1, <2>1, <2>2
  <2>4. i < j \/ j < i \/ i = j
    BY <1>1
  <2>5. ~(i < j /\ j < i)
    BY <1>1
  <2> QED
    BY <2>1, <2>2, <2>3, <2>4, <2>5
<1>3. ASSUME NEW x \in ToSet(s), NEW y \in ToSet(s), NEW z \in ToSet(s),
             Precedes(s, x, y), Precedes(s, y, z)
      PROVE  Precedes(s, x, z)
  <2>1. PICK i \in 1 .. Len(s) : s[i] = x
    BY <1>1
  <2>2. PICK j \in 1 .. Len(s) : s[j] = y
    BY <1>1
  <2>3. PICK k \in 1 .. Len(s) : s[k] = z
    BY <1>1
  <2>4. i < j /\ j < k
    BY <1>1, <1>3, <2>1, <2>2, <2>3
  <2>5. i < k
    BY <1>1, <2>4
  <2> QED
    BY <1>1, <2>1, <2>3, <2>5
<1> QED
  BY <1>2, <1>3

LEMMA PositionFinds ==
  ASSUME NEW s, Distinct(s), NEW x \in ToSet(s)
  PROVE  Position(s, x) \in 1 .. Len(s) /\ s[Position(s, x)] = x
<1>1. DOMAIN s = 1 .. Len(s) /\ \E i \in 1 .. Len(s) : s[i] = x
  BY DistinctFacts
<1> QED
  BY <1>1 DEF Position

\* A new element put at a place precedes those from that place on.
LEMMA InsertAtPlace ==
  ASSUME NEW s, Distinct(s), NEW x, x \notin ToSet(s), NEW k \in 1 .. Len(s)
  PROVE  LET t == InsertAt(s, k, x) IN
         /\ Distinct(t) /\ ToSet(t) = ToSet(s) \cup {x}
         /\ \A y, z \in ToSet(s) : Precedes(t, y, z) <=> Precedes(s, y, z)
         /\ \A y \in ToSet(s) : Precedes(t, y, x) <=> Precedes(s, y, s[k])
<1> DEFINE T == ToSet(s) \cup {x}
           n == Len(s)
           front == SubSeq(s, 1, k - 1)
           back == SubSeq(s, k, n)
           head == front \o <<x>>
           t == InsertAt(s, k, x)
<1>1. /\ s \in Seq(ToSet(s)) /\ n \in Nat /\ DOMAIN s = 1 .. n
      /\ \A i \in 1 .. n : s[i] \in ToSet(s)
      /\ \A y \in ToSet(s) : \E i \in 1 .. n : s[i] = y
      /\ \A i, j \in 1 .. n : s[i] = s[j] => i = j
      /\ \A i, j \in 1 .. n : Precedes(s, s[i], s[j]) <=> i < j
  BY DistinctFacts
<1>2. s \in Seq(T) /\ x \in T
  <2>1. ToSet(s) \subseteq T
    OBVIOUS
  <2> HIDE DEF T
  <2> QED
    BY <1>1, <2>1, SeqMonotonic DEF T
<1> HIDE DEF T
<1>3. k \in Nat /\ k \in 1 .. n /\ k - 1 \in Nat /\ n - k + 1 \in Nat
  BY <1>1
<1>4. /\ front \in Seq(T) /\ Len(front) = k - 1
      /\ \A i \in 1 .. k - 1 : front[i] = s[i]
  <2>1. /\ 1 \in 1 .. Len(s) + 1 /\ k - 1 \in 1 - 1 .. Len(s)
    BY <1>1
  <2>2. /\ front \in Seq(T) /\ Len(front) = (k - 1) - 1 + 1
        /\ \A i \in 1 .. (k - 1) - 1 + 1 : front[i] = s[1 + i - 1]
    BY <1>2, <2>1, SubSeqProperties
  <2>3. (k - 1) - 1 + 1 = k - 1 /\ \A i \in 1 .. k - 1 : 1 + i - 1 = i
    BY <1>3
  <2> HIDE DEF front
  <2> QED
    BY <2>2, <2>3
<1>5. /\ back \in Seq(T) /\ Len(back) = n - k + 1
      /\ \A i \in 1 .. n - k + 1 : back[i] = s[k + i - 1]
  <2>1. k \in 1 .. Len(s) + 1 /\ n \in k - 1 .. Len(s)
    BY <1>1
  <2> QED
    BY <1>2, <2>1, SubSeqProperties
<1> HIDE DEF front, back
<1>6. /\ head \in Seq(T) /\ Len(head) = k /\ head[k] = x
      /\ \A i \in 1 .. k - 1 : head[i] = s[i]
  <2>1. <<x>> \in Seq(T) /\ Len(<<x>>) = 1 /\ <<x>>[1] = x
    BY <1>2
  <2>2. /\ head \in Seq(T) /\ Len(head) = (k - 1) + 1
        /\ \A i \in 1 .. (k - 1) + 1 :
             head[i] = IF i <= k - 1 THEN front[i] ELSE <<x>>[i - (k - 1)]
    <3> DEFINE one == <<x>>
    <3>1. front \in Seq(T) /\ one \in Seq(T) /\ Len(front) = k - 1 /\ Len(one) = 1
      BY <1>4, <2>1
    <3> HIDE DEF one
    <3>2. /\ front \o one \in Seq(T) /\ Len(front \o one) = Len(front) + Len(one)
          /\ \A i \in 1 .. Len(front) + Len(one) :
               (front \o one)[i] = IF i <= Len(front) THEN front[i] ELSE one[i - Len(front)]
      BY ONLY <3>1, ConcatProperties
    <3>3. head = front \o one
      BY DEF one
    <3> HIDE DEF head
    <3>4. /\ head \in Seq(T) /\ Len(head) = (k - 1) + 1
          /\ \A i \in 1 .. (k - 1) + 1 :
               head[i] = IF i <= k - 1 THEN front[i] ELSE one[i - (k - 1)]
      BY ONLY <3>1, <3>2, <3>3
    <3> QED
      BY <3>4 DEF one
  <2>3. (k - 1) + 1 = k /\ k - (k - 1) = 1 /\ k \in 1 .. k /\ ~(k <= k - 1)
    BY <1>3
  <2>4. \A i \in 1 .. k - 1 : i \in 1 .. k /\ i <= k - 1
    BY <1>3
  <2> HIDE DEF head
  <2> QED
    BY <1>4, <2>1, <2>2, <2>3, <2>4
<1>7. t = head \o back
  BY DEF InsertAt, front, back
<1> HIDE DEF head, t
<1>8. /\ t \in Seq(T) /\ Len(t) = n + 1 /\ t[k] = x
      /\ \A i \in 1 .. k - 1 : t[i] = s[i]
      /\ \A i \in k .. n : t[i + 1] = s[i]
  <2> DEFINE m == n - k + 1
  <2>1. m \in Nat /\ k + m = n + 1 /\ k \in 1 .. k + m /\ Len(back) = m
    BY <1>3, <1>5
  <2>2. /\ t \in Seq(T) /\ Len(t) = k + m
        /\ \A i \in 1 .. k + m : t[i] = IF i <= k THEN head[i] ELSE back[i - k]
    <3>1. /\ head \in Seq(T) /\ back \in Seq(T) /\ Len(head) = k /\ Len(back) = m
          /\ t = head \o back
      BY <1>5, <1>6, <1>7, <2>1
    <3> HIDE DEF m
    <3>2. /\ head \o back \in Seq(T) /\ Len(head \o back) = Len(head) + Len(back)
          /\ \A i \in 1 .. Len(head) + Len(back) :
               (head \o back)[i] = IF i <= Len(head) THEN head[i] ELSE back[i - Len(head)]
      BY ONLY <3>1, ConcatProperties
    <3> QED
      BY ONLY <3>1, <3>2
  <2>3. \A i \in 1 .. k - 1 : i \in 1 .. k + m /\ i <= k
    BY <1>3, <2>1
  <2>4. ASSUME NEW i \in k .. n
        PROVE  t[i + 1] = s[i]
    <3> DEFINE j == i + 1 - k
    <3>1. /\ i + 1 \in 1 .. k + m /\ ~(i + 1 <= k) /\ j \in 1 .. m /\ k + j - 1 = i
      BY <1>3, <2>1
    <3>2. t[i + 1] = back[j]
      BY <2>2, <3>1
    <3> HIDE DEF j
    <3>3. back[j] = s[k + j - 1]
      BY <1>5, <3>1
    <3> QED
      BY <3>1, <3>2, <3>3
  <2> HIDE DEF m
  <2> QED
    BY <1>3, <1>6, <2>1, <2>2, <2>3, <2>4
\* The place in t of what was at i.
<1> DEFINE f == [i \in 1 .. n |-> IF i < k THEN i ELSE i + 1]
<1>9. \A i \in 1 .. n : f[i] \in 1 .. n + 1 /\ f[i] # k /\ t[f[i]] = s[i]
  <2> SUFFICES ASSUME NEW i \in 1 .. n
               PROVE  f[i] \in 1 .. n + 1 /\ f[i] # k /\ t[f[i]] = s[i]
    OBVIOUS
  <2>1. CASE i < k
    <3>1. i \in 1 .. k - 1 /\ i \in 1 .. n + 1
      BY <1>3, <2>1
    <3> QED
      BY <1>8, <2>1, <3>1
  <2>2. CASE ~(i < k)
    <3>1. i \in k .. n /\ i + 1 \in 1 .. n + 1 /\ i + 1 # k
      BY <1>3, <2>2
    <3> QED
      BY <1>8, <2>2, <3>1
  <2> QED
    BY <2>1, <2>2
<1>10. \A j \in 1 .. n + 1 : j = k \/ \E i \in 1 .. n : f[i] = j
  <2> SUFFICES ASSUME NEW j \in 1 .. n + 1, j # k
               PROVE  \E i \in 1 .. n : f[i] = j
    OBVIOUS
  <2>1. CASE j < k
    <3>1. j \in 1 .. n /\ f[j] = j
      BY <1>3, <2>1
    <3> QED
      BY <3>1
  <2>2. CASE ~(j < k)
    <3>1. j - 1 \in 1 .. n /\ ~(j - 1 < k) /\ j - 1 + 1 = j
      BY <1>3, <2>2
    <3>2. f[j - 1] = j
      BY <3>1
    <3> QED
      BY <3>1, <3>2
  <2> QED
    BY <2>1, <2>2
<1>11. \A i, j \in 1 .. n : f[i] < f[j] <=> i < j
  BY <1>3
<1>12. \A i \in 1 .. n : f[i] < k <=> i < k
  BY <1>3
<1> HIDE DEF f
<1>13. DOMAIN t = 1 .. n + 1 /\ k \in 1 .. n + 1
  BY <1>3, <1>8, LenProperties
<1>14. \A i \in 1 .. n : s[i] # x
  BY <1>1
<1>15. Distinct(t)
  <2>1. ASSUME NEW i \in 1 .. n + 1, NEW j \in 1 .. n + 1, t[i] = t[j]
        PROVE  i = j
    <3>0. \A m \in 1 .. n + 1 : m # k => t[m] # x
      BY <1>9, <1>10, <1>14
    <3>1. CASE i = k
      BY <1>8, <2>1, <3>0, <3>1
    <3>2. CASE j = k
      BY <1>8, <2>1, <3>0, <3>2
    <3>3. CASE i # k /\ j # k
      <4>1. PICK a \in 1 .. n : f[a] = i
        BY <1>10, <3>3
      <4>2. PICK b \in 1 .. n : f[b] = j
        BY <1>10, <3>3
      <4>3. s[a] = s[b]
        BY <1>9, <2>1, <4>1, <4>2
      <4> QED
        BY <1>1, <4>1, <4>2, <4>3
    <3> QED
      BY <3>1, <3>2, <3>3
  <2>2. \A i, j \in 1 .. Len(t) : t[i] = t[j] => i = j
    BY <1>8, <2>1
  <2> QED
    BY <1>8, <2>2, DistinctSequence
<1>16. ToSet(t) = ToSet(s) \cup {x}
  <2>1. \A j \in 1 .. n + 1 : t[j] \in ToSet(s) \cup {x}
    <3>1. \A i \in 1 .. n : t[f[i]] \in ToSet(s)
      BY <1>1, <1>9
    <3> QED
      BY <1>8, <1>10, <3>1
  <2>2. ToSet(t) \subseteq ToSet(s) \cup {x}
    BY <1>13, <2>1 DEF ToSet
  <2>3. \A y \in ToSet(s) : \E j \in 1 .. n + 1 : t[j] = y
    BY <1>1, <1>9
  <2>4. ToSet(s) \cup {x} \subseteq ToSet(t)
    BY <1>8, <1>13, <2>3 DEF ToSet
  <2> QED
    BY <2>2, <2>4
<1>17. \A i, j \in 1 .. n + 1 : Precedes(t, t[i], t[j]) <=> i < j
  BY <1>8, <1>15, DistinctFacts
<1>18. ASSUME NEW y \in ToSet(s), NEW z \in ToSet(s)
       PROVE  Precedes(t, y, z) <=> Precedes(s, y, z)
  <2>1. PICK i \in 1 .. n : s[i] = y
    BY <1>1
  <2>2. PICK j \in 1 .. n : s[j] = z
    BY <1>1
  <2>3. /\ f[i] \in 1 .. n + 1 /\ t[f[i]] = y
        /\ f[j] \in 1 .. n + 1 /\ t[f[j]] = z
    BY <1>9, <2>1, <2>2
  <2>4. Precedes(t, y, z) <=> f[i] < f[j]
    BY <1>17, <2>3
  <2>5. Precedes(s, y, z) <=> i < j
    BY <1>1, <2>1, <2>2
  <2> QED
    BY <1>11, <2>4, <2>5
<1>19. ASSUME NEW y \in ToSet(s)
       PROVE  Precedes(t, y, x) <=> Precedes(s, y, s[k])
  <2>1. PICK i \in 1 .. n : s[i] = y
    BY <1>1
  <2>2. f[i] \in 1 .. n + 1 /\ t[f[i]] = y
    BY <1>9, <2>1
  <2>3. Precedes(t, y, x) <=> f[i] < k
    BY <1>8, <1>13, <1>17, <2>2
  <2>4. Precedes(s, y, s[k]) <=> i < k
    BY <1>1, <1>3, <2>1
  <2> QED
    BY <1>12, <2>3, <2>4
<1> QED
  BY <1>15, <1>16, <1>18, <1>19 DEF t

-----------------------------------------------------------------------------
(* What reordering does to an order.                                       *)

\* The order of seq with x taken out and put in front of before.
Reorders(r, seq, x, before) ==
  /\ Distinct(r) /\ ToSet(r) = ToSet(seq)
  /\ \A y, z \in ToSet(seq) \ {x} : Precedes(r, y, z) <=> Precedes(seq, y, z)
  /\ \A y \in ToSet(seq) \ {x} :
       Precedes(r, y, x) <=> before = End \/ Precedes(seq, y, before)

LEMMA ReorderedReorders ==
  ASSUME NEW seq, Distinct(seq), NEW x \in ToSet(seq), End \notin ToSet(seq),
         NEW before \in (ToSet(seq) \ {x}) \cup {End}
  PROVE  Reorders(Reordered(seq, x, before), seq, x, before)
<1> DEFINE rest == Only(seq, ToSet(seq) \ {x})
           r == Reordered(seq, x, before)
<1>1. /\ Distinct(rest) /\ ToSet(rest) = ToSet(seq) \ {x}
      /\ \A y, z : Precedes(rest, y, z) <=>
                     /\ y \in ToSet(seq) \ {x} /\ z \in ToSet(seq) \ {x}
                     /\ Precedes(seq, y, z)
  <2> DEFINE S == ToSet(seq) \ {x}
  <2>1. ToSet(seq) \cap S = S
    OBVIOUS
  <2> HIDE DEF S
  <2>2. /\ Distinct(Only(seq, S)) /\ ToSet(Only(seq, S)) = ToSet(seq) \cap S
        /\ \A y, z : Precedes(Only(seq, S), y, z) <=> y \in S /\ z \in S /\ Precedes(seq, y, z)
    BY OnlyOf
  <2> QED
    BY <2>1, <2>2 DEF S
<1>2. r = IF before = End THEN Append(rest, x) ELSE InsertAt(rest, Position(rest, before), x)
  BY DEF Reordered
<1> HIDE DEF rest, r
<1>3. x \notin ToSet(rest) /\ ToSet(rest) \cup {x} = ToSet(seq)
  BY <1>1
<1>4. CASE before = End
  <2>1. /\ Distinct(Append(rest, x)) /\ ToSet(Append(rest, x)) = ToSet(rest) \cup {x}
        /\ \A y, z \in ToSet(rest) : Precedes(Append(rest, x), y, z) <=> Precedes(rest, y, z)
        /\ \A y \in ToSet(rest) : Precedes(Append(rest, x), y, x)
    BY <1>1, <1>3, DistinctAppend
  <2>2. r = Append(rest, x)
    BY <1>2, <1>4
  <2>3. /\ Distinct(r) /\ ToSet(r) = ToSet(seq)
        /\ \A y, z \in ToSet(rest) : Precedes(r, y, z) <=> Precedes(rest, y, z)
        /\ \A y \in ToSet(rest) : Precedes(r, y, x)
    BY <1>3, <2>1, <2>2
  <2>4. \A y, z \in ToSet(seq) \ {x} : Precedes(r, y, z) <=> Precedes(seq, y, z)
    BY <1>1, <2>3
  <2> QED
    BY <1>1, <1>4, <2>3, <2>4 DEF Reorders, r
<1>5. CASE before # End
  <2> DEFINE k == Position(rest, before)
             t == InsertAt(rest, k, x)
  <2>1. before \in ToSet(rest)
    BY <1>1, <1>5
  <2>2. k \in 1 .. Len(rest) /\ rest[k] = before
    BY <1>1, <2>1, PositionFinds
  <2>3. r = t
    BY <1>2, <1>5
  <2> HIDE DEF k
  <2>4. /\ Distinct(t) /\ ToSet(t) = ToSet(rest) \cup {x}
        /\ \A y, z \in ToSet(rest) : Precedes(t, y, z) <=> Precedes(rest, y, z)
        /\ \A y \in ToSet(rest) : Precedes(t, y, x) <=> Precedes(rest, y, rest[k])
    BY <1>1, <1>3, <2>2, InsertAtPlace
  <2> HIDE DEF t
  <2>5. \A y \in ToSet(rest) : Precedes(t, y, x) <=> Precedes(seq, y, before)
    BY <1>1, <2>1, <2>2, <2>4
  <2> QED
    BY <1>1, <1>3, <1>5, <2>3, <2>4, <2>5 DEF Reorders, r
<1> QED
  BY <1>4, <1>5

\* The place in front of the element after x is the place of x.
LEMMA AfterIsNext ==
  ASSUME NEW s, Distinct(s), NEW x \in ToSet(s), End \notin ToSet(s)
  PROVE  /\ After(s, x) \in (ToSet(s) \ {x}) \cup {End}
         /\ \A y \in ToSet(s) \ {x} :
              Precedes(s, y, x) <=> After(s, x) = End \/ Precedes(s, y, After(s, x))
<1> DEFINE i == Position(s, x)
           n == Len(s)
<1>1. /\ n \in Nat
      /\ \A k \in 1 .. n : s[k] \in ToSet(s)
      /\ \A y \in ToSet(s) : \E k \in 1 .. n : s[k] = y
      /\ \A k, m \in 1 .. n : s[k] = s[m] => k = m
      /\ \A k, m \in 1 .. n : Precedes(s, s[k], s[m]) <=> k < m
  BY DistinctFacts
<1>2. i \in 1 .. n /\ s[i] = x
  BY PositionFinds
<1>3. After(s, x) = IF i < n THEN s[i + 1] ELSE End
  BY DEF After
<1> HIDE DEF i, n
<1>4. CASE i < n
  <2>1. i + 1 \in 1 .. n /\ i + 1 # i
    BY <1>1, <1>2, <1>4
  <2>2. /\ After(s, x) = s[i + 1] /\ After(s, x) \in ToSet(s)
        /\ After(s, x) # x /\ After(s, x) # End
    BY <1>1, <1>2, <1>3, <1>4, <2>1
  <2>3. ASSUME NEW y \in ToSet(s) \ {x}
        PROVE  Precedes(s, y, x) <=> Precedes(s, y, s[i + 1])
    <3>1. PICK k \in 1 .. n : s[k] = y
      BY <1>1
    <3>2. k # i
      BY <1>2, <3>1
    <3>3. k < i <=> k < i + 1
      BY <1>1, <1>2, <3>2
    <3>4. Precedes(s, y, x) <=> k < i
      BY <1>1, <1>2, <3>1
    <3>5. Precedes(s, y, s[i + 1]) <=> k < i + 1
      BY <1>1, <2>1, <3>1
    <3> QED
      BY <3>3, <3>4, <3>5
  <2> QED
    BY <2>2, <2>3
<1>5. CASE ~(i < n)
  <2>1. After(s, x) = End /\ i = n
    BY <1>1, <1>2, <1>3, <1>5
  <2>2. ASSUME NEW y \in ToSet(s) \ {x}
        PROVE  Precedes(s, y, x)
    <3>1. PICK k \in 1 .. n : s[k] = y
      BY <1>1
    <3>2. k < i
      BY <1>1, <1>2, <2>1, <3>1
    <3> QED
      BY <1>1, <1>2, <3>1, <3>2
  <2> QED
    BY <2>1, <2>2
<1> QED
  BY <1>4, <1>5

\* Elements with none between them are at places next to each other.
LEMMA NextPlaces ==
  ASSUME NEW s, Distinct(s), NEW x \in ToSet(s), NEW y \in ToSet(s), Precedes(s, x, y),
         \A z \in ToSet(s) : ~(Precedes(s, x, z) /\ Precedes(s, z, y))
  PROVE  Position(s, y) = Position(s, x) + 1 /\ Position(s, x) = Position(s, y) - 1
<1> DEFINE i == Position(s, x)
           j == Position(s, y)
           n == Len(s)
<1>1. /\ n \in Nat
      /\ \A k \in 1 .. n : s[k] \in ToSet(s)
      /\ \A k, m \in 1 .. n : Precedes(s, s[k], s[m]) <=> k < m
  BY DistinctFacts
<1>2. /\ i \in 1 .. n /\ s[i] = x
      /\ j \in 1 .. n /\ s[j] = y
  BY PositionFinds
<1> HIDE DEF i, j, n
<1>3. i < j
  BY <1>1, <1>2
<1>4. \A k \in 1 .. n : ~(i < k /\ k < j)
  BY <1>1, <1>2
<1>5. j = i + 1
  <2> SUFFICES ASSUME j # i + 1
               PROVE  FALSE
    OBVIOUS
  <2>1. i + 1 \in 1 .. n /\ i < i + 1 /\ i + 1 < j
    BY <1>1, <1>2, <1>3
  <2> QED
    BY <1>4, <2>1
<1>6. i = j - 1
  BY <1>1, <1>2, <1>5
<1> QED
  BY <1>5, <1>6 DEF i, j

LEMMA FirstAndLast ==
  ASSUME NEW s, Distinct(s), NEW x \in ToSet(s)
  PROVE  /\ (\A y \in ToSet(s) \ {x} : Precedes(s, x, y)) => Head(s) = x
         /\ (\A y \in ToSet(s) \ {x} : Precedes(s, y, x)) => Last(s) = x
<1> DEFINE n == Len(s)
<1>1. /\ n \in Nat /\ s \in Seq(ToSet(s))
      /\ \A k \in 1 .. n : s[k] \in ToSet(s)
      /\ \A y \in ToSet(s) : \E k \in 1 .. n : s[k] = y
      /\ \A k, m \in 1 .. n : Precedes(s, s[k], s[m]) <=> k < m
  BY DistinctFacts
<1>2. PICK i \in 1 .. n : s[i] = x
  BY <1>1
<1>3. 1 \in 1 .. n /\ n \in 1 .. n
  BY <1>1, <1>2
<1>4. Head(s) = s[1] /\ Last(s) = s[n]
  BY <1>1 DEF Last
<1> HIDE DEF n
<1>5. ASSUME s[1] # x PROVE ~Precedes(s, x, s[1]) /\ s[1] \in ToSet(s) \ {x}
  <2>1. ~(i < 1)
    BY <1>1, <1>2
  <2> QED
    BY <1>1, <1>2, <1>3, <1>5, <2>1
<1>6. ASSUME s[n] # x PROVE ~Precedes(s, s[n], x) /\ s[n] \in ToSet(s) \ {x}
  <2>1. ~(n < i)
    BY <1>1, <1>2
  <2> QED
    BY <1>1, <1>2, <1>3, <1>6, <2>1
<1> QED
  BY <1>4, <1>5, <1>6

LEMMA OrderAround ==
  ASSUME NEW s, NEW t, Distinct(s), Distinct(t), ToSet(s) = ToSet(t), NEW x,
         \A y, z \in ToSet(s) \ {x} : Precedes(s, y, z) <=> Precedes(t, y, z),
         \A y \in ToSet(s) \ {x} : Precedes(s, y, x) <=> Precedes(t, y, x)
  PROVE  s = t
<1>1. /\ \A y, z \in ToSet(s) : y = z \/ Precedes(s, y, z) \/ Precedes(s, z, y)
      /\ \A y, z \in ToSet(s) : ~(Precedes(s, y, z) /\ Precedes(s, z, y))
  BY OrderIsTotal
<1>2. /\ \A y, z \in ToSet(s) : y = z \/ Precedes(t, y, z) \/ Precedes(t, z, y)
      /\ \A y, z \in ToSet(s) : ~(Precedes(t, y, z) /\ Precedes(t, z, y))
  BY OrderIsTotal
<1>3. ASSUME NEW y \in ToSet(s), NEW z \in ToSet(s)
      PROVE  Precedes(s, y, z) <=> Precedes(t, y, z)
  <2>1. CASE y # x /\ z # x
    BY <2>1
  <2>2. CASE y # x /\ z = x
    BY <2>2
  <2>3. CASE y = x /\ z # x
    <3>1. Precedes(s, z, y) <=> Precedes(t, z, y)
      BY <2>3
    <3> QED
      BY <1>1, <1>2, <2>3, <3>1
  <2>4. CASE y = x /\ z = x
    BY <1>1, <1>2, <2>4
  <2> QED
    BY <2>1, <2>2, <2>3, <2>4
<1>4. SameOrder(s, t)
  BY <1>3 DEF SameOrder
<1> QED
  BY <1>4, OrderIsUnique

-----------------------------------------------------------------------------
(* Placements: what the commands make of them.                             *)

IsOrder(o, S) == Distinct(o) /\ ToSet(o) = S

IsPlacement(s) ==
  /\ s \in [items : Seq(Cards), column : [Cards -> Columns],
            archived : SUBSET Cards, columns : Seq(Columns)]
  /\ IsOrder(s.items, Cards) /\ IsOrder(s.columns, Columns)

LEMMA ReorderedIsOrder ==
  ASSUME NEW S, End \notin S, NEW o, IsOrder(o, S), NEW x \in S,
         NEW before \in (S \ {x}) \cup {End}
  PROVE  /\ IsOrder(Reordered(o, x, before), S) /\ Reordered(o, x, before) \in Seq(S)
         /\ Reorders(Reordered(o, x, before), o, x, before)
<1>1. Distinct(o) /\ ToSet(o) = S
  BY DEF IsOrder
<1>2. Reorders(Reordered(o, x, before), o, x, before)
  BY <1>1, ReorderedReorders
<1>3. IsOrder(Reordered(o, x, before), S)
  BY <1>1, <1>2 DEF Reorders, IsOrder
<1>4. Reordered(o, x, before) \in Seq(S)
  BY <1>3 DEF IsOrder, Distinct
<1> QED
  BY <1>2, <1>3, <1>4

\* What a card moved in s makes of it.
Moved(n, s, c, column, before) ==
  /\ IsPlacement(n)
  /\ n.archived = s.archived /\ n.columns = s.columns
  /\ n.column = [s.column EXCEPT ![c] = column]
  /\ n.items = Reordered(s.items, c, before)
  /\ Reorders(n.items, s.items, c, before)

LEMMA MoveApplied ==
  ASSUME NEW s, IsPlacement(s), NEW c \in Cards, NEW column \in Columns,
         NEW before \in (Cards \ {c}) \cup {End}
  PROVE  Moved(AppliedTo(s, Move(c, column, before)), s, c, column, before)
<1> DEFINE n == AppliedTo(s, Move(c, column, before))
           r == Reordered(s.items, c, before)
<1>1. n = [s EXCEPT !.column[c] = column, !.items = r]
  BY DEF AppliedTo, Move
<1>2. IsOrder(s.items, Cards) /\ End \notin Cards
  BY PlacementAssumption DEF IsPlacement
<1>3. IsOrder(r, Cards) /\ r \in Seq(Cards) /\ Reorders(r, s.items, c, before)
  BY <1>2, ReorderedIsOrder
<1>4. /\ n.items = r /\ n.archived = s.archived /\ n.columns = s.columns
      /\ n.column = [s.column EXCEPT ![c] = column]
  BY <1>1 DEF IsPlacement
<1> HIDE DEF r
<1>5. n \in [items : Seq(Cards), column : [Cards -> Columns],
             archived : SUBSET Cards, columns : Seq(Columns)]
  <2> DEFINE moved == [s.column EXCEPT ![c] = column]
  <2>1. s \in [items : Seq(Cards), column : [Cards -> Columns],
               archived : SUBSET Cards, columns : Seq(Columns)]
    BY DEF IsPlacement
  <2>2. moved \in [Cards -> Columns]
    BY <2>1
  <2>3. n = [s EXCEPT !.column = moved, !.items = r]
    BY <1>1, <2>1
  <2> HIDE DEF moved, n
  <2> QED
    BY <1>3, <2>1, <2>2, <2>3
<1> HIDE DEF n
<1>6. IsPlacement(n)
  BY <1>3, <1>4, <1>5 DEF IsPlacement
<1> HIDE DEF n
<1> QED
  BY <1>3, <1>4, <1>6 DEF Moved, n, r

LEMMA ArchivingApplied ==
  ASSUME NEW s, IsPlacement(s), NEW c \in Cards
  PROVE  /\ AppliedTo(s, Archiving(c)) = [s EXCEPT !.archived = @ \cup {c}]
         /\ AppliedTo(s, Restoring(c)) = [s EXCEPT !.archived = @ \ {c}]
         /\ IsPlacement(AppliedTo(s, Archiving(c))) /\ IsPlacement(AppliedTo(s, Restoring(c)))
<1>1. /\ AppliedTo(s, Archiving(c)) = [s EXCEPT !.archived = @ \cup {c}]
      /\ AppliedTo(s, Restoring(c)) = [s EXCEPT !.archived = @ \ {c}]
  BY DEF AppliedTo, Archiving, Restoring
<1>2. /\ IsPlacement([s EXCEPT !.archived = @ \cup {c}])
      /\ IsPlacement([s EXCEPT !.archived = @ \ {c}])
  BY DEF IsPlacement
<1> QED
  BY <1>1, <1>2

LEMMA RankApplied ==
  ASSUME NEW s, IsPlacement(s), NEW c \in Columns, NEW before \in (Columns \ {c}) \cup {End}
  PROVE  LET n == AppliedTo(s, RankColumn(c, before)) IN
         /\ IsPlacement(n)
         /\ n.items = s.items /\ n.archived = s.archived /\ n.column = s.column
         /\ Reorders(n.columns, s.columns, c, before)
<1> DEFINE n == AppliedTo(s, RankColumn(c, before))
           r == Reordered(s.columns, c, before)
<1>1. n = [s EXCEPT !.columns = r]
  BY DEF AppliedTo, RankColumn
<1>2. IsOrder(s.columns, Columns) /\ End \notin Columns
  BY PlacementAssumption DEF IsPlacement
<1>3. IsOrder(r, Columns) /\ r \in Seq(Columns) /\ Reorders(r, s.columns, c, before)
  BY <1>2, ReorderedIsOrder
<1>4. /\ n.items = s.items /\ n.archived = s.archived /\ n.columns = r
      /\ n.column = s.column
  BY <1>1 DEF IsPlacement
<1> HIDE DEF r
<1>5. n \in [items : Seq(Cards), column : [Cards -> Columns],
             archived : SUBSET Cards, columns : Seq(Columns)]
  BY <1>1, <1>3 DEF IsPlacement
<1> HIDE DEF n
<1>6. IsPlacement(n)
  BY <1>3, <1>4, <1>5 DEF IsPlacement
<1> QED
  BY <1>3, <1>4, <1>6 DEF n

-----------------------------------------------------------------------------
(* The payload and the cards shown of it.                                  *)

LEMMA LiveIsRetained ==
  ASSUME NEW s, IsPlacement(s)
  PROVE  Live(s) \subseteq Retained(s) /\ Retained(s) \subseteq Cards
BY DEF Live, Retained

LEMMA RetainedOf ==
  ASSUME NEW s, NEW t, s.archived = t.archived
  PROVE  Live(s) = Live(t) /\ Retained(s) = Retained(t)
BY DEF Live, Retained

LEMMA InViewIsRetained ==
  ASSUME NEW s, IsPlacement(s)
  PROVE  InView(s) \subseteq Retained(s) /\ InView(s) \subseteq Cards
<1>1. Live(s) \subseteq Cards /\ Scoped \subseteq Cards
  BY PlacementAssumption DEF Live
<1>2. Live(s) \cup Scoped \subseteq Retained(s)
  BY <1>1 DEF Retained
<1> QED
  BY <1>1, <1>2 DEF InView

LEMMA PayloadOrder ==
  ASSUME NEW s, IsPlacement(s)
  PROVE  /\ IsOrder(Payload(s), Retained(s))
         /\ \A x, y : Precedes(Payload(s), x, y) <=>
                        x \in Retained(s) /\ y \in Retained(s) /\ Precedes(s.items, x, y)
<1>1. Distinct(s.items) /\ ToSet(s.items) = Cards
  BY DEF IsPlacement, IsOrder
<1> DEFINE kept == Retained(s)
<1>2. Payload(s) = Only(s.items, kept)
  BY DEF Payload
<1>3. Cards \cap kept = kept
  BY LiveIsRetained
<1> HIDE DEF kept
<1>4. /\ Distinct(Only(s.items, kept)) /\ ToSet(Only(s.items, kept)) = ToSet(s.items) \cap kept
      /\ \A x, y : Precedes(Only(s.items, kept), x, y)
                     <=> x \in kept /\ y \in kept /\ Precedes(s.items, x, y)
  BY <1>1, OnlyOf
<1> QED
  BY <1>1, <1>2, <1>3, <1>4 DEF IsOrder, kept

\* The cards of a column that the scope and the filters leave.
Column(s, column) == {c \in InView(s) : s.column[c] = column}

LEMMA PeersOrder ==
  ASSUME NEW s, IsPlacement(s), NEW column
  PROVE  /\ IsOrder(Peers(s, column), Column(s, column))
         /\ \A x, y : Precedes(Peers(s, column), x, y) <=>
                        /\ x \in Column(s, column) /\ y \in Column(s, column)
                        /\ Precedes(s.items, x, y)
<1> DEFINE p == Payload(s)
           those == Column(s, column)
<1>1. /\ Distinct(p) /\ ToSet(p) = Retained(s)
      /\ \A x, y : Precedes(p, x, y) <=>
                     x \in Retained(s) /\ y \in Retained(s) /\ Precedes(s.items, x, y)
  BY PayloadOrder DEF IsOrder
<1>2. Peers(s, column) = Only(p, those)
  BY DEF Peers, Column
<1>3. those \subseteq Retained(s)
  BY InViewIsRetained DEF Column
<1> HIDE DEF p, those
<1>4. /\ Distinct(Only(p, those)) /\ ToSet(Only(p, those)) = ToSet(p) \cap those
      /\ \A x, y : Precedes(Only(p, those), x, y) <=> x \in those /\ y \in those /\ Precedes(p, x, y)
  BY <1>1, OnlyOf
<1>5. ToSet(p) \cap those = those
  BY <1>1, <1>3
<1> QED
  BY <1>1, <1>2, <1>3, <1>4, <1>5 DEF IsOrder, those

-----------------------------------------------------------------------------
(* The placement's invariant.                                              *)

PlacementInv == IsPlacement(server) /\ WithinLimits(server)

LEMMA OrdersAreOrders ==
  ASSUME NEW S, IsFiniteSet(S), NEW o \in Orders(S)
  PROVE  IsOrder(o, S) /\ o \in Seq(S)
<1> DEFINE n == Cardinality(S)
<1>1. n \in Nat /\ o \in [1 .. n -> S] /\ IsInjective(o)
  BY FS_CardinalityType DEF Orders
<1> HIDE DEF n
<1>2. o \in Seq(S) /\ Len(o) = n /\ DOMAIN o = 1 .. n
  BY <1>1, IsASeq, LenProperties
<1>3. Distinct(o)
  <2>1. \A i, j \in 1 .. Len(o) : o[i] = o[j] => i = j
    BY <1>1, <1>2 DEF IsInjective
  <2> QED
    BY <1>2, <2>1, DistinctSequence
<1>4. ToSet(o) = S
  <2>1. IsFiniteSet(1 .. n) /\ Cardinality(1 .. n) = n
    BY <1>1, FS_Interval
  <2>2. o \in Injection(1 .. n, S)
    BY <1>1 DEF Injection
  <2>3. o \in Surjection(1 .. n, S)
    BY <2>1, <2>2, FS_Injection DEF n
  <2> QED
    BY <1>1, <2>3 DEF Surjection, ToSet
<1> QED
  BY <1>2, <1>3, <1>4 DEF IsOrder

LEMMA ShownAreInView ==
  ASSUME IsPlacement(server)
  PROVE  /\ ShownCards = InView(server)
         /\ LiveShown = InView(server) \cap Live(server) /\ LiveShown \subseteq Cards
<1>1. \A column : ToSet(Peers(server, column)) = Column(server, column)
  BY PeersOrder DEF IsOrder
<1>2. InView(server) \subseteq Cards
  BY InViewIsRetained
<1>3. \A c \in InView(server) : server.column[c] \in Columns
  BY <1>2 DEF IsPlacement
<1>4. ShownCards = InView(server)
  BY <1>1, <1>3 DEF ShownCards, Column
<1> QED
  BY <1>2, <1>4 DEF LiveShown, Live

\* What is sent keeps the placement one, and the limits by being accepted.
LEMMA MoveSent ==
  ASSUME PlacementInv, NEW c \in Cards, NEW column \in Columns,
         NEW before \in Cards \cup {End}, Sent(Move(c, column, before))
  PROVE  PlacementInv'
<1>1. /\ Accepts(server, Move(c, column, before))
      /\ server' = AppliedTo(server, Move(c, column, before))
  BY DEF Sent
<1>2. before # c
  BY <1>1 DEF Accepts, Move
<1>3. IsPlacement(AppliedTo(server, Move(c, column, before)))
  BY <1>2, MoveApplied DEF PlacementInv, Moved
<1>4. WithinLimits(AppliedTo(server, Move(c, column, before)))
  BY <1>1 DEF Accepts
<1>5. IsPlacement(server') /\ WithinLimits(server')
  BY <1>1, <1>3, <1>4
<1> QED
  BY <1>5 DEF PlacementInv, WithinLimits, Load, Live, IsPlacement

LEMMA RankSent ==
  ASSUME PlacementInv, NEW c \in Columns, NEW before \in Columns \cup {End},
         Sent(RankColumn(c, before))
  PROVE  PlacementInv'
<1>1. /\ Accepts(server, RankColumn(c, before))
      /\ server' = AppliedTo(server, RankColumn(c, before))
  BY DEF Sent
<1>2. before # c
  BY <1>1 DEF Accepts, RankColumn
<1>3. IsPlacement(AppliedTo(server, RankColumn(c, before)))
  BY <1>2, RankApplied DEF PlacementInv
<1>4. WithinLimits(AppliedTo(server, RankColumn(c, before)))
  BY <1>1 DEF Accepts
<1>5. IsPlacement(server') /\ WithinLimits(server')
  BY <1>1, <1>3, <1>4
<1> QED
  BY <1>5 DEF PlacementInv, WithinLimits, Load, Live, IsPlacement

\* What the browser makes of a drop and a menu entry names cards and columns.
LEMMA DropsAreMoves ==
  ASSUME IsPlacement(server), NEW d \in LiveShown, NEW after \in BOOLEAN
  PROVE  /\ d \in Column(server, server.column[d]) /\ server.column[d] \in Columns
         /\ \A c : \E before \in Cards \cup {End} :
              CardDrop(server, c, d, after) = Move(c, server.column[d], before)
<1> DEFINE column == server.column[d]
           peers == Peers(server, column)
<1>1. d \in Live(server) /\ d \in Column(server, column) /\ column \in Columns
  BY ShownAreInView DEF Column, IsPlacement
<1>2. Distinct(peers) /\ d \in ToSet(peers) /\ ToSet(peers) \subseteq Cards
  BY <1>1, PeersOrder, InViewIsRetained DEF IsOrder, Column
<1> HIDE DEF peers
<1>3. After(peers, d) \in Cards \cup {End}
  <2>1. End \notin ToSet(peers)
    BY <1>2, PlacementAssumption
  <2> QED
    BY <1>2, <2>1, AfterIsNext
<1>4. d \in Cards
  BY <1>1 DEF Live
<1>5. \A c : CardDrop(server, c, d, after)
               = Move(c, column, IF after THEN After(peers, d) ELSE d)
  BY DEF CardDrop, peers
<1> QED
  BY <1>1, <1>3, <1>4, <1>5

LEMMA MenuMoves ==
  ASSUME IsPlacement(server), NEW column \in Columns
  PROVE  \A c, end : \E before \in Cards \cup {End} :
           MenuMove(server, c, column, end) = Move(c, column, before)
<1> SUFFICES ASSUME NEW c, NEW end
             PROVE  \E before \in Cards \cup {End} :
                      MenuMove(server, c, column, end) = Move(c, column, before)
  OBVIOUS
<1> DEFINE peers == Only(Peers(server, column), Cards \ {c})
<1>1. Distinct(Peers(server, column)) /\ ToSet(Peers(server, column)) \subseteq Cards
  BY PeersOrder, InViewIsRetained DEF IsOrder, Column
<1>2. Distinct(peers) /\ ToSet(peers) \subseteq Cards
  BY <1>1, OnlyOf
<1>3. MenuMove(server, c, column, end)
        = Move(c, column, IF end = "top" /\ peers # <<>> THEN Head(peers) ELSE End)
  BY DEF MenuMove
<1> HIDE DEF peers
<1>4. peers # <<>> => Head(peers) \in ToSet(peers)
  <2>1. peers \in Seq(ToSet(peers))
    BY <1>2 DEF Distinct
  <2> QED
    BY <2>1, HeadTailProperties
<1> QED
  BY <1>2, <1>3, <1>4

LEMMA ListDropsAreRanks ==
  ASSUME IsPlacement(server), NEW d \in Columns, NEW after \in BOOLEAN
  PROVE  \A c : \E before \in Columns \cup {End} :
           ColumnDrop(server, c, d, after) = RankColumn(c, before)
<1>1. Distinct(server.columns) /\ ToSet(server.columns) = Columns /\ End \notin Columns
  BY PlacementAssumption DEF IsPlacement, IsOrder
<1>2. After(server.columns, d) \in Columns \cup {End}
  BY <1>1, AfterIsNext
<1>3. \A c : ColumnDrop(server, c, d, after)
               = RankColumn(c, IF after THEN After(server.columns, d) ELSE d)
  BY DEF ColumnDrop
<1> QED
  BY <1>2, <1>3

LEMMA PlacementSteps ==
  ASSUME PlacementInv, [PlacementNext]_placementVars
  PROVE  PlacementInv'
<1>0. IsPlacement(server)
  BY DEF PlacementInv
<1>1. LiveShown \subseteq Cards /\ ToSet(Payload(server)) \subseteq Cards
  BY <1>0, ShownAreInView, PayloadOrder, LiveIsRetained DEF IsOrder
<1>2. ASSUME UNCHANGED server
      PROVE  PlacementInv'
  BY <1>2 DEF PlacementInv, WithinLimits, Load, Live, IsPlacement
<1>3. ASSUME NEW c, NEW d, NEW after \in BOOLEAN, DropOnCard(c, d, after)
      PROVE  PlacementInv'
  <2>1. c \in Cards /\ d \in LiveShown /\ Sent(CardDrop(server, c, d, after))
    BY <1>1, <1>3 DEF DropOnCard
  <2>2. server.column[d] \in Columns
    BY <1>0, <2>1, DropsAreMoves
  <2>3. PICK before \in Cards \cup {End} :
          CardDrop(server, c, d, after) = Move(c, server.column[d], before)
    BY <1>0, <2>1, DropsAreMoves
  <2> QED
    BY <2>1, <2>2, <2>3, MoveSent
<1>4. ASSUME NEW c, NEW column \in Columns, DropOnColumn(c, column)
      PROVE  PlacementInv'
  BY <1>1, <1>4, MoveSent DEF DropOnColumn
<1>5. ASSUME NEW c, NEW column \in Columns, NEW end, MoveByMenu(c, column, end)
      PROVE  PlacementInv'
  <2>1. c \in Cards /\ Sent(MenuMove(server, c, column, end))
    BY <1>1, <1>5 DEF MoveByMenu
  <2>2. PICK before \in Cards \cup {End} :
          MenuMove(server, c, column, end) = Move(c, column, before)
    BY <1>0, MenuMoves
  <2> QED
    BY <2>1, <2>2, MoveSent
<1>6. ASSUME NEW c, NEW column \in Columns, NEW before \in Cards \cup {End},
             RunUndo(c, column, before)
      PROVE  PlacementInv'
  BY <1>1, <1>6, MoveSent DEF RunUndo
<1>7. ASSUME NEW c \in Columns, NEW d \in Columns, NEW after \in BOOLEAN, DropList(c, d, after)
      PROVE  PlacementInv'
  <2>1. PICK before \in Columns \cup {End} :
          ColumnDrop(server, c, d, after) = RankColumn(c, before)
    BY <1>0, ListDropsAreRanks
  <2> QED
    BY <1>7, <2>1, RankSent DEF DropList
<1>8. ASSUME NEW c \in Columns, MoveListLeft(c)
      PROVE  PlacementInv'
  <2> DEFINE at == Position(server.columns, c)
             before == server.columns[at - 1]
  <2>1. at > 1 /\ Sent(RankColumn(c, before))
    BY <1>8 DEF MoveListLeft, LeftMove
  <2>2. Distinct(server.columns) /\ ToSet(server.columns) = Columns
    BY <1>0 DEF IsPlacement, IsOrder
  <2>3. at \in 1 .. Len(server.columns) /\ Len(server.columns) \in Nat
    BY <2>2, PositionFinds, DistinctFacts
  <2>4. at - 1 \in 1 .. Len(server.columns)
    BY <2>1, <2>3
  <2>5. before \in Columns
    BY <2>2, <2>4, DistinctFacts
  <2> HIDE DEF before
  <2> QED
    BY <2>1, <2>5, RankSent
<1>9. ASSUME NEW c, ArchiveCard(c) \/ RestoreCard(c)
      PROVE  PlacementInv'
  <2>1. c \in Cards
    BY <1>0, <1>1, <1>9 DEF ArchiveCard, RestoreCard, IsPlacement
  <2>2. PICK k \in {Archiving(c), Restoring(c)} : Sent(k)
    BY <1>9 DEF ArchiveCard, RestoreCard
  <2>3. IsPlacement(AppliedTo(server, k))
    BY <1>0, <2>1, ArchivingApplied
  <2>4. server' = AppliedTo(server, k) /\ WithinLimits(AppliedTo(server, k))
    BY <2>2 DEF Sent, Accepts
  <2>5. IsPlacement(server') /\ WithinLimits(server')
    BY <2>3, <2>4
  <2> QED
    BY <2>5 DEF PlacementInv, WithinLimits, Load, Live, IsPlacement
<1>10. ASSUME NEW cards, FilterCards(cards)
       PROVE  PlacementInv'
  BY <1>2, <1>10 DEF FilterCards
<1>11. CASE ChooseScope
  BY <1>2, <1>11 DEF ChooseScope
<1>12. CASE UNCHANGED placementVars
  BY <1>2, <1>12 DEF placementVars
<1>13. CASE PlacementNext
  BY <1>3, <1>4, <1>5, <1>6, <1>7, <1>8, <1>9, <1>10, <1>11, <1>13 DEF PlacementNext
<1> QED
  BY <1>12, <1>13

LEMMA PlacementStarts == PlacementInit => PlacementInv
<1> SUFFICES ASSUME PlacementInit
             PROVE  PlacementInv
  OBVIOUS
<1>1. /\ server \in [items : Orders(Cards), column : [Cards -> Columns],
                     archived : SUBSET Cards, columns : Orders(Columns)]
      /\ WithinLimits(server)
  BY DEF PlacementInit
<1>2. /\ IsOrder(server.items, Cards) /\ server.items \in Seq(Cards)
      /\ IsOrder(server.columns, Columns) /\ server.columns \in Seq(Columns)
  BY <1>1, PlacementAssumption, OrdersAreOrders
<1>3. server \in [items : Seq(Cards), column : [Cards -> Columns],
                  archived : SUBSET Cards, columns : Seq(Columns)]
  BY <1>1, <1>2
<1> QED
  BY <1>1, <1>2, <1>3 DEF PlacementInv, IsPlacement

-----------------------------------------------------------------------------
(* What the browser knows of a placement is enough.                        *)

\* Reordering and leaving out cards commute, for those that are kept.
LEMMA OnlyReordered ==
  ASSUME NEW s, Distinct(s), End \notin ToSet(s), NEW S, NEW x \in ToSet(s) \cap S,
         NEW before \in ((ToSet(s) \cap S) \ {x}) \cup {End}
  PROVE  Only(Reordered(s, x, before), S) = Reordered(Only(s, S), x, before)
<1> DEFINE o == Only(s, S)
           r == Reordered(s, x, before)
           a == Only(r, S)
           b == Reordered(o, x, before)
<1>1. /\ Distinct(o) /\ ToSet(o) = ToSet(s) \cap S
      /\ \A y, z : Precedes(o, y, z) <=> y \in S /\ z \in S /\ Precedes(s, y, z)
  BY OnlyOf
<1>2. Reorders(r, s, x, before)
  BY ReorderedReorders
<1> HIDE DEF o, r
<1>3. Reorders(b, o, x, before)
  BY <1>1, ReorderedReorders
<1>4. Distinct(r) /\ ToSet(r) = ToSet(s)
  BY <1>2 DEF Reorders
<1>5. /\ Distinct(a) /\ ToSet(a) = ToSet(r) \cap S
      /\ \A y, z : Precedes(a, y, z) <=> y \in S /\ z \in S /\ Precedes(r, y, z)
  BY <1>4, OnlyOf
<1>6. Distinct(b) /\ ToSet(b) = ToSet(o)
  BY <1>3 DEF Reorders
<1> HIDE DEF a, b
<1>7. ToSet(a) = ToSet(b)
  BY <1>1, <1>4, <1>5, <1>6
<1>8. ASSUME NEW y \in ToSet(a) \ {x}, NEW z \in ToSet(a) \ {x}
      PROVE  Precedes(a, y, z) <=> Precedes(b, y, z)
  <2>1. Precedes(b, y, z) <=> Precedes(o, y, z)
    BY <1>3, <1>6, <1>7 DEF Reorders
  <2>2. Precedes(r, y, z) <=> Precedes(s, y, z)
    BY <1>2, <1>4, <1>5 DEF Reorders
  <2> QED
    BY <1>1, <1>5, <2>1, <2>2
<1>9. ASSUME NEW y \in ToSet(a) \ {x}
      PROVE  Precedes(a, y, x) <=> Precedes(b, y, x)
  <2>1. Precedes(b, y, x) <=> before = End \/ Precedes(o, y, before)
    BY <1>3, <1>6, <1>7 DEF Reorders
  <2>2. Precedes(r, y, x) <=> before = End \/ Precedes(s, y, before)
    BY <1>2, <1>4, <1>5 DEF Reorders
  <2>3. y \in S /\ x \in S /\ (before # End => before \in S)
    BY <1>5
  <2> QED
    BY <1>1, <1>5, <2>1, <2>2, <2>3
<1>10. a = b
  BY <1>5, <1>6, <1>7, <1>8, <1>9, OrderAround
<1> QED
  BY <1>10 DEF a, b, o, r

LEMMA OfferedIs ==
  ASSUME IsPlacement(server), NEW command \in Offered
  PROVE  \/ \E c \in Live(server), column \in Columns, before \in Cards \cup {End} :
              command = Move(c, column, before)
         \/ \E c \in Live(server) : command = Archiving(c)
         \/ \E c \in server.archived : command = Restoring(c)
<1>1. LiveShown \subseteq Live(server)
  BY ShownAreInView
<1>2. ASSUME NEW c \in LiveShown, NEW d \in LiveShown, NEW after \in BOOLEAN,
             command = CardDrop(server, c, d, after)
      PROVE  \E column \in Columns, before \in Cards \cup {End} : command = Move(c, column, before)
  <2>1. PICK before \in Cards \cup {End} :
          CardDrop(server, c, d, after) = Move(c, server.column[d], before)
    BY DropsAreMoves
  <2>2. server.column[d] \in Columns
    BY DropsAreMoves
  <2> QED
    BY <1>2, <2>1, <2>2
<1>3. ASSUME NEW c \in LiveShown, NEW column \in Columns, NEW end,
             command = MenuMove(server, c, column, end)
      PROVE  \E before \in Cards \cup {End} : command = Move(c, column, before)
  BY <1>3, MenuMoves
<1> QED
  BY <1>1, <1>2, <1>3 DEF Offered

LEMMA BrowserGuessesRight ==
  ASSUME IsPlacement(server), NEW command \in Offered,
         Accepts(server, command), Guesses(server, command)
  PROVE  LET next == AppliedTo(server, command)
         IN  Ordered(Guess(server, command), next) = Ordered(Payload(next), next)
<1> DEFINE next == AppliedTo(server, command)
           items == server.items
           kept == Retained(server)
           live == Live(next)
<1>1. /\ Distinct(items) /\ ToSet(items) = Cards /\ End \notin Cards
      /\ Live(server) \subseteq kept /\ kept \subseteq Cards /\ Live(server) \subseteq Cards
  BY LiveIsRetained, PlacementAssumption DEF IsPlacement, IsOrder, Live
<1>2. Payload(server) = Only(items, kept)
  BY DEF Payload
<1>3. ASSUME NEW c \in Live(server), NEW column \in Columns, NEW before \in Cards \cup {End},
             command = Move(c, column, before)
      PROVE  Only(Guess(server, command), live) = Only(Payload(next), live)
  <2>1. before \in (Cards \ {c}) \cup {End} /\ before \in kept \cup {End}
    <3>1. before # c
      BY <1>3 DEF Accepts, Move
    <3>2. before \in ToSet(Payload(server)) \cup {End}
      BY <1>3 DEF Guesses, Move
    <3>3. ToSet(Payload(server)) = kept
      BY PayloadOrder DEF IsOrder
    <3> QED
      BY <3>1, <3>2, <3>3
  <2>2. Guess(server, command) = Reordered(Only(items, kept), c, before)
    BY <1>2, <1>3 DEF Guess, Move
  <2>3. next.archived = server.archived
    <3>1. c \in Cards
      BY <1>1
    <3>2. Moved(AppliedTo(server, Move(c, column, before)), server, c, column, before)
      BY <2>1, <3>1, MoveApplied
    <3> QED
      BY <1>3, <3>2 DEF Moved
  <2>4. Retained(next) = kept
    BY <2>3, RetainedOf
  <2>5. next.items = Reordered(items, c, before)
    BY <1>3 DEF AppliedTo, Move, IsPlacement
  <2>6. Payload(next) = Only(Reordered(items, c, before), kept)
    BY <2>4, <2>5 DEF Payload
  <2>7. c \in ToSet(items) \cap kept /\ before \in ((ToSet(items) \cap kept) \ {c}) \cup {End}
    BY <1>1, <2>1
  <2>8. Only(Reordered(items, c, before), kept) = Reordered(Only(items, kept), c, before)
    <3> HIDE DEF items, kept
    <3> QED
      BY <1>1, <2>7, OnlyReordered
  <2> QED
    BY <2>2, <2>6, <2>8
<1>4. ASSUME NEW c \in Live(server), command = Archiving(c)
      PROVE  Only(Guess(server, command), live) = Only(Payload(next), live)
  <2>1. Guess(server, command) = Only(Only(items, kept), Cards \ {c})
    BY <1>2, <1>4 DEF Guess, Archiving
  <2>2. /\ IsPlacement(next) /\ next.items = items
        /\ next.archived = server.archived \cup {c}
    BY <1>1, <1>4, ArchivingApplied DEF IsPlacement
  <2>3. live = Live(server) \ {c} /\ live \subseteq Retained(next)
    BY <2>2, LiveIsRetained DEF Live
  <2>4. Payload(next) = Only(items, Retained(next))
    BY <2>2 DEF Payload
  <2>5. kept \cap (Cards \ {c}) \cap live = live /\ Retained(next) \cap live = live
    BY <1>1, <2>3
  <2> HIDE DEF items, kept, live, next
  <2>6. Only(items, Retained(next) \cap live) = Only(Payload(next), live)
    BY <1>1, <2>4, OnlyOnly
  <2>7. Only(Only(items, kept), Cards \ {c}) = Only(items, kept \cap (Cards \ {c}))
    BY <1>1, OnlyOnly
  <2>8. Only(Guess(server, command), live) = Only(items, kept \cap (Cards \ {c}) \cap live)
    BY <1>1, <2>1, <2>7, OnlyOnly
  <2> QED
    BY <2>5, <2>6, <2>8
<1>5. ~\E c \in server.archived : command = Restoring(c)
  BY DEF Guesses, Restoring
<1>6. Only(Guess(server, command), live) = Only(Payload(next), live)
  BY <1>3, <1>4, <1>5, OfferedIs
<1> QED
  BY <1>6 DEF Ordered

\* The card moved back in front of the one that followed it in the payload.
LEMMA MovedBack ==
  ASSUME NEW s, IsPlacement(s), WithinLimits(s), NEW c \in Live(s), NEW column \in Columns,
         NEW before \in (Cards \ {c}) \cup {End}, NEW n, Moved(n, s, c, column, before)
  PROVE  LET undo == Move(c, s.column[c], After(Payload(s), c))
             back == AppliedTo(n, undo)
         IN  Accepts(n, undo) /\ Payload(back) = Payload(s) /\ back.column = s.column
<1> DEFINE a == After(Payload(s), c)
           undo == Move(c, s.column[c], a)
           back == AppliedTo(n, undo)
           kept == Retained(s)
           p == Payload(s)
           q == Payload(back)
<1>1. /\ c \in Cards /\ c \in kept /\ kept \subseteq Cards /\ s.column[c] \in Columns
      /\ c \notin s.archived /\ End \notin Cards
  BY LiveIsRetained, PlacementAssumption DEF Live, IsPlacement
<1>2. /\ Distinct(p) /\ ToSet(p) = kept
      /\ \A x, y : Precedes(p, x, y) <=> x \in kept /\ y \in kept /\ Precedes(s.items, x, y)
  BY PayloadOrder DEF IsOrder
<1>3. /\ a \in (kept \ {c}) \cup {End}
      /\ \A y \in kept \ {c} : Precedes(p, y, c) <=> a = End \/ Precedes(p, y, a)
  <2>1. c \in ToSet(p) /\ End \notin ToSet(p)
    BY <1>1, <1>2
  <2> HIDE DEF p
  <2>2. /\ After(p, c) \in (ToSet(p) \ {c}) \cup {End}
        /\ \A y \in ToSet(p) \ {c} :
             Precedes(p, y, c) <=> After(p, c) = End \/ Precedes(p, y, After(p, c))
    BY <1>2, <2>1, AfterIsNext
  <2> QED
    BY <1>2, <2>2 DEF p
<1> HIDE DEF p, a
<1>4. IsPlacement(n)
  BY DEF Moved
<1>5. Moved(back, n, c, s.column[c], a)
  <2>1. a \in (Cards \ {c}) \cup {End}
    BY <1>1, <1>3
  <2> QED
    BY <1>1, <1>4, <2>1, MoveApplied
<1> HIDE DEF back
<1>6. IsPlacement(back) /\ back.archived = s.archived
  BY <1>5 DEF Moved
<1>7. back.column = s.column
  <2>1. back.column = [[s.column EXCEPT ![c] = column] EXCEPT ![c] = s.column[c]]
    BY <1>5 DEF Moved
  <2>2. s.column \in [Cards -> Columns]
    BY DEF IsPlacement
  <2> QED
    BY <1>1, <2>1, <2>2
<1>8. /\ Distinct(q) /\ ToSet(q) = kept
      /\ \A x, y : Precedes(q, x, y) <=> x \in kept /\ y \in kept /\ Precedes(back.items, x, y)
  <2>1. Retained(back) = kept
    BY <1>6, RetainedOf
  <2> QED
    BY <1>6, <2>1, PayloadOrder DEF IsOrder
<1> HIDE DEF q
<1>9. ToSet(s.items) = Cards /\ ToSet(n.items) = Cards
  BY <1>4 DEF IsPlacement, IsOrder
<1>10. ASSUME NEW y \in kept \ {c}, NEW z \in kept \ {c}
       PROVE  /\ Precedes(q, y, z) <=> Precedes(p, y, z)
              /\ Precedes(n.items, y, z) <=> Precedes(p, y, z)
  <2>1. y \in Cards \ {c} /\ z \in Cards \ {c}
    BY <1>1
  <2>2. Precedes(back.items, y, z) <=> Precedes(n.items, y, z)
    BY <1>5, <1>9, <2>1 DEF Moved, Reorders
  <2>3. Precedes(n.items, y, z) <=> Precedes(s.items, y, z)
    BY <1>9, <2>1 DEF Moved, Reorders
  <2> QED
    BY <1>2, <1>8, <2>2, <2>3
<1>11. ASSUME NEW y \in kept \ {c}
       PROVE  Precedes(q, y, c) <=> Precedes(p, y, c)
  <2>1. Precedes(back.items, y, c) <=> a = End \/ Precedes(n.items, y, a)
    BY <1>1, <1>5, <1>9 DEF Moved, Reorders
  <2>2. a # End => (Precedes(n.items, y, a) <=> Precedes(p, y, a))
    BY <1>3, <1>10
  <2> QED
    BY <1>1, <1>3, <1>8, <2>1, <2>2
<1>12. q = p
  BY <1>2, <1>8, <1>10, <1>11, OrderAround
<1>13. WithinLimits(back)
  <2>1. Live(back) = Live(s)
    BY <1>6, RetainedOf
  <2> QED
    BY <1>7, <2>1 DEF WithinLimits, Load
<1>14. Accepts(n, undo)
  <2>1. /\ undo.kind = "item.move" /\ undo.target = c /\ undo.before = a
    BY DEF Move
  <2>2. n.archived = s.archived /\ c # a
    BY <1>1, <1>3 DEF Moved
  <2>3. WithinLimits(AppliedTo(n, undo))
    BY <1>13 DEF back
  <2> HIDE DEF undo
  <2> QED
    BY <1>1, <2>1, <2>2, <2>3 DEF Accepts
<1> QED
  BY <1>7, <1>12, <1>14 DEF q, p, back, a

LEMMA ArchivedAgain ==
  ASSUME NEW s, IsPlacement(s), NEW S
  PROVE  [[s EXCEPT !.archived = S] EXCEPT !.archived = s.archived] = s
<1>1. s = [items |-> s.items, column |-> s.column, archived |-> s.archived,
           columns |-> s.columns]
  BY DEF IsPlacement
<1> QED
  BY <1>1

LEMMA UndoRestores ==
  ASSUME PlacementInv, NEW command \in Offered, Accepts(server, command)
  PROVE  LET next == AppliedTo(server, command)
             undo == UndoableInverse(server, command)
             back == AppliedTo(next, undo)
         IN  /\ Accepts(next, undo)
             /\ Payload(back) = Payload(server)
             /\ \A c \in Live(server) : back.column[c] = server.column[c]
<1> DEFINE next == AppliedTo(server, command)
           undo == UndoableInverse(server, command)
           back == AppliedTo(next, undo)
           Undone == /\ Accepts(next, undo)
                     /\ Payload(back) = Payload(server)
                     /\ \A c \in Live(server) : back.column[c] = server.column[c]
<1>0. IsPlacement(server) /\ WithinLimits(server)
  BY DEF PlacementInv
<1>1. ASSUME NEW c \in Live(server), NEW column \in Columns, NEW before \in Cards \cup {End},
             command = Move(c, column, before)
      PROVE  Undone
  <2>1. c \in Cards /\ before # c
    BY <1>1 DEF Accepts, Move, Live
  <2>2. Moved(next, server, c, column, before)
    BY <1>0, <1>1, <2>1, MoveApplied
  <2>3. undo = Move(c, server.column[c], After(Payload(server), c))
    BY <1>1 DEF UndoableInverse, Move
  <2> HIDE DEF next, undo
  <2>4. Accepts(next, undo) /\ Payload(back) = Payload(server) /\ back.column = server.column
    <3> DEFINE k == Move(c, server.column[c], After(Payload(server), c))
    <3>1. /\ Accepts(next, k) /\ Payload(AppliedTo(next, k)) = Payload(server)
          /\ AppliedTo(next, k).column = server.column
      BY <1>0, <2>1, <2>2, MovedBack
    <3> HIDE DEF k
    <3>2. undo = k
      BY <2>3 DEF k
    <3> QED
      BY <3>1, <3>2
  <2> QED
    BY <2>4
<1>2. ASSUME NEW c \in Cards,
             \/ command = Archiving(c) /\ c \notin server.archived
             \/ command = Restoring(c) /\ c \in server.archived
      PROVE  Undone
  <2>1. undo.kind # "item.move" /\ undo.target # undo.before /\ back = server
    <3>1. c # End
      BY PlacementAssumption
    <3>2. CASE command = Archiving(c) /\ c \notin server.archived
      <4>1. next = [server EXCEPT !.archived = @ \cup {c}] /\ IsPlacement(next)
        BY <1>0, <3>2, ArchivingApplied
      <4>2. undo = Restoring(c)
        BY <3>2 DEF UndoableInverse, Archiving
      <4> HIDE DEF next, undo
      <4>3. back = [next EXCEPT !.archived = @ \ {c}]
        BY <4>1, <4>2, ArchivingApplied
      <4>4. next.archived \ {c} = server.archived
        BY <1>0, <3>2, <4>1 DEF IsPlacement
      <4>5. back = server
        BY <1>0, <4>1, <4>3, <4>4, ArchivedAgain
      <4> QED
        BY <3>1, <4>2, <4>5 DEF Restoring
    <3>3. CASE command = Restoring(c) /\ c \in server.archived
      <4>1. next = [server EXCEPT !.archived = @ \ {c}] /\ IsPlacement(next)
        BY <1>0, <3>3, ArchivingApplied
      <4>2. undo = Archiving(c)
        BY <3>3 DEF UndoableInverse, Restoring
      <4> HIDE DEF next, undo
      <4>3. back = [next EXCEPT !.archived = @ \cup {c}]
        BY <4>1, <4>2, ArchivingApplied
      <4>4. next.archived \cup {c} = server.archived
        BY <1>0, <3>3, <4>1 DEF IsPlacement
      <4>5. back = server
        BY <1>0, <4>1, <4>3, <4>4, ArchivedAgain
      <4> QED
        BY <3>1, <4>2, <4>5 DEF Archiving
    <3> QED
      BY <1>2, <3>2, <3>3
  <2> HIDE DEF next, undo
  <2>2. Accepts(next, undo)
    BY <1>0, <2>1 DEF Accepts
  <2> QED
    BY <2>1, <2>2
<1>3. Undone
  <2>1. Live(server) = Cards \ server.archived /\ server.archived \subseteq Cards
    BY <1>0 DEF Live, IsPlacement
  <2> HIDE DEF Undone
  <2>2. \/ \E c \in Live(server), column \in Columns, before \in Cards \cup {End} :
             command = Move(c, column, before)
        \/ \E c \in Live(server) : command = Archiving(c)
        \/ \E c \in server.archived : command = Restoring(c)
    BY <1>0, OfferedIs
  <2> QED
    BY <1>1, <1>2, <2>1, <2>2
<1> QED
  BY <1>3

LEMMA BlockingIsKept ==
  ASSUME IsPlacement(server)
  PROVE  BlockedIsKnown
<1> SUFFICES ASSUME NEW c \in Live(server)
             PROVE  Dependencies[c] \subseteq Retained(server)
  BY DEF BlockedIsKnown, Blocked, Blocking
<1>1. Dependencies[c] \subseteq Cards
  BY PlacementAssumption DEF Live
<1> QED
  BY <1>1 DEF Retained

-----------------------------------------------------------------------------
(* Drops land where they are shown.                                        *)

\* c was put into p, or put elsewhere in it, in front of before.
Lies(q, p, c, before) ==
  /\ Distinct(p) /\ Distinct(q) /\ ToSet(q) = ToSet(p) \cup {c}
  /\ \A y, z \in ToSet(p) \ {c} : Precedes(q, y, z) <=> Precedes(p, y, z)
  /\ \A y \in ToSet(p) \ {c} : Precedes(q, y, c) <=> before = End \/ Precedes(p, y, before)

LEMMA LandsNext ==
  ASSUME NEW p, NEW q, NEW c, NEW before, Lies(q, p, c, before), End \notin ToSet(p),
         NEW d \in ToSet(p) \ {c}, NEW after \in BOOLEAN,
         before = IF after THEN After(p, d) ELSE d, before # c
  PROVE  NextTo(q, c, d, after)
<1>1. /\ Distinct(p) /\ Distinct(q) /\ ToSet(q) = ToSet(p) \cup {c}
      /\ \A y, z \in ToSet(p) \ {c} : Precedes(q, y, z) <=> Precedes(p, y, z)
      /\ \A y \in ToSet(p) \ {c} : Precedes(q, y, c) <=> before = End \/ Precedes(p, y, before)
  BY DEF Lies
<1>2. /\ \A y, z \in ToSet(p) : y = z \/ Precedes(p, y, z) \/ Precedes(p, z, y)
      /\ \A y, z \in ToSet(p) : ~(Precedes(p, y, z) /\ Precedes(p, z, y))
  BY <1>1, OrderIsTotal
<1>3. /\ \A y, z \in ToSet(q) : y = z \/ Precedes(q, y, z) \/ Precedes(q, z, y)
      /\ \A y, z \in ToSet(q) : ~(Precedes(q, y, z) /\ Precedes(q, z, y))
  BY <1>1, OrderIsTotal
<1>4. CASE ~after
  <2>1. before = d /\ d # End
    BY <1>4
  <2>2. ~Precedes(p, d, d)
    BY <1>2
  <2>3. Precedes(q, c, d)
    <3>1. ~Precedes(q, d, c)
      BY <1>1, <2>1, <2>2
    <3> QED
      BY <1>1, <1>3, <3>1
  <2>4. ASSUME NEW z \in ToSet(q), Precedes(q, c, z), Precedes(q, z, d)
        PROVE  FALSE
    <3>1. z # c
      BY <1>3, <2>4
    <3>2. Precedes(p, z, d)
      BY <1>1, <2>4, <3>1
    <3>3. Precedes(q, z, c)
      BY <1>1, <2>1, <3>1, <3>2
    <3> QED
      BY <1>1, <1>3, <2>4, <3>3
  <2>5. Position(q, c) = Position(q, d) - 1
    BY <1>1, <2>3, <2>4, NextPlaces
  <2> QED
    BY <1>4, <2>5 DEF NextTo
<1>5. CASE after
  <2>1. /\ before \in (ToSet(p) \ {d}) \cup {End}
        /\ \A y \in ToSet(p) \ {d} :
             Precedes(p, y, d) <=> before = End \/ Precedes(p, y, before)
    <3>1. /\ After(p, d) \in (ToSet(p) \ {d}) \cup {End}
          /\ \A y \in ToSet(p) \ {d} :
               Precedes(p, y, d) <=> After(p, d) = End \/ Precedes(p, y, After(p, d))
      BY <1>1, AfterIsNext
    <3> QED
      BY <1>5, <3>1
  <2>2. before = End \/ Precedes(p, d, before)
    <3> SUFFICES ASSUME before # End
                 PROVE  Precedes(p, d, before)
      OBVIOUS
    <3>1. before \in ToSet(p) \ {d} /\ ~Precedes(p, before, before)
      BY <1>2, <2>1
    <3>2. ~Precedes(p, before, d)
      BY <2>1, <3>1
    <3> QED
      BY <1>2, <3>1, <3>2
  <2>3. Precedes(q, d, c)
    BY <1>1, <2>2
  <2>4. ASSUME NEW z \in ToSet(q), Precedes(q, d, z), Precedes(q, z, c)
        PROVE  FALSE
    <3>1. z # c /\ z # d
      BY <1>1, <1>3, <2>4
    <3>2. z \in ToSet(p) \ {c} /\ z \in ToSet(p) \ {d}
      BY <1>1, <3>1
    <3>3. Precedes(p, z, d)
      BY <1>1, <2>1, <2>4, <3>2
    <3>4. Precedes(p, d, z)
      BY <1>1, <2>4, <3>2
    <3> QED
      BY <1>2, <3>2, <3>3, <3>4
  <2>5. Position(q, c) = Position(q, d) + 1
    BY <1>1, <2>3, <2>4, NextPlaces
  <2> QED
    BY <1>5, <2>5 DEF NextTo
<1> QED
  BY <1>4, <1>5

\* Among the cards shown of its column a moved card lies in front of before.
LEMMA MovedLies ==
  ASSUME NEW s, IsPlacement(s), NEW c \in InView(s), NEW column \in Columns, NEW before,
         NEW n, Moved(n, s, c, column, before), before \in (Column(s, column) \ {c}) \cup {End}
  PROVE  Lies(Peers(n, column), Peers(s, column), c, before)
<1> DEFINE p == Peers(s, column)
           q == Peers(n, column)
           K == Column(s, column)
<1>1. /\ Distinct(p) /\ ToSet(p) = K
      /\ \A x, y : Precedes(p, x, y) <=> x \in K /\ y \in K /\ Precedes(s.items, x, y)
  BY PeersOrder DEF IsOrder
<1>2. Column(n, column) = K \cup {c}
  <2>1. InView(n) = InView(s) /\ n.column = [s.column EXCEPT ![c] = column]
    BY RetainedOf DEF Moved, InView
  <2>2. s.column \in [Cards -> Columns] /\ InView(s) \subseteq Cards
    BY InViewIsRetained DEF IsPlacement
  <2> QED
    BY <2>1, <2>2 DEF Column
<1>3. /\ Distinct(q) /\ ToSet(q) = K \cup {c}
      /\ \A x, y : Precedes(q, x, y) <=>
                     x \in K \cup {c} /\ y \in K \cup {c} /\ Precedes(n.items, x, y)
  <2>1. IsPlacement(n)
    BY DEF Moved
  <2> HIDE DEF K
  <2> QED
    BY <1>2, <2>1, PeersOrder DEF IsOrder
<1>4. K \subseteq Cards /\ ToSet(s.items) = Cards
  BY InViewIsRetained DEF Column, IsPlacement, IsOrder
<1>5. /\ \A y, z \in Cards \ {c} : Precedes(n.items, y, z) <=> Precedes(s.items, y, z)
      /\ \A y \in Cards \ {c} :
           Precedes(n.items, y, c) <=> before = End \/ Precedes(s.items, y, before)
  BY <1>4 DEF Moved, Reorders
<1> HIDE DEF p, q, K
<1>6. \A y, z \in K \ {c} : Precedes(q, y, z) <=> Precedes(p, y, z)
  BY <1>1, <1>3, <1>4, <1>5
<1>7. ASSUME NEW y \in K \ {c}
      PROVE  Precedes(q, y, c) <=> before = End \/ Precedes(p, y, before)
  <2>1. y \in Cards \ {c}
    BY <1>4
  <2>2. before # End => before \in K
    BY DEF K
  <2> QED
    BY <1>1, <1>3, <1>5, <2>1, <2>2
<1>8. Lies(q, p, c, before)
  BY <1>1, <1>3, <1>6, <1>7 DEF Lies
<1> QED
  BY <1>8 DEF q, p

LEMMA HeadIsFirst ==
  ASSUME NEW s, Distinct(s)
  PROVE  IF s = <<>> THEN ToSet(s) = {}
         ELSE Head(s) \in ToSet(s) /\ \A y : ~Precedes(s, y, Head(s))
<1>1. /\ Len(s) \in Nat /\ s \in Seq(ToSet(s)) /\ DOMAIN s = 1 .. Len(s)
      /\ \A k \in 1 .. Len(s) : s[k] \in ToSet(s)
      /\ \A k, m \in 1 .. Len(s) : Precedes(s, s[k], s[m]) <=> k < m
      /\ \A y \in ToSet(s) : \E k \in 1 .. Len(s) : s[k] = y
      /\ \A x, y : Precedes(s, x, y) => x \in ToSet(s)
  BY DistinctFacts
<1>2. CASE s = <<>>
  BY <1>2, EmptyIsDistinct
<1>3. CASE s # <<>>
  <2>1. Len(s) # 0 /\ Head(s) = s[1]
    BY <1>1, <1>3, EmptySeq
  <2>2. 1 \in 1 .. Len(s)
    BY <1>1, <2>1
  <2>3. ASSUME NEW y, Precedes(s, y, s[1])
        PROVE  FALSE
    <3>1. PICK k \in 1 .. Len(s) : s[k] = y
      BY <1>1, <2>3
    <3>2. k < 1
      BY <1>1, <2>2, <2>3, <3>1
    <3> QED
      BY <1>1, <3>2
  <2> QED
    BY <1>1, <1>3, <2>1, <2>2, <2>3
<1> QED
  BY <1>2, <1>3

LEMMA CardDropsLand ==
  ASSUME IsPlacement(server), NEW c \in LiveShown, NEW d \in LiveShown \ {c},
         NEW after \in BOOLEAN, Accepts(server, CardDrop(server, c, d, after))
  PROVE  NextTo(Peers(AppliedTo(server, CardDrop(server, c, d, after)), server.column[d]), c, d,
                after)
<1> DEFINE column == server.column[d]
           p == Peers(server, column)
           before == IF after THEN After(p, d) ELSE d
           n == AppliedTo(server, Move(c, column, before))
<1>1. CardDrop(server, c, d, after) = Move(c, column, before)
  BY DEF CardDrop
<1>2. /\ d \in Column(server, column) /\ column \in Columns
      /\ c \in InView(server) /\ c \in Live(server) /\ End \notin Cards
      /\ Live(server) \subseteq Cards
  BY ShownAreInView, DropsAreMoves, PlacementAssumption DEF Live
<1> HIDE DEF column
<1>3. Distinct(p) /\ ToSet(p) = Column(server, column) /\ Column(server, column) \subseteq Cards
  BY PeersOrder, InViewIsRetained DEF IsOrder, Column
<1>4. before # c
  BY <1>1 DEF Accepts, Move
<1> HIDE DEF p
<1>5. before \in (Column(server, column) \ {c}) \cup {End}
  <2>1. d \in ToSet(p) /\ End \notin ToSet(p)
    BY <1>2, <1>3
  <2>2. After(p, d) \in (ToSet(p) \ {d}) \cup {End}
    BY <1>3, <2>1, AfterIsNext
  <2> QED
    BY <1>3, <1>4, <2>1, <2>2
<1>6. Moved(n, server, c, column, before)
  <2>1. before \in (Cards \ {c}) \cup {End} /\ c \in Cards
    BY <1>2, <1>3, <1>5
  <2> HIDE DEF before
  <2> QED
    BY <1>2, <2>1, MoveApplied
<1>7. before = IF after THEN After(p, d) ELSE d
  OBVIOUS
<1> HIDE DEF before, n
<1>8. Lies(Peers(n, column), p, c, before)
  BY <1>2, <1>5, <1>6, MovedLies DEF p
<1>9. End \notin ToSet(p) /\ d \in ToSet(p) \ {c}
  BY <1>2, <1>3
<1>10. NextTo(Peers(n, column), c, d, after)
  BY <1>4, <1>7, <1>8, <1>9, LandsNext
<1> QED
  BY <1>1, <1>10 DEF n, column

LEMMA EndsLand ==
  ASSUME IsPlacement(server), NEW c \in LiveShown, NEW column \in Columns
  PROVE  /\ LET n == AppliedTo(server, Move(c, column, End))
            IN  Last(Peers(n, column)) = c
         /\ LET n == AppliedTo(server, MenuMove(server, c, column, "bottom"))
            IN  Last(Peers(n, column)) = c
         /\ LET n == AppliedTo(server, MenuMove(server, c, column, "top"))
            IN  Head(Peers(n, column)) = c
<1> DEFINE p == Peers(server, column)
           peers == Only(p, Cards \ {c})
           K == Column(server, column)
<1>1. c \in InView(server) /\ c \in Live(server) /\ c \in Cards /\ K \subseteq Cards
  BY ShownAreInView, InViewIsRetained DEF Column
<1>2. Distinct(p) /\ ToSet(p) = K
  BY PeersOrder DEF IsOrder
<1> HIDE DEF p, K
<1>3. ASSUME NEW before \in (K \ {c}) \cup {End}
      PROVE  Lies(Peers(AppliedTo(server, Move(c, column, before)), column), p, c, before)
  <2> DEFINE n == AppliedTo(server, Move(c, column, before))
  <2>1. before \in (Cards \ {c}) \cup {End}
    BY <1>1
  <2>2. Moved(n, server, c, column, before)
    BY <1>1, <2>1, MoveApplied
  <2> HIDE DEF n
  <2>3. Lies(Peers(n, column), p, c, before)
    BY <1>1, <2>2, MovedLies DEF p, K
  <2> QED
    BY <2>3 DEF n
<1>4. Last(Peers(AppliedTo(server, Move(c, column, End)), column)) = c
  <2> DEFINE q == Peers(AppliedTo(server, Move(c, column, End)), column)
  <2>1. Lies(q, p, c, End)
    BY <1>3
  <2> HIDE DEF q
  <2>2. Distinct(q) /\ c \in ToSet(q) /\ \A y \in ToSet(q) \ {c} : Precedes(q, y, c)
    BY <2>1 DEF Lies
  <2>3. Last(q) = c
    BY <2>2, FirstAndLast
  <2> QED
    BY <2>3 DEF q
<1>5. MenuMove(server, c, column, "bottom") = Move(c, column, End)
  BY DEF MenuMove
<1>6. MenuMove(server, c, column, "top")
        = Move(c, column, IF peers # <<>> THEN Head(peers) ELSE End)
  BY DEF MenuMove, p
<1>7. /\ Distinct(peers) /\ ToSet(peers) = K \ {c}
      /\ \A x, y : Precedes(peers, x, y) <=>
                     x \in Cards \ {c} /\ y \in Cards \ {c} /\ Precedes(p, x, y)
  <2> DEFINE S == Cards \ {c}
  <2>1. K \cap S = K \ {c}
    BY <1>1
  <2> HIDE DEF S
  <2>2. /\ Distinct(Only(p, S)) /\ ToSet(Only(p, S)) = ToSet(p) \cap S
        /\ \A x, y : Precedes(Only(p, S), x, y) <=> x \in S /\ y \in S /\ Precedes(p, x, y)
    BY <1>2, OnlyOf
  <2> QED
    BY <1>2, <2>1, <2>2 DEF S
<1> HIDE DEF peers
<1>8. PICK before \in (K \ {c}) \cup {End} :
        /\ MenuMove(server, c, column, "top") = Move(c, column, before)
        /\ \A y \in K \ {c} : before # End /\ ~Precedes(p, y, before)
  <2>1. CASE peers = <<>>
    <3>1. K \ {c} = {}
      BY <1>7, <2>1, HeadIsFirst
    <3> QED
      BY <1>6, <2>1, <3>1
  <2>2. CASE peers # <<>>
    <3>1. Head(peers) \in K \ {c} /\ \A y : ~Precedes(peers, y, Head(peers))
      BY <1>7, <2>2, HeadIsFirst
    <3>2. Head(peers) # End
      BY <1>1, <3>1, PlacementAssumption
    <3>3. \A y \in K \ {c} : ~Precedes(p, y, Head(peers))
      BY <1>1, <1>7, <3>1
    <3> QED
      BY <1>6, <2>2, <3>1, <3>2, <3>3
  <2> QED
    BY <2>1, <2>2
<1>9. Head(Peers(AppliedTo(server, MenuMove(server, c, column, "top")), column)) = c
  <2> DEFINE q == Peers(AppliedTo(server, Move(c, column, before)), column)
  <2>1. Lies(q, p, c, before)
    BY <1>3
  <2> HIDE DEF q
  <2>2. Distinct(q) /\ c \in ToSet(q) /\ \A y \in ToSet(q) \ {c} : ~Precedes(q, y, c)
    BY <1>2, <1>8, <2>1 DEF Lies
  <2>3. \A y \in ToSet(q) \ {c} : Precedes(q, c, y)
    BY <2>2, OrderIsTotal
  <2>4. Head(q) = c
    BY <2>2, <2>3, FirstAndLast
  <2> QED
    BY <1>8, <2>4 DEF q
<1> QED
  BY <1>4, <1>5, <1>9

LEMMA ListDropsLand ==
  ASSUME IsPlacement(server), NEW c \in Columns, NEW d \in Columns \ {c},
         NEW after \in BOOLEAN, Accepts(server, ColumnDrop(server, c, d, after))
  PROVE  NextTo(AppliedTo(server, ColumnDrop(server, c, d, after)).columns, c, d, after)
<1> DEFINE p == server.columns
           before == IF after THEN After(p, d) ELSE d
           n == AppliedTo(server, RankColumn(c, before))
<1>1. ColumnDrop(server, c, d, after) = RankColumn(c, before)
  BY DEF ColumnDrop
<1>2. Distinct(p) /\ ToSet(p) = Columns /\ End \notin ToSet(p)
  BY PlacementAssumption DEF IsPlacement, IsOrder
<1>3. before # c
  BY <1>1 DEF Accepts, RankColumn
<1>4. before \in (Columns \ {c}) \cup {End}
  <2>1. After(p, d) \in (ToSet(p) \ {d}) \cup {End}
    BY <1>2, AfterIsNext
  <2> QED
    BY <1>2, <1>3, <2>1
<1>5. Reorders(n.columns, p, c, before)
  <2> HIDE DEF before
  <2> QED
    BY <1>4, RankApplied
<1>6. before = IF after THEN After(p, d) ELSE d
  OBVIOUS
<1> HIDE DEF before, n, p
<1>7. Lies(n.columns, p, c, before)
  BY <1>2, <1>5 DEF Lies, Reorders
<1>8. d \in ToSet(p) \ {c}
  BY <1>2
<1>9. NextTo(n.columns, c, d, after)
  BY <1>2, <1>3, <1>6, <1>7, <1>8, LandsNext
<1> QED
  BY <1>1, <1>9 DEF n

LEMMA DropsLandThere ==
  ASSUME IsPlacement(server)
  PROVE  DropsLandWhereShown
<1>1. \A c \in LiveShown : \A d \in LiveShown \ {c}, after \in BOOLEAN :
        Lands(CardDrop(server, c, d, after), server.column[d],
              LAMBDA seq : NextTo(seq, c, d, after))
  BY CardDropsLand DEF Lands
<1>2. \A c \in LiveShown, column \in Columns :
        /\ Lands(Move(c, column, End), column, LAMBDA seq : Last(seq) = c)
        /\ Lands(MenuMove(server, c, column, "top"), column, LAMBDA seq : Head(seq) = c)
        /\ Lands(MenuMove(server, c, column, "bottom"), column, LAMBDA seq : Last(seq) = c)
  BY EndsLand DEF Lands
<1>3. \A c \in Columns : \A d \in Columns \ {c}, after \in BOOLEAN :
        LET command == ColumnDrop(server, c, d, after)
        IN  Accepts(server, command) => NextTo(AppliedTo(server, command).columns, c, d, after)
  BY ListDropsLand
<1> QED
  BY <1>1, <1>2, <1>3 DEF DropsLandWhereShown

LEMMA PlacementInvariant == ViewsSpec => []PlacementInv
<1>1. ViewsInit => PlacementInv
  BY PlacementStarts DEF ViewsInit
<1>2. PlacementInv /\ [ViewsNext]_viewsVars => PlacementInv'
  BY PlacementSteps DEF ViewsNext, viewsVars, placementVars
<1> QED
  BY <1>1, <1>2, PTL DEF ViewsSpec

\* The payload is enough for the browser, for any cards, limits, dependencies and
\* filters: the order it guesses is the server's, undo at once is accepted and
\* puts every card back, and no card that blocks another is left out.
THEOREM PayloadIsEnough == ViewsSpec => []PayloadSuffices
<1>1. PlacementInv => PayloadSuffices
  <2> SUFFICES ASSUME PlacementInv
               PROVE  BrowserAgrees /\ UndoRestoresPlacement /\ BlockedIsKnown
    BY DEF PayloadSuffices
  <2>1. IsPlacement(server)
    BY DEF PlacementInv
  <2>2. BrowserAgrees
    BY <2>1, BrowserGuessesRight DEF BrowserAgrees
  <2>3. UndoRestoresPlacement
    BY UndoRestores DEF UndoRestoresPlacement
  <2> QED
    BY <2>1, <2>2, <2>3, BlockingIsKept
<1> QED
  BY <1>1, PlacementInvariant, PTL

\* A card, and a list, lands where the browser showed it would, however many
\* archived and hidden cards lie between those shown.
THEOREM DropsLandAsShown == ViewsSpec => []DropsLand
<1>1. PlacementInv => DropsLand
  BY DropsLandThere DEF PlacementInv, DropsLand
<1> QED
  BY <1>1, PlacementInvariant, PTL

-----------------------------------------------------------------------------
(* The parts together.                                                     *)

\* In what the run checks each part behaves as it does alone, so that what is
\* proved of the address and of the list holds there.
THEOREM ViewsAreTheirParts == ViewsSpec => NavigationSpec /\ ListSpec
<1>1. ViewsInit => NavigationInit /\ ListInit
  BY DEF ViewsInit
<1>2. [ViewsNext]_viewsVars => [NavigationNext]_navigationVars
  BY DEF ViewsNext, viewsVars
<1>3. [ViewsNext]_viewsVars => [ListNext]_listVars
  BY DEF ViewsNext, viewsVars
<1> QED
  BY <1>1, <1>2, <1>3, PTL DEF ViewsSpec, NavigationSpec, ListSpec
=============================================================================
