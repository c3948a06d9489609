-------------------------- MODULE FluxBoardProofs --------------------------
(***************************************************************************)
(* Proofs about FluxBoard and FluxSave for every size of their pools: type *)
(* correctness, the ranking, the last administrator, the limits on live    *)
(* work, revisions that advance with every change, the history of closed   *)
(* sprints with what reopening makes of it, the commands that are never    *)
(* refused, and the statements that store a command.                       *)
(***************************************************************************)
EXTENDS FluxSave, SequenceTheorems, FiniteSetTheorems, TLAPS

-----------------------------------------------------------------------------
(* Orders: what removing and inserting does to a ranking *)

\* A ranking of elements of S: a sequence over S without repetition.
Ranking(seq, S) ==
    /\ seq \in Seq(S)
    /\ \A j, k \in 1..Len(seq) : seq[j] = seq[k] => j = k

\* An element of a sequence is found at its index.
LEMMA IndexOfFinds ==
    ASSUME NEW S, NEW seq \in Seq(S), NEW x \in ToSet(seq)
    PROVE  IndexOf(seq, x) \in 1..Len(seq) /\ seq[IndexOf(seq, x)] = x
  BY DEF IndexOf, ToSet

\* Creating an element at the end keeps a ranking.
LEMMA AppendRanks ==
    ASSUME NEW S, NEW seq, Ranking(seq, S), NEW x \in S, x \notin ToSet(seq)
    PROVE  /\ Ranking(Append(seq, x), S)
           /\ ToSet(Append(seq, x)) = ToSet(seq) \cup {x}
  <1>1. seq \in Seq(S) /\ Append(seq, x) \in Seq(S)
    BY DEF Ranking
  <1>2. /\ Len(Append(seq, x)) = Len(seq) + 1
        /\ \A k \in 1..Len(seq) : Append(seq, x)[k] = seq[k]
        /\ Append(seq, x)[Len(seq) + 1] = x
    BY <1>1
  <1>3. DOMAIN seq = 1..Len(seq) /\ Len(seq) \in Nat
    BY <1>1
  <1>4. DOMAIN Append(seq, x) = 1..(Len(seq) + 1)
    BY <1>1, <1>2
  <1>5. ToSet(Append(seq, x)) = ToSet(seq) \cup {x}
    BY <1>2, <1>3, <1>4 DEF ToSet
  <1>6. Ranking(Append(seq, x), S)
    BY <1>1, <1>2, <1>3 DEF Ranking, ToSet
  <1> QED BY <1>5, <1>6

\* A slice inside a sequence.
LEMMA SliceOf ==
    ASSUME NEW S, NEW seq \in Seq(S),
           NEW m \in 1..(Len(seq) + 1), NEW n \in (m - 1)..Len(seq)
    PROVE  /\ SubSeq(seq, m, n) \in Seq(S)
           /\ Len(SubSeq(seq, m, n)) = n - m + 1
           /\ \A j \in 1..(n - m + 1) : SubSeq(seq, m, n)[j] = seq[m + j - 1]
  <1>1. Len(seq) \in Nat /\ m \in Int /\ n \in Int
    OBVIOUS
  <1>2. \A j \in m..n : seq[j] \in S
    BY <1>1
  <1> QED BY <1>1, <1>2, SubSeqProperties

\* Taking one element out keeps a ranking of the others.
LEMMA RemoveAtRanks ==
    ASSUME NEW S, NEW seq, Ranking(seq, S), NEW k \in 1..Len(seq)
    PROVE  /\ Ranking(RemoveAt(seq, k), S)
           /\ Len(RemoveAt(seq, k)) = Len(seq) - 1
           /\ ToSet(RemoveAt(seq, k)) = ToSet(seq) \ {seq[k]}
  <1> DEFINE front == SubSeq(seq, 1, k - 1)
             back == SubSeq(seq, k + 1, Len(seq))
             rest == front \o back
  <1>1. seq \in Seq(S) /\ Len(seq) \in Nat /\ DOMAIN seq = 1..Len(seq)
    BY DEF Ranking
  <1>2. /\ front \in Seq(S) /\ Len(front) = k - 1
        /\ \A j \in 1..(k - 1) : front[j] = seq[j]
    <2>1. /\ 1 \in 1..(Len(seq) + 1) /\ k - 1 \in (1 - 1)..Len(seq)
          /\ (k - 1) - 1 + 1 = k - 1
      BY <1>1
    <2>2. /\ front \in Seq(S) /\ Len(front) = (k - 1) - 1 + 1
          /\ \A j \in 1..((k - 1) - 1 + 1) : front[j] = seq[1 + j - 1]
      BY <1>1, <2>1, SliceOf
    <2> HIDE DEF front
    <2>3. \A j \in 1..(k - 1) : 1 + j - 1 = j
      BY <1>1
    <2> QED BY <2>1, <2>2, <2>3
  <1>3. /\ back \in Seq(S) /\ Len(back) = Len(seq) - k
        /\ \A j \in 1..(Len(seq) - k) : back[j] = seq[j + k]
    <2>1. /\ k + 1 \in 1..(Len(seq) + 1) /\ Len(seq) \in ((k + 1) - 1)..Len(seq)
          /\ Len(seq) - (k + 1) + 1 = Len(seq) - k
      BY <1>1
    <2>2. /\ back \in Seq(S) /\ Len(back) = Len(seq) - (k + 1) + 1
          /\ \A j \in 1..(Len(seq) - (k + 1) + 1) : back[j] = seq[(k + 1) + j - 1]
      BY <1>1, <2>1, SliceOf
    <2> HIDE DEF back
    <2>3. \A j \in 1..(Len(seq) - k) : (k + 1) + j - 1 = j + k
      BY <1>1
    <2> QED BY <2>1, <2>2, <2>3
  <1>4. RemoveAt(seq, k) = rest
    BY DEF RemoveAt
  <1> HIDE DEF rest, front, back
  <1>5. /\ rest \in Seq(S) /\ Len(rest) = Len(seq) - 1
        /\ DOMAIN rest = 1..(Len(seq) - 1)
        /\ \A j \in 1..(Len(seq) - 1) :
             rest[j] = IF j < k THEN seq[j] ELSE seq[j + 1]
    <2>1. /\ rest \in Seq(S) /\ Len(rest) = (k - 1) + (Len(seq) - k)
          /\ \A j \in 1..((k - 1) + (Len(seq) - k)) :
               rest[j] = IF j <= k - 1 THEN front[j] ELSE back[j - (k - 1)]
      <3>1. k - 1 \in Nat /\ Len(seq) - k \in Nat
        BY <1>1
      <3> DEFINE a == k - 1
                 b == Len(seq) - k
      <3>2. /\ front \in Seq(S) /\ back \in Seq(S)
            /\ a \in Nat /\ b \in Nat /\ Len(front) = a /\ Len(back) = b
        BY <1>2, <1>3, <3>1
      <3> HIDE DEF a, b
      <3>3. /\ rest \in Seq(S) /\ Len(rest) = a + b
            /\ \A j \in 1..(a + b) :
                 rest[j] = IF j <= a THEN front[j] ELSE back[j - a]
        <4>1. /\ front \o back \in Seq(S)
              /\ Len(front \o back) = Len(front) + Len(back)
              /\ \A j \in 1..(Len(front) + Len(back)) :
                   (front \o back)[j] =
                     IF j <= Len(front) THEN front[j] ELSE back[j - Len(front)]
          BY <3>2, ConcatProperties
        <4>2. /\ rest \in Seq(S)
              /\ Len(rest) = Len(front) + Len(back)
              /\ \A j \in 1..(Len(front) + Len(back)) :
                   rest[j] =
                     IF j <= Len(front) THEN front[j] ELSE back[j - Len(front)]
          BY <4>1 DEF rest
        <4> QED BY <3>2, <4>2
      <3> QED BY <3>3 DEF a, b
    <2>2. (k - 1) + (Len(seq) - k) = Len(seq) - 1
      BY <1>1
    <2>3. ASSUME NEW j \in 1..(Len(seq) - 1)
          PROVE  rest[j] = IF j < k THEN seq[j] ELSE seq[j + 1]
      <3>1. CASE j < k
        BY <1>1, <1>2, <2>1, <2>2, <3>1, SMTT(30)
      <3>2. CASE ~(j < k)
        <4>1. /\ j - (k - 1) \in 1..(Len(seq) - k) /\ j - (k - 1) + k = j + 1
              /\ ~(j <= k - 1) /\ j \in 1..((k - 1) + (Len(seq) - k))
          BY <1>1, <3>2
        <4>2. rest[j] = back[j - (k - 1)]
          BY <2>1, <4>1
        <4>3. back[j - (k - 1)] = seq[j - (k - 1) + k]
          BY <1>3, <4>1
        <4> QED BY <3>2, <4>1, <4>2, <4>3
      <3> QED BY <3>1, <3>2
    <2> QED BY <2>1, <2>2, <2>3
  <1>6. Ranking(rest, S)
    BY <1>1, <1>5 DEF Ranking
  <1>7. ToSet(rest) = ToSet(seq) \ {seq[k]}
    <2>1. ASSUME NEW j \in 1..Len(seq), j # k
          PROVE  seq[j] \in ToSet(rest)
      <3>1. CASE j < k
        BY <1>1, <1>5, <3>1 DEF ToSet
      <3>2. CASE j > k
        <4>1. j - 1 \in 1..(Len(seq) - 1) /\ rest[j - 1] = seq[j]
          BY <1>1, <1>5, <3>2
        <4> QED BY <1>5, <4>1 DEF ToSet
      <3> QED BY <2>1, <3>1, <3>2
    <2>2. ToSet(rest) \subseteq ToSet(seq) \ {seq[k]}
      BY <1>1, <1>5 DEF ToSet, Ranking
    <2> QED BY <1>1, <2>1, <2>2 DEF ToSet
  <1> QED BY <1>4, <1>5, <1>6, <1>7

\* Putting a new element anywhere keeps a ranking.
LEMMA InsertAtRanks ==
    ASSUME NEW S, NEW seq, Ranking(seq, S), NEW k \in 1..(Len(seq) + 1),
           NEW x \in S, x \notin ToSet(seq)
    PROVE  /\ Ranking(InsertAt(seq, k, x), S)
           /\ ToSet(InsertAt(seq, k, x)) = ToSet(seq) \cup {x}
  <1> DEFINE front == SubSeq(seq, 1, k - 1)
             back == SubSeq(seq, k, Len(seq))
             head == front \o <<x>>
             all == InsertAt(seq, k, x)
  <1>1. seq \in Seq(S) /\ Len(seq) \in Nat /\ DOMAIN seq = 1..Len(seq)
    BY DEF Ranking
  <1>2. /\ front \in Seq(S) /\ Len(front) = k - 1
        /\ \A j \in 1..(k - 1) : front[j] = seq[j]
    <2>1. /\ 1 \in 1..(Len(seq) + 1) /\ k - 1 \in (1 - 1)..Len(seq)
          /\ (k - 1) - 1 + 1 = k - 1
      BY <1>1
    <2>2. /\ front \in Seq(S) /\ Len(front) = (k - 1) - 1 + 1
          /\ \A j \in 1..((k - 1) - 1 + 1) : front[j] = seq[1 + j - 1]
      BY <1>1, <2>1, SliceOf
    <2> HIDE DEF front
    <2>3. \A j \in 1..(k - 1) : 1 + j - 1 = j
      BY <1>1
    <2> QED BY <2>1, <2>2, <2>3
  <1>3. /\ back \in Seq(S) /\ Len(back) = Len(seq) - k + 1
        /\ \A j \in 1..(Len(seq) - k + 1) : back[j] = seq[j + k - 1]
    <2>1. Len(seq) \in (k - 1)..Len(seq)
      BY <1>1
    <2>2. /\ back \in Seq(S) /\ Len(back) = Len(seq) - k + 1
          /\ \A j \in 1..(Len(seq) - k + 1) : back[j] = seq[k + j - 1]
      BY <1>1, <2>1, SliceOf
    <2> HIDE DEF back
    <2>3. \A j \in 1..(Len(seq) - k + 1) : k + j - 1 = j + k - 1
      BY <1>1
    <2> QED BY <2>2, <2>3
  <1> HIDE DEF front, back
  <1>4. /\ head \in Seq(S) /\ Len(head) = k
        /\ \A j \in 1..(k - 1) : head[j] = seq[j]
        /\ head[k] = x
    <2>1. /\ <<x>> \in Seq(S) /\ Len(<<x>>) = 1 /\ <<x>>[1] = x
      OBVIOUS
    <2>2. /\ head \in Seq(S) /\ Len(head) = (k - 1) + 1
          /\ \A j \in 1..((k - 1) + 1) :
               head[j] = IF j <= k - 1 THEN front[j] ELSE <<x>>[j - (k - 1)]
      BY <1>2, <2>1, ConcatProperties
    <2>3. (k - 1) + 1 = k /\ k - (k - 1) = 1 /\ k \in 1..k /\ ~(k <= k - 1)
      OBVIOUS
    <2> HIDE DEF head
    <2> QED BY <1>2, <2>1, <2>2, <2>3
  <1>5. all = head \o back
    BY DEF InsertAt, front, back
  <1> HIDE DEF head, all
  <1>6. /\ all \in Seq(S) /\ Len(all) = Len(seq) + 1
        /\ DOMAIN all = 1..(Len(seq) + 1)
        /\ \A j \in 1..(Len(seq) + 1) :
             all[j] = IF j < k THEN seq[j] ELSE IF j = k THEN x ELSE seq[j - 1]
    <2>1. /\ all \in Seq(S) /\ Len(all) = k + (Len(seq) - k + 1)
          /\ \A j \in 1..(k + (Len(seq) - k + 1)) :
               all[j] = IF j <= k THEN head[j] ELSE back[j - k]
      <3>1. k \in Nat /\ Len(seq) - k + 1 \in Nat
        BY <1>1
      <3> DEFINE b == Len(seq) - k + 1
      <3>2. b \in Nat /\ Len(back) = b
        BY <1>3, <3>1
      <3> HIDE DEF b
      <3>3. /\ head \o back \in Seq(S)
            /\ Len(head \o back) = k + b
            /\ \A j \in 1..(k + b) :
                 (head \o back)[j] = IF j <= k THEN head[j] ELSE back[j - k]
        <4>1. /\ head \in Seq(S) /\ back \in Seq(S)
              /\ k \in Nat /\ b \in Nat /\ Len(head) = k /\ Len(back) = b
          BY <1>3, <1>4, <3>1, <3>2
        <4>2. /\ head \o back \in Seq(S)
              /\ Len(head \o back) = Len(head) + Len(back)
              /\ \A j \in 1..(Len(head) + Len(back)) :
                   (head \o back)[j] =
                      IF j <= Len(head) THEN head[j] ELSE back[j - Len(head)]
          BY ONLY <4>1, ConcatProperties
        <4> QED BY ONLY <4>1, <4>2
      <3> QED BY <1>5, <3>3 DEF b
    <2>2. k + (Len(seq) - k + 1) = Len(seq) + 1
      BY <1>1
    <2>3. ASSUME NEW j \in 1..(Len(seq) + 1)
          PROVE  all[j] = IF j < k THEN seq[j] ELSE IF j = k THEN x ELSE seq[j - 1]
      <3>1. CASE j <= k
        BY <1>1, <1>4, <2>1, <2>2, <3>1
      <3>2. CASE ~(j <= k)
        <4>1. j - k \in 1..(Len(seq) - k + 1) /\ j - k + k - 1 = j - 1
          BY <1>1, <3>2
        <4> QED BY <1>1, <1>3, <2>1, <2>2, <3>2, <4>1
      <3> QED BY <3>1, <3>2
    <2> QED BY <2>1, <2>2, <2>3
  <1>7. Ranking(all, S)
    <2>1. ASSUME NEW i \in 1..Len(all), NEW j \in 1..Len(all), all[i] = all[j]
          PROVE  i = j
      <3>1. \A m \in 1..Len(seq) : seq[m] # x
        BY <1>1 DEF ToSet
      <3>2. \A m \in 1..Len(all) : m < k => m \in 1..Len(seq)
        BY <1>1, <1>6
      <3>3. \A m \in 1..Len(all) : m > k => m - 1 \in 1..Len(seq)
        BY <1>1, <1>6
      <3> QED BY <1>1, <1>6, <2>1, <3>1, <3>2, <3>3 DEF Ranking
    <2> QED BY <1>6, <2>1 DEF Ranking
  <1>8. ToSet(all) = ToSet(seq) \cup {x}
    <2>1. ASSUME NEW j \in 1..Len(seq)
          PROVE  seq[j] \in ToSet(all)
      <3>1. CASE j < k
        BY <1>1, <1>6, <3>1 DEF ToSet
      <3>2. CASE j >= k
        <4>1. j + 1 \in 1..(Len(seq) + 1) /\ all[j + 1] = seq[j]
          BY <1>1, <1>6, <3>2
        <4> QED BY <1>6, <4>1 DEF ToSet
      <3> QED BY <1>1, <3>1, <3>2
    <2>2. x \in ToSet(all)
      BY <1>1, <1>6 DEF ToSet
    <2>3. ToSet(all) \subseteq ToSet(seq) \cup {x}
      BY <1>1, <1>6 DEF ToSet
    <2> QED BY <1>1, <2>1, <2>2, <2>3 DEF ToSet
  <1> QED BY <1>7, <1>8 DEF all

\* Reordering permutes: the same elements, each ranked once.
LEMMA ReorderRanks ==
    ASSUME NEW S, NEW seq, Ranking(seq, S), NEW x, NEW before,
           Anchor(seq, x, before), None \notin S
    PROVE  /\ Ranking(reorder(seq, x, before), S)
           /\ ToSet(reorder(seq, x, before)) = ToSet(seq)
  <1> DEFINE k == IndexOf(seq, x)
             rest == RemoveAt(seq, k)
             at == IF before = None THEN Len(rest) + 1 ELSE IndexOf(rest, before)
  <1>1. seq \in Seq(S) /\ x \in ToSet(seq)
    BY DEF Ranking, Anchor
  <1>2. x \in S
    BY <1>1 DEF ToSet
  <1>3. k \in 1..Len(seq) /\ seq[k] = x
    BY <1>1, IndexOfFinds
  <1>4. Ranking(rest, S) /\ ToSet(rest) = ToSet(seq) \ {x}
    BY <1>3, RemoveAtRanks
  <1>5. rest \in Seq(S) /\ Len(rest) \in Nat
    BY <1>4 DEF Ranking
  <1>6. at \in 1..(Len(rest) + 1)
    <2>1. CASE before = None
      BY <1>5, <2>1
    <2>2. CASE before # None
      <3>1. before \in ToSet(rest)
        BY <1>4, <2>2 DEF Anchor
      <3>2. IndexOf(rest, before) \in 1..Len(rest)
        BY <1>5, <3>1, IndexOfFinds
      <3> QED BY <1>5, <2>2, <3>2
    <2> QED BY <2>1, <2>2
  <1>7. reorder(seq, x, before) = InsertAt(rest, at, x)
    BY DEF reorder
  <1> HIDE DEF at, rest
  <1>8. /\ Ranking(InsertAt(rest, at, x), S)
        /\ ToSet(InsertAt(rest, at, x)) = ToSet(rest) \cup {x}
    BY <1>2, <1>4, <1>6, InsertAtRanks
  <1> QED BY <1>1, <1>4, <1>7, <1>8

\* A ranking is an injective sequence.
LEMMA RankingIsInjective ==
    ASSUME NEW S, NEW seq
    PROVE  Ranking(seq, S) <=> seq \in Seq(S) /\ IsInjective(seq)
  BY DEF Ranking, IsInjective

-----------------------------------------------------------------------------
(* Type correctness.  Deleting a column takes one occurrence out of the      *)
(* order, so the types depend on the order being a ranking.                  *)

Typed == TypeOK /\ OrderIsRanking

USE DEF itemVars, columnVars, sprintVars, catalogVars, columnUnchanged,
        memberUnchanged, sprintUnchanged

LEMMA InitTyped == Init => Typed
  <1> SUFFICES ASSUME Init PROVE Typed
    OBVIOUS
  <1>1. ToSet(items) = {} /\ items \in Seq(Item) /\ IsInjective(items)
    BY DEF Init, ToSet, IsInjective
  <1> QED BY <1>1, BoardAssumption
       DEF Init, BoardAssumption, Typed, TypeOK, OrderIsRanking, Existing, Role

\* An existing item has content, and so it has after a change of one field.
LEMMA ContentOf ==
    ASSUME Typed, NEW i \in Existing
    PROVE  i \in Item /\ item[i] \in ItemContent
  <1>1. i \in Item
    BY DEF Typed, TypeOK, Existing, ToSet
  <1> QED BY <1>1 DEF Typed, TypeOK

LEMMA ContentChanges ==
    ASSUME NEW content \in ItemContent
    PROVE  /\ content.sprints \subseteq Sprint /\ content.labels \subseteq Label
           /\ \A c \in Column : [content EXCEPT !.column = c] \in ItemContent
           /\ \A ss \in SUBSET Sprint :
                [content EXCEPT !.sprints = ss] \in ItemContent
           /\ \A ls \in SUBSET Label :
                [content EXCEPT !.labels = ls] \in ItemContent
  BY DEF ItemContent

\* Content replaced on some existing rows leaves a content function.
LEMMA RewrittenRows ==
    ASSUME NEW g \in [Item -> ItemContent \cup {None}], NEW rows \in SUBSET Item,
           \A i \in rows : g[i] # None,
           NEW f, f = [i \in Item |-> f[i]],
           \A i \in rows : f[i] \in ItemContent,
           \A i \in Item \ rows : f[i] = g[i]
    PROVE  /\ f \in [Item -> ItemContent \cup {None}]
           /\ \A i \in Item : f[i] # None <=> g[i] # None
  <1>1. None \notin ItemContent
    BY BoardAssumption DEF BoardAssumption
  <1>2. \A i \in Item : f[i] \in ItemContent \cup {None}
    OBVIOUS
  <1> QED BY <1>1, <1>2

\* Item commands keep the types and the ranking.
LEMMA ItemCommandTyped == ASSUME Typed, ItemCommand PROVE Typed'
  <1> USE BoardAssumption
  <1>1. Ranking(items, Item) /\ Ranking(columns, Column)
    BY RankingIsInjective DEF Typed, TypeOK, OrderIsRanking
  <1>2. None \notin Item /\ None \notin ItemContent
    BY DEF BoardAssumption
  <1>3. ASSUME NEW i \in Item, NEW content \in ItemContent, ItemCreate(i, content)
        PROVE  Typed'
    <2>1. Ranking(items', Item) /\ ToSet(items') = ToSet(items) \cup {i}
      BY <1>1, <1>3, AppendRanks DEF ItemCreate, Existing
    <2>2. items' \in Seq(Item) /\ IsInjective(items')
      BY <2>1, RankingIsInjective
    <2>3. content.labels \subseteq Label
      BY DEF ItemContent
    <2> QED BY <1>2, <1>3, <2>1, <2>2, <2>3
         DEF ItemCreate, Typed, TypeOK, OrderIsRanking, Existing
  <1>4. ASSUME NEW i \in Item, NEW content \in ItemContent, ItemUpdate(i, content)
        PROVE  Typed'
    <2>1. content.labels \subseteq Label
      BY DEF ItemContent
    <2> QED BY <1>2, <1>4, <2>1
         DEF ItemUpdate, Typed, TypeOK, OrderIsRanking, Existing, Active
  <1>5. ASSUME NEW i \in Item, ItemArchive(i)
        PROVE  Typed'
    <2>1. [item[i] EXCEPT !.sprints = {}] \in ItemContent
      BY <1>5, ContentOf, ContentChanges DEF ItemArchive
    <2> QED BY <1>2, <1>5, <2>1
         DEF ItemArchive, Unplanned, Typed, TypeOK, OrderIsRanking, Existing
  <1>6. ASSUME NEW i \in Item, NEW ids \in (SUBSET Sprint) \cup {None},
               ItemRestore(i, ids)
        PROVE  Typed'
    <2>1. ids # None => [item[i] EXCEPT !.sprints = ids] \in ItemContent
      BY <1>6, ContentOf, ContentChanges DEF ItemRestore
    <2> QED BY <1>2, <1>6, <2>1
         DEF ItemRestore, Typed, TypeOK, OrderIsRanking, Existing
  <1>7. ASSUME NEW i \in Item, NEW before, ItemRank(i, before)
        PROVE  Typed'
    <2>1. Ranking(items', Item) /\ ToSet(items') = ToSet(items)
      BY <1>1, <1>2, <1>7, ReorderRanks DEF ItemRank
    <2>2. items' \in Seq(Item) /\ IsInjective(items')
      BY <2>1, RankingIsInjective
    <2> QED BY <1>7, <2>1, <2>2
         DEF ItemRank, Typed, TypeOK, OrderIsRanking, Existing
  <1>8. ASSUME NEW i \in Item, NEW before, NEW c \in Column, ItemMove(i, c, before)
        PROVE  Typed'
    <2>1. Ranking(items', Item) /\ ToSet(items') = ToSet(items)
      BY <1>1, <1>2, <1>8, ReorderRanks DEF ItemMove
    <2>2. items' \in Seq(Item) /\ IsInjective(items')
      BY <2>1, RankingIsInjective
    <2>3. [item[i] EXCEPT !.column = c] \in ItemContent
      BY <1>8, ContentOf, ContentChanges DEF ItemMove, Active
    <2>4. item' = [item EXCEPT ![i] = [item[i] EXCEPT !.column = c]]
      BY <1>8 DEF ItemMove, Typed, TypeOK
    <2>5. i \in Existing
      BY <1>8 DEF ItemMove, Active
    <2>6. /\ item' \in [Item -> ItemContent \cup {None}]
          /\ \A j \in Item : item'[j] # None <=> j \in ToSet(items')
      BY <1>2, <2>1, <2>3, <2>4, <2>5 DEF Typed, TypeOK, Existing
    <2> QED BY <1>8, <2>1, <2>2, <2>6
         DEF ItemMove, Typed, TypeOK, OrderIsRanking, Existing
  <1>9. \A i \in Item : OnBoard(i) \subseteq ItemContent
    <2>1. ToSet(columns) \subseteq Column /\ Existing \subseteq Item
      BY DEF Typed, TypeOK, ToSet, Existing
    <2>2. projects \subseteq Project
      BY DEF Typed, TypeOK
    <2> QED BY ONLY <2>1, <2>2 DEF OnBoard, ItemContent
  <1> QED BY <1>3, <1>4, <1>5, <1>6, <1>7, <1>8, <1>9 DEF ItemCommand

\* Column commands keep the types and the ranking.
LEMMA ColumnCommandTyped == ASSUME Typed, ColumnCommand PROVE Typed'
  <1>1. Ranking(items, Item) /\ Ranking(columns, Column)
    BY RankingIsInjective DEF Typed, TypeOK, OrderIsRanking
  <1>2. None \notin Column /\ None \notin ColumnRecord /\ None \notin ItemContent
    BY BoardAssumption DEF BoardAssumption
  <1>3. ASSUME NEW c \in Column, NEW record \in ColumnRecord, ColumnCreate(c, record)
        PROVE  Typed'
    <2>1. Ranking(columns', Column) /\ ToSet(columns') = ToSet(columns) \cup {c}
      BY <1>1, <1>3, AppendRanks DEF ColumnCreate
    <2>2. columns' \in Seq(Column) /\ IsInjective(columns')
      BY <2>1, RankingIsInjective
    <2> QED BY <1>2, <1>3, <2>1, <2>2
         DEF ColumnCreate, Typed, TypeOK, OrderIsRanking, Existing
  <1>4. ASSUME NEW c \in Column, NEW record \in ColumnRecord, ColumnSave(c, record)
        PROVE  Typed'
    BY <1>2, <1>4 DEF ColumnSave, Typed, TypeOK, OrderIsRanking, Existing
  <1>5. ASSUME NEW c \in Column, NEW d \in Column, ColumnDelete(c, d)
        PROVE  Typed'
    <2> DEFINE moved == {i \in Existing : item[i].column = c}
    <2>1. columns \in Seq(Column) /\ c \in ToSet(columns)
      BY <1>1, <1>5 DEF ColumnDelete, Ranking
    <2>2. /\ Ranking(columns', Column)
          /\ ToSet(columns') = ToSet(columns) \ {c}
      BY <1>1, <1>5, <2>1, IndexOfFinds, RemoveAtRanks DEF ColumnDelete
    <2>3. columns' \in Seq(Column) /\ IsInjective(columns')
      BY <2>2, RankingIsInjective
    <2>4. \A i \in moved : [item[i] EXCEPT !.column = d] \in ItemContent
      BY <1>5, ContentOf, ContentChanges
    <2>5. moved \in SUBSET Existing /\ moved \subseteq Item
      BY ContentOf
    <2>6. /\ item' = [i \in Item |-> item'[i]]
          /\ \A i \in moved : item'[i] = [item[i] EXCEPT !.column = d]
          /\ \A i \in Item \ moved : item'[i] = item[i]
      BY <1>5, <2>5 DEF ColumnDelete
    <2>7. bumped' = moved
      BY <1>5 DEF ColumnDelete
    <2> HIDE DEF moved
    <2>8. /\ item' \in [Item -> ItemContent \cup {None}]
          /\ \A i \in Item : item'[i] # None <=> i \in Existing
      <3>1. \A i \in moved : item'[i] \in ItemContent
        BY <2>4, <2>6
      <3>2. /\ item \in [Item -> ItemContent \cup {None}]
            /\ \A i \in moved : item[i] # None
        BY <2>5 DEF Typed, TypeOK
      <3>3. /\ item' \in [Item -> ItemContent \cup {None}]
            /\ \A i \in Item : item'[i] # None <=> item[i] # None
        BY <2>5, <2>6, <3>1, <3>2, RewrittenRows
      <3> QED BY <3>3 DEF Typed, TypeOK
    <2> QED BY <1>2, <1>5, <2>2, <2>3, <2>5, <2>7, <2>8
         DEF ColumnDelete, Typed, TypeOK, OrderIsRanking, Existing
  <1>6. ASSUME NEW c \in Column, NEW before, ColumnRank(c, before)
        PROVE  Typed'
    <2>1. Ranking(columns', Column) /\ ToSet(columns') = ToSet(columns)
      BY <1>1, <1>2, <1>6, ReorderRanks DEF ColumnRank
    <2>2. columns' \in Seq(Column) /\ IsInjective(columns')
      BY <2>1, RankingIsInjective
    <2> QED BY <1>6, <2>1, <2>2
         DEF ColumnRank, Typed, TypeOK, OrderIsRanking, Existing
  <1> QED BY <1>3, <1>4, <1>5, <1>6 DEF ColumnCommand

\* Catalog commands keep the types.
LEMMA CatalogCommandTyped == ASSUME Typed, CatalogCommand PROVE Typed'
  <1>1. ASSUME NEW p \in Project, ProjectCreate(p) \/ ProjectSave(p)
        PROVE  Typed'
    BY <1>1 DEF ProjectCreate, ProjectSave, Typed, TypeOK, OrderIsRanking, Existing
  <1>2. ASSUME NEW l \in Label, LabelCreate(l)
        PROVE  Typed'
    BY <1>2 DEF LabelCreate, Typed, TypeOK, OrderIsRanking, Existing
  <1>3. ASSUME NEW l \in Label, NEW new \in SUBSET Label, relabel(l, new),
               labels' \subseteq Label
        PROVE  Typed'
    <2>1. None \notin ItemContent
      BY BoardAssumption DEF BoardAssumption
    <2>2. \A i \in Carriers(l) :
            [item[i] EXCEPT !.labels = (@ \ {l}) \cup new] \in ItemContent
      BY ContentOf, ContentChanges DEF Carriers
    <2>3. Carriers(l) \subseteq Existing /\ Carriers(l) \subseteq Item
      BY ContentOf DEF Carriers
    <2>4. /\ item' = [i \in Item |-> item'[i]]
          /\ \A i \in Carriers(l) :
               item'[i] = [item[i] EXCEPT !.labels = (@ \ {l}) \cup new]
          /\ \A i \in Item \ Carriers(l) : item'[i] = item[i]
      BY <1>3, <2>3 DEF relabel, Relabelled
    <2>5. /\ item' \in [Item -> ItemContent \cup {None}]
          /\ \A i \in Item : item'[i] # None <=> i \in Existing
      <3>1. \A i \in Carriers(l) : item'[i] \in ItemContent
        BY <2>2, <2>4
      <3>2. /\ item \in [Item -> ItemContent \cup {None}]
            /\ \A i \in Carriers(l) : item[i] # None
        BY <2>3 DEF Typed, TypeOK
      <3>3. /\ item' \in [Item -> ItemContent \cup {None}]
            /\ \A i \in Item : item'[i] # None <=> item[i] # None
        BY <2>3, <2>4, <3>1, <3>2, RewrittenRows
      <3> QED BY <3>3 DEF Typed, TypeOK
    <2> QED BY <1>3, <2>3, <2>5
         DEF relabel, Typed, TypeOK, OrderIsRanking, Existing
  <1>4. ASSUME NEW l \in Label, NEW name \in Label, LabelSave(l, name)
        PROVE  Typed'
    <2>1. relabel(l, {name}) /\ labels' \subseteq Label
      BY <1>4 DEF LabelSave, Typed, TypeOK
    <2> QED BY <1>3, <2>1
  <1>5. ASSUME NEW l \in Label, LabelDelete(l)
        PROVE  Typed'
    <2>1. relabel(l, {}) /\ labels' \subseteq Label
      BY <1>5 DEF LabelDelete, Typed, TypeOK
    <2> QED BY <1>3, <2>1
  <1> QED BY <1>1, <1>2, <1>4, <1>5 DEF CatalogCommand

\* Member commands keep the types.
LEMMA MemberCommandTyped == ASSUME Typed, MemberCommand PROVE Typed'
  <1>1. UNCHANGED <<items, item, archived, columns, column, projects, labels,
                    sprint, closedScope, closure>> /\ bumped' = {}
    BY DEF MemberCommand, MemberName, MemberDelete, MemberAdd, MemberSave
  <1>2. members' \in [Subject -> Role \cup {None}]
    BY DEF MemberCommand, MemberName, MemberDelete, MemberAdd, MemberSave,
           Typed, TypeOK
  <1> QED BY <1>1, <1>2 DEF Typed, TypeOK, OrderIsRanking, Existing

\* Sprint commands keep the types.
LEMMA SprintCommandTyped == ASSUME Typed, SprintCommand PROVE Typed'
  <1> USE DEF SprintState
  <1>1. None \notin ItemContent
    BY BoardAssumption DEF BoardAssumption
  <1>2. ASSUME NEW s \in Sprint,
               SprintCreate(s) \/ SprintSave(s) \/ SprintStart(s) \/ SprintArchive(s)
        PROVE  Typed'
    BY <1>2 DEF SprintCreate, SprintSave, SprintStart, SprintArchive,
                Typed, TypeOK, OrderIsRanking, Existing
  <1>3. ASSUME NEW s \in Sprint, SprintReopen(s)
        PROVE  Typed'
    <2>1. Returning(s) \subseteq Existing /\ Returning(s) \subseteq Item
      BY DEF Returning, Scope, Active
    <2>2. \A i \in Returning(s) :
            [item[i] EXCEPT !.sprints = @ \cup {s}] \in ItemContent
      BY <2>1, ContentOf, ContentChanges
    <2>3. /\ item' = [i \in Item |-> item'[i]]
          /\ \A i \in Returning(s) : item'[i] = [item[i] EXCEPT !.sprints = @ \cup {s}]
          /\ \A i \in Item \ Returning(s) : item'[i] = item[i]
      BY <1>3, <2>1 DEF SprintReopen
    <2>4. /\ item' \in [Item -> ItemContent \cup {None}]
          /\ \A i \in Item : item'[i] # None <=> i \in Existing
      <3>1. \A i \in Returning(s) : item'[i] \in ItemContent
        BY <2>2, <2>3
      <3>2. /\ item \in [Item -> ItemContent \cup {None}]
            /\ \A i \in Returning(s) : item[i] # None
        BY <2>1 DEF Typed, TypeOK
      <3>3. /\ item' \in [Item -> ItemContent \cup {None}]
            /\ \A i \in Item : item'[i] # None <=> item[i] # None
        BY <2>1, <2>3, <3>1, <3>2, RewrittenRows
      <3> QED BY <3>3 DEF Typed, TypeOK
    <2> QED BY <1>3, <2>1, <2>4
         DEF SprintReopen, Typed, TypeOK, OrderIsRanking, Existing
  <1>4. ASSUME NEW s \in Sprint, NEW d \in Sprint \cup {None}, SprintClose(s, d)
        PROVE  Typed'
    <2> DEFINE new(i) == (item[i].sprints \ {s}) \cup
                           (IF i \in Carried(s, d) THEN {d} ELSE {})
    <2>1. Members(s) \subseteq Existing /\ Members(s) \subseteq Item
      BY ContentOf DEF Members
    <2>2. \A i \in Members(s) : new(i) \subseteq Sprint
      BY <2>1, ContentOf, ContentChanges DEF Carried
    <2>3. \A i \in Members(s) : [item[i] EXCEPT !.sprints = new(i)] \in ItemContent
      BY <2>1, <2>2, ContentOf, ContentChanges
    <2>4. /\ item' = [i \in Item |-> item'[i]]
          /\ \A i \in Members(s) : item'[i] = [item[i] EXCEPT !.sprints = new(i)]
          /\ \A i \in Item \ Members(s) : item'[i] = item[i]
      BY <1>4, <2>1 DEF SprintClose, Released
    <2> HIDE DEF new
    <2>5. /\ item' \in [Item -> ItemContent \cup {None}]
          /\ \A i \in Item : item'[i] # None <=> i \in Existing
      <3>1. \A i \in Members(s) : item'[i] \in ItemContent
        BY <2>3, <2>4
      <3>2. /\ item \in [Item -> ItemContent \cup {None}]
            /\ \A i \in Members(s) : item[i] # None
        BY <2>1 DEF Typed, TypeOK
      <3>3. /\ item' \in [Item -> ItemContent \cup {None}]
            /\ \A i \in Item : item'[i] # None <=> item[i] # None
        BY <2>1, <2>4, <3>1, <3>2, RewrittenRows
      <3> QED BY <3>3 DEF Typed, TypeOK
    <2>6. SprintClosureFor(s, d, closedScope', item') \in Closure
      BY DEF SprintClosureFor, Closure
    <2>7. closure' \in [Sprint -> Closure \cup {None}]
      BY <1>4, <2>6 DEF SprintClose, Typed, TypeOK
    <2>8. closedScope' \subseteq Sprint \X Item
      BY <1>4, <2>1 DEF SprintClose, PreservedScope, Typed, TypeOK
    <2> QED BY <1>4, <2>1, <2>5, <2>7, <2>8
         DEF SprintClose, Typed, TypeOK, OrderIsRanking, Existing
  <1> QED BY <1>2, <1>3, <1>4 DEF SprintCommand

\* Every stored row has its type and every order is a ranking, whatever the
\* sizes of the pools.
THEOREM TypeCorrect == Spec => [](TypeOK /\ OrderIsRanking)
  <1>1. Init => Typed
    BY InitTyped
  <1>2. Typed /\ [Next]_vars => Typed'
    <2> SUFFICES ASSUME Typed, [Next]_vars PROVE Typed'
      OBVIOUS
    <2>1. CASE UNCHANGED vars
      BY <2>1 DEF vars, Typed, TypeOK, OrderIsRanking, Existing
    <2> QED BY <2>1, ItemCommandTyped, ColumnCommandTyped, CatalogCommandTyped,
               MemberCommandTyped, SprintCommandTyped DEF Next
  <1>3. Typed => TypeOK /\ OrderIsRanking
    BY DEF Typed
  <1> QED BY <1>1, <1>2, <1>3, PTL DEF Spec
-----------------------------------------------------------------------------
(* The last administrator *)

\* Taking one person out of several administrators leaves one.
LEMMA AnotherAdministrator ==
    ASSUME NEW S, IsFiniteSet(S), Cardinality(S) > 1, NEW u
    PROVE  S \ {u} # {}
  <1> SUFFICES ASSUME S \subseteq {u} PROVE FALSE
    OBVIOUS
  <1>1. IsFiniteSet({u}) /\ Cardinality({u}) = 1
    BY FS_Singleton
  <1>2. Cardinality(S) \in Nat /\ Cardinality(S) <= Cardinality({u})
    BY <1>1, FS_Subset, FS_CardinalityType
  <1> QED BY <1>1, <1>2

\* The workspace always has an administrator, however many people there are.
THEOREM AlwaysAnAdministrator == Spec => []AdminRemains
  <1>1. Init => AdminRemains
    BY BoardAssumption DEF Init, BoardAssumption, AdminRemains, Admins
  <1>2. Typed /\ AdminRemains /\ [Next]_vars => AdminRemains'
    <2> SUFFICES ASSUME Typed, AdminRemains, [Next]_vars PROVE AdminRemains'
      OBVIOUS
    <2>1. CASE UNCHANGED members
      BY <2>1 DEF AdminRemains, Admins
    <2>2. CASE MemberCommand
      <3>1. ASSUME NEW u \in Subject, keepOneAdministrator(u),
                   \A v \in Subject \ {u} : members'[v] = members[v]
            PROVE  AdminRemains'
        <4>1. IsFiniteSet(Admins)
          BY BoardAssumption, FS_Subset DEF BoardAssumption, Admins
        <4>2. Admins \ {u} # {}
          BY <4>1, <3>1, AnotherAdministrator
               DEF keepOneAdministrator, AdminRemains, Admins
        <4> QED BY <3>1, <4>2 DEF AdminRemains, Admins
      <3>2. ASSUME NEW actor \in Subject, NEW u \in Subject,
                   MemberDelete(actor, u)
            PROVE  AdminRemains'
        BY <3>1, <3>2 DEF MemberDelete, Typed, TypeOK
      <3>3. ASSUME NEW actor \in Subject, NEW u \in Subject, NEW role \in Role,
                   MemberSave(actor, u, role)
            PROVE  AdminRemains'
        <4>1. CASE role # "admin"
          BY <3>1, <3>3, <4>1 DEF MemberSave, Typed, TypeOK
        <4>2. CASE role = "admin"
          BY <3>3, <4>2 DEF MemberSave, Typed, TypeOK, AdminRemains, Admins
        <4> QED BY <4>1, <4>2
      <3>4. ASSUME NEW actor \in Subject, NEW u \in Subject, NEW role \in Role,
                   MemberAdd(actor, u, role)
            PROVE  AdminRemains'
        <4>1. \A v \in Admins : members'[v] = "admin"
          BY <3>4, BoardAssumption
             DEF MemberAdd, Typed, TypeOK, Admins, BoardAssumption, Role
        <4> QED BY <4>1 DEF AdminRemains, Admins
      <3>5. ASSUME NEW actor \in Subject, NEW u \in Subject, MemberName(actor, u)
            PROVE  AdminRemains'
        BY <3>5 DEF MemberName, AdminRemains, Admins
      <3> QED BY <2>2, <3>2, <3>3, <3>4, <3>5 DEF MemberCommand
    <2>3. CASE Next /\ ~MemberCommand
      <3>1. UNCHANGED members
        BY <2>3 DEF Next, ItemCommand, ColumnCommand, CatalogCommand,
             SprintCommand, ItemCreate, ItemUpdate, ItemArchive, ItemRestore,
             ItemRank, ItemMove, ColumnCreate, ColumnSave, ColumnDelete,
             ColumnRank, ProjectCreate, ProjectSave, LabelCreate, LabelSave,
             LabelDelete, relabel, SprintCreate, SprintSave, SprintStart,
             SprintReopen, SprintClose, SprintArchive
      <3> QED BY <2>1, <3>1
    <2> QED BY <2>1, <2>2, <2>3 DEF vars
  <1>3. Spec => []Typed
    BY TypeCorrect, PTL DEF Typed
  <1> QED BY <1>1, <1>2, <1>3, PTL DEF Spec

-----------------------------------------------------------------------------
(* Sprint history *)

\* Scope rows speak of stored items; with the agreement of the summaries this
\* is preserved by every step.
HistoryInv ==
    /\ ClosureMatchesScope
    /\ \A s \in Sprint : Scope(s) \subseteq Existing

\* Outside the sprint commands the history does not change, and no item is lost.
LEMMA OtherCommandsKeepHistory ==
    ASSUME Typed, Next, ~SprintCommand
    PROVE  UNCHANGED sprintVars /\ Existing \subseteq Existing'
  <1>1. Ranking(items, Item) /\ None \notin Item
    BY BoardAssumption, RankingIsInjective
       DEF Typed, TypeOK, OrderIsRanking, BoardAssumption
  <1>2. CASE ItemCommand
    <2>1. ASSUME NEW i \in Item, NEW content, ItemCreate(i, content)
          PROVE  Existing \subseteq Existing'
      BY <1>1, <2>1, AppendRanks DEF ItemCreate, Existing
    <2>2. ASSUME NEW i \in Item, NEW before, Anchor(items, i, before),
                 items' = reorder(items, i, before)
          PROVE  Existing \subseteq Existing'
      BY <1>1, <2>2, ReorderRanks DEF Existing
    <2> QED BY <1>2, <2>1, <2>2 DEF ItemCommand, ItemCreate, ItemUpdate,
         ItemArchive, ItemRestore, ItemRank, ItemMove, Existing
  <1>3. CASE ColumnCommand
    BY <1>3 DEF ColumnCommand, ColumnCreate, ColumnSave, ColumnDelete,
                ColumnRank, Existing
  <1>4. CASE CatalogCommand
    BY <1>4 DEF CatalogCommand, ProjectCreate, ProjectSave, LabelCreate,
                LabelSave, LabelDelete, relabel, Existing
  <1>5. CASE MemberCommand
    BY <1>5 DEF MemberCommand, MemberName, MemberAdd, MemberSave, MemberDelete,
                Existing
  <1> QED BY <1>2, <1>3, <1>4, <1>5 DEF Next

\* What closing a sprint leaves in the two tables.
LEMMA CloseWritesHistory ==
    ASSUME Typed, NEW s \in Sprint, NEW d, SprintClose(s, d)
    PROVE  /\ Scope(s)' = Members(s)
           /\ \A t \in Sprint \ {s} : Scope(t)' = Scope(t)
           /\ closure'[s] \in Closure /\ closure'[s].scope = Scope(s)'
           /\ \A t \in Sprint \ {s} : closure'[t] = closure[t]
  <1>1. Members(s) \subseteq Item
    BY ContentOf DEF Members
  <1>2. closedScope' = {p \in closedScope : p[1] # s} \cup ({s} \X Members(s))
    BY DEF SprintClose, PreservedScope
  <1>3. closedScope \subseteq Sprint \X Item
    BY DEF Typed, TypeOK
  <1>4. Scope(s)' = Members(s)
    BY <1>1, <1>2 DEF Scope
  <1>5. \A t \in Sprint \ {s} : Scope(t)' = Scope(t)
    BY <1>1, <1>2, <1>3 DEF Scope
  <1>6. closure' = [closure EXCEPT ![s] =
                      SprintClosureFor(s, d, closedScope', item')]
    BY DEF SprintClose
  <1>7. /\ SprintClosureFor(s, d, closedScope', item') \in Closure
        /\ SprintClosureFor(s, d, closedScope', item').scope = Scope(s)'
    BY DEF SprintClosureFor, Closure, Scope
  <1> QED BY <1>4, <1>5, <1>6, <1>7 DEF Typed, TypeOK

\* One step keeps the agreement.
LEMMA HistoryStep ==
    ASSUME Typed, Typed', HistoryInv, [Next]_vars
    PROVE  HistoryInv'
  <1> USE DEF Closure
  <1>1. None \notin Closure
    BY BoardAssumption DEF BoardAssumption
  <1>2. CASE UNCHANGED vars
    BY <1>2 DEF vars, HistoryInv, ClosureMatchesScope, Scope, Existing
  <1>3. CASE Next /\ ~SprintCommand
    BY <1>3, OtherCommandsKeepHistory DEF HistoryInv, ClosureMatchesScope, Scope
  <1>4. ASSUME NEW s \in Sprint,
               \/ SprintCreate(s) \/ SprintSave(s) \/ SprintStart(s)
               \/ SprintReopen(s) \/ SprintArchive(s)
        PROVE  HistoryInv'
    <2>1. UNCHANGED <<items, closedScope, closure>>
      BY <1>4 DEF SprintCreate, SprintSave, SprintStart, SprintReopen, SprintArchive
    <2>2. \A t \in Sprint : Scope(t)' = Scope(t) /\ Scope(t) \subseteq Existing'
      BY <2>1 DEF HistoryInv, Scope, Existing
    <2>3. \A t \in Sprint \ {s} : sprint'[t] = sprint[t]
      BY <1>4 DEF SprintCreate, SprintSave, SprintStart, SprintReopen,
                  SprintArchive, Typed, TypeOK
    <2>4. /\ closure[s] = None => sprint'[s] \in {None, "planned", "active"}
          /\ closure[s] # None => sprint'[s] \in {"active", "closed", "archived"}
      BY <1>4, BoardAssumption
         DEF SprintCreate, SprintSave, SprintStart, SprintReopen, SprintArchive,
             Typed, TypeOK, HistoryInv, ClosureMatchesScope, Open,
             BoardAssumption, SprintState
    <2> QED BY <2>1, <2>2, <2>3, <2>4 DEF HistoryInv, ClosureMatchesScope
  <1>5. ASSUME NEW s \in Sprint, NEW d, SprintClose(s, d)
        PROVE  HistoryInv'
    <2>1. /\ Existing' = Existing
          /\ sprint' = [sprint EXCEPT ![s] = "closed"]
      BY <1>5 DEF SprintClose, Existing
    <2>2. Members(s) \subseteq Existing
      BY DEF Members
    <2>3. \A t \in Sprint : Scope(t)' \subseteq Existing'
      BY <1>5, <2>1, <2>2, CloseWritesHistory DEF HistoryInv
    <2>4. ClosureMatchesScope'
      BY <1>1, <1>5, <2>1, CloseWritesHistory
         DEF HistoryInv, ClosureMatchesScope, Typed, TypeOK
    <2> QED BY <2>3, <2>4 DEF HistoryInv
  <1> QED BY <1>2, <1>3, <1>4, <1>5 DEF SprintCommand

\* The summaries and the preserved scopes agree in every reachable state.
THEOREM ClosuresAgree == Spec => []ClosureMatchesScope
  <1>1. Init => HistoryInv
    BY DEF Init, HistoryInv, ClosureMatchesScope, Scope
  <1>2. Spec => []Typed
    BY TypeCorrect, PTL DEF Typed
  <1>3. HistoryInv => ClosureMatchesScope
    BY DEF HistoryInv
  <1> QED BY <1>1, <1>2, <1>3, HistoryStep, PTL DEF Spec

\* No step rewrites the history of a closed sprint.
THEOREM HistoryIsReadOnly == Spec => ClosedHistoryFrozen
  <1> DEFINE Frozen(s) ==
        sprint[s] \in {"closed", "archived"} /\ sprint'[s] # "active" =>
            /\ Scope(s)' = Scope(s)
            /\ closure'[s] = closure[s]
            /\ sprint'[s] \in {sprint[s], "archived"}
  <1>1. ASSUME Typed, [Next]_vars, NEW s \in Sprint
        PROVE  Frozen(s)
    <2>1. CASE UNCHANGED sprintVars
      BY <2>1 DEF Scope
    <2>2. ASSUME NEW t \in Sprint,
                 \/ SprintCreate(t) \/ SprintSave(t) \/ SprintStart(t)
                 \/ SprintReopen(t) \/ SprintArchive(t)
          PROVE  Frozen(s)
      <3>1. UNCHANGED <<closedScope, closure>>
        BY <2>2 DEF SprintCreate, SprintSave, SprintStart, SprintReopen, SprintArchive
      <3>2. Scope(s)' = Scope(s)
        BY <3>1 DEF Scope
      <3>3. sprint[s] \in {"closed", "archived"} /\ sprint'[s] # "active" =>
              sprint'[s] \in {sprint[s], "archived"}
        BY <1>1, <2>2, BoardAssumption
           DEF SprintCreate, SprintSave, SprintStart, SprintReopen,
               SprintArchive, Typed, TypeOK, BoardAssumption, SprintState
      <3> QED BY <3>1, <3>2, <3>3
    <2>3. ASSUME NEW t \in Sprint, NEW d, SprintClose(t, d)
          PROVE  Frozen(s)
      <3>1. CASE s = t
        BY <2>3, <3>1 DEF SprintClose, CanClose
      <3>2. CASE s # t
        BY <1>1, <2>3, <3>2, CloseWritesHistory, ZenonT(40) DEF SprintClose, Typed, TypeOK
      <3> QED BY <3>1, <3>2
    <2>4. CASE Next /\ ~SprintCommand
      BY <1>1, <2>1, <2>4, OtherCommandsKeepHistory
    <2>5. CASE UNCHANGED vars
      BY <2>1, <2>5 DEF vars
    <2> QED BY <1>1, <2>2, <2>3, <2>4, <2>5 DEF SprintCommand
  <1>2. Typed /\ [Next]_vars => [\A s \in Sprint : Frozen(s)]_vars
    BY <1>1
  <1>3. Spec => []Typed
    BY TypeCorrect, PTL DEF Typed
  <1> QED BY <1>2, <1>3, PTL DEF Spec, ClosedHistoryFrozen

-----------------------------------------------------------------------------
(* The limits on live work *)

LiveSprints == {s \in Sprint : sprint[s] \notin {None, "archived"}}

\* What the limits need: the live sets are finite, which for pools of any size
\* follows from one command adding at most one element.
LimitInv ==
    /\ IsFiniteSet(Active) /\ IsFiniteSet(LiveSprints)
    /\ LiveWorkWithinLimits

\* A set that grows by one element, and only below its limit, stays within it.
LEMMA OneMoreFits ==
    ASSUME NEW S, IsFiniteSet(S), NEW limit \in Nat, Cardinality(S) <= limit,
           NEW T, NEW x,
           T \subseteq S \/ (Cardinality(S) < limit /\ T \subseteq S \cup {x})
    PROVE  IsFiniteSet(T) /\ Cardinality(T) <= limit
  <1>1. Cardinality(S) \in Nat
    BY FS_CardinalityType
  <1>2. CASE T \subseteq S
    BY <1>1, <1>2, FS_Subset, FS_CardinalityType
  <1>3. CASE Cardinality(S) < limit /\ T \subseteq S \cup {x}
    <2>1. /\ IsFiniteSet(S \cup {x})
          /\ Cardinality(S \cup {x}) \in {Cardinality(S), Cardinality(S) + 1}
      BY FS_AddElement
    <2>2. IsFiniteSet(T) /\ Cardinality(T) <= Cardinality(S \cup {x})
      BY <1>3, <2>1, FS_Subset
    <2>3. Cardinality(T) \in Nat
      BY <2>2, FS_CardinalityType
    <2> QED BY <1>1, <1>3, <2>1, <2>2, <2>3
  <1> QED BY <1>2, <1>3

\* An item comes to life only in item.create and item.restore, one at a time
\* and only while there is room.
LEMMA LiveItemsGrowByOne ==
    ASSUME Typed, Next
    PROVE  \/ Active' \subseteq Active
           \/ roomForItem /\ \E i \in Item : Active' \subseteq Active \cup {i}
  <1>1. Ranking(items, Item) /\ None \notin Item
    BY BoardAssumption, RankingIsInjective
       DEF Typed, TypeOK, OrderIsRanking, BoardAssumption
  <1>2. CASE ItemCommand
    <2>1. ASSUME NEW i \in Item, NEW content, ItemCreate(i, content)
          PROVE  roomForItem /\ Active' \subseteq Active \cup {i}
      BY <1>1, <2>1, AppendRanks DEF ItemCreate, Existing, Active
    <2>2. ASSUME NEW i \in Item, NEW content, ItemUpdate(i, content)
          PROVE  Active' \subseteq Active
      BY <2>2 DEF ItemUpdate, Existing, Active
    <2>3. ASSUME NEW i \in Item, ItemArchive(i)
          PROVE  Active' \subseteq Active
      BY <2>3 DEF ItemArchive, Existing, Active
    <2>4. ASSUME NEW i \in Item, NEW ids, ItemRestore(i, ids)
          PROVE  \/ Active' \subseteq Active
                 \/ roomForItem /\ Active' \subseteq Active \cup {i}
      <3>1. Existing' = Existing /\ archived' = archived \ {i}
        BY <2>4 DEF ItemRestore, Existing
      <3>2. i \in archived => roomForItem
        BY <2>4 DEF ItemRestore
      <3> QED BY <3>1, <3>2 DEF Active
    <2>5. ASSUME NEW i \in Item, NEW before,
                 ItemRank(i, before) \/ \E c \in Column : ItemMove(i, c, before)
          PROVE  Active' \subseteq Active
      BY <1>1, <2>5, ReorderRanks DEF ItemRank, ItemMove, Existing, Active
    <2> QED BY <1>2, <2>1, <2>2, <2>3, <2>4, <2>5 DEF ItemCommand
  <1>3. CASE ~ItemCommand
    <2>1. UNCHANGED <<items, archived>>
      BY <1>3 DEF Next, ColumnCommand, CatalogCommand, MemberCommand,
           SprintCommand, ColumnCreate, ColumnSave, ColumnDelete, ColumnRank,
           ProjectCreate, ProjectSave, LabelCreate, LabelSave, LabelDelete,
           relabel, MemberName, MemberAdd, MemberSave, MemberDelete,
           SprintCreate, SprintSave, SprintStart, SprintReopen, SprintClose,
           SprintArchive
    <2> QED BY <2>1 DEF Active, Existing
  <1> QED BY <1>2, <1>3

\* A sprint starts to count only when it is created: starting, closing and
\* reopening move it among states that count already.
LEMMA LiveSprintsGrowByOne ==
    ASSUME Typed, Next
    PROVE  \/ LiveSprints' \subseteq LiveSprints
           \/ roomForSprint
              /\ \E s \in Sprint : LiveSprints' \subseteq LiveSprints \cup {s}
  <1>1. CASE ~SprintCommand
    BY <1>1, OtherCommandsKeepHistory DEF LiveSprints
  <1>2. ASSUME NEW s \in Sprint, SprintCreate(s)
        PROVE  roomForSprint /\ LiveSprints' \subseteq LiveSprints \cup {s}
    BY <1>2 DEF SprintCreate, LiveSprints, Typed, TypeOK
  <1>3. ASSUME NEW s \in Sprint, sprint[s] \in {"planned", "active", "closed"},
               \A t \in Sprint \ {s} : sprint'[t] = sprint[t]
        PROVE  LiveSprints' \subseteq LiveSprints
    BY <1>3, BoardAssumption DEF LiveSprints, BoardAssumption, SprintState
  <1>4. ASSUME NEW s \in Sprint,
               \/ SprintSave(s) \/ SprintStart(s) \/ SprintReopen(s)
               \/ SprintArchive(s) \/ \E d : SprintClose(s, d)
        PROVE  LiveSprints' \subseteq LiveSprints
    <2>1. sprint[s] \in {"planned", "active", "closed"}
      BY <1>4 DEF SprintSave, SprintStart, SprintReopen, SprintArchive,
                  SprintClose, CanClose, Open
    <2>2. \A t \in Sprint \ {s} : sprint'[t] = sprint[t]
      BY <1>4 DEF SprintSave, SprintStart, SprintReopen, SprintArchive,
                  SprintClose, Typed, TypeOK
    <2> QED BY <1>3, <2>1, <2>2
  <1> QED BY <1>1, <1>2, <1>4 DEF SprintCommand

\* The limits on live work hold however large the pools are and in whatever
\* order work is archived, restored, closed and reopened.
THEOREM LimitsHold == Spec => []LiveWorkWithinLimits
  <1>1. Init => LimitInv
    <2> SUFFICES ASSUME Init PROVE LimitInv
      OBVIOUS
    <2>1. Active = {} /\ LiveSprints = {}
      BY DEF Init, Active, Existing, ToSet, LiveSprints
    <2>2. IsFiniteSet({}) /\ Cardinality({}) = 0
      BY FS_EmptySet
    <2>3. activeItemCount = 0 /\ activeSprintCount = 0
      BY <2>1, <2>2 DEF activeItemCount, activeSprintCount, LiveSprints
    <2>4. MaxItems \in Nat /\ MaxSprints \in Nat
      BY BoardAssumption DEF BoardAssumption
    <2> QED BY <2>1, <2>2, <2>3, <2>4 DEF LimitInv, LiveWorkWithinLimits
  <1>2. Typed /\ LimitInv /\ [Next]_vars => LimitInv'
    <2> SUFFICES ASSUME Typed, LimitInv, [Next]_vars PROVE LimitInv'
      OBVIOUS
    <2>1. CASE UNCHANGED vars
      BY <2>1 DEF vars, LimitInv, LiveWorkWithinLimits, activeItemCount,
                  activeSprintCount, Active, Existing, LiveSprints
    <2>2. CASE Next
      <3>1. MaxItems \in Nat /\ MaxSprints \in Nat
        BY BoardAssumption DEF BoardAssumption
      <3>2. /\ IsFiniteSet(Active) /\ Cardinality(Active) <= MaxItems
            /\ IsFiniteSet(LiveSprints) /\ Cardinality(LiveSprints) <= MaxSprints
        BY DEF LimitInv, LiveWorkWithinLimits, activeItemCount,
               activeSprintCount, LiveSprints
      <3>3. IsFiniteSet(Active') /\ Cardinality(Active') <= MaxItems
        BY <2>2, <3>1, <3>2, LiveItemsGrowByOne, OneMoreFits
           DEF roomForItem, activeItemCount
      <3>4. IsFiniteSet(LiveSprints') /\ Cardinality(LiveSprints') <= MaxSprints
        <4>1. roomForSprint => Cardinality(LiveSprints) < MaxSprints
          BY DEF roomForSprint, activeSprintCount, LiveSprints
        <4> QED BY <2>2, <3>1, <3>2, <4>1, LiveSprintsGrowByOne, OneMoreFits
      <3> QED BY <3>3, <3>4 DEF LimitInv, LiveWorkWithinLimits,
               activeItemCount, activeSprintCount, LiveSprints
    <2> QED BY <2>1, <2>2
  <1>3. LimitInv => LiveWorkWithinLimits
    BY DEF LimitInv
  <1>4. Spec => []Typed
    BY TypeCorrect, PTL DEF Typed
  <1> QED BY <1>1, <1>2, <1>3, <1>4, PTL DEF Spec

-----------------------------------------------------------------------------
(* Revisions *)

\* What one command may leave unbumped: nothing it changed.
RowsAdvance ==
    /\ \A i \in Item :
         item'[i] # item[i] \/ (i \in archived) # (i \in archived') => i \in bumped'
    /\ \A s \in Sprint : sprint'[s] # sprint[s] => s \in bumped'

\* Item commands change the item they name.
LEMMA ItemCommandAdvances == ASSUME Typed, ItemCommand PROVE RowsAdvance
  <1>1. ASSUME NEW i \in Item, NEW content,
               ItemCreate(i, content) \/ ItemUpdate(i, content)
        PROVE  RowsAdvance
    BY <1>1 DEF ItemCreate, ItemUpdate, Typed, TypeOK, RowsAdvance
  <1>2. ASSUME NEW i \in Item, NEW ids, ItemArchive(i) \/ ItemRestore(i, ids)
        PROVE  RowsAdvance
    BY <1>2 DEF ItemArchive, Unplanned, ItemRestore, Typed, TypeOK, RowsAdvance
  <1>3. ASSUME NEW i \in Item, NEW before, NEW c,
               ItemRank(i, before) \/ ItemMove(i, c, before)
        PROVE  RowsAdvance
    BY <1>3 DEF ItemRank, ItemMove, Typed, TypeOK, RowsAdvance
  <1> QED BY <1>1, <1>2, <1>3 DEF ItemCommand

\* Column, catalog and member commands bump every item they rewrite.
LEMMA BoardCommandAdvances ==
    ASSUME Typed, ColumnCommand \/ CatalogCommand \/ MemberCommand
    PROVE  RowsAdvance
  <1>1. UNCHANGED <<archived, sprint>>
    BY DEF ColumnCommand, CatalogCommand, MemberCommand, ColumnCreate,
           ColumnSave, ColumnDelete, ColumnRank, ProjectCreate, ProjectSave,
           LabelCreate, LabelSave, LabelDelete, relabel, MemberName, MemberAdd,
           MemberSave, MemberDelete
  <1>2. CASE UNCHANGED item
    BY <1>1, <1>2 DEF RowsAdvance
  <1>3. ASSUME NEW c \in Column, NEW d \in Column, ColumnDelete(c, d)
        PROVE  RowsAdvance
    BY <1>1, <1>3 DEF ColumnDelete, RowsAdvance
  <1>4. ASSUME NEW l, NEW new, relabel(l, new)
        PROVE  RowsAdvance
    BY <1>1, <1>4 DEF relabel, Relabelled, RowsAdvance
  <1> QED BY <1>2, <1>3, <1>4
       DEF ColumnCommand, CatalogCommand, MemberCommand, ColumnCreate,
           ColumnSave, ColumnRank, ProjectCreate, ProjectSave, LabelCreate,
           LabelSave, LabelDelete, MemberName, MemberAdd, MemberSave, MemberDelete

\* Sprint commands bump the sprint and the items that join or leave it.
LEMMA SprintCommandAdvances == ASSUME Typed, SprintCommand PROVE RowsAdvance
  <1>1. UNCHANGED archived
    BY DEF SprintCommand, SprintCreate, SprintSave, SprintStart, SprintReopen,
           SprintClose, SprintArchive
  <1>2. ASSUME NEW s \in Sprint,
               SprintCreate(s) \/ SprintSave(s) \/ SprintStart(s) \/ SprintArchive(s)
        PROVE  RowsAdvance
    BY <1>1, <1>2 DEF SprintCreate, SprintSave, SprintStart, SprintArchive,
                      Typed, TypeOK, RowsAdvance
  <1>3. ASSUME NEW s \in Sprint, SprintReopen(s)
        PROVE  RowsAdvance
    BY <1>1, <1>3 DEF SprintReopen, Typed, TypeOK, RowsAdvance
  <1>4. ASSUME NEW s \in Sprint, NEW d, SprintClose(s, d)
        PROVE  RowsAdvance
    BY <1>1, <1>4 DEF SprintClose, Released, Typed, TypeOK, RowsAdvance
  <1> QED BY <1>2, <1>3, <1>4 DEF SprintCommand

\* No command changes a stored row behind its revision, cascades included:
\* an editor that compares revisions is told of every change.
THEOREM RowsNeverChangeSilently == Spec => RevisionsAdvance
  <1>1. Typed /\ [Next]_vars => [RowsAdvance]_vars
    BY ItemCommandAdvances, BoardCommandAdvances, SprintCommandAdvances DEF Next
  <1>2. Spec => []Typed
    BY TypeCorrect, PTL DEF Typed
  <1> QED BY <1>1, <1>2, PTL DEF Spec, RevisionsAdvance, RowsAdvance

-----------------------------------------------------------------------------
(* Reopening *)

\* Validate keeps items out of sprints that are not open.
MembershipIsOpen == \A i \in Existing : \A s \in item[i].sprints : Open(s)

\* Every command ends with Validate.
LEMMA CommandsValidate == ASSUME Next PROVE Validate'
  BY DEF Next, ItemCommand, ColumnCommand, CatalogCommand, MemberCommand,
       SprintCommand, ItemCreate, ItemUpdate, ItemArchive, ItemRestore,
       ItemRank, ItemMove, ColumnCreate, ColumnSave, ColumnDelete, ColumnRank,
       ProjectCreate, ProjectSave, LabelCreate, LabelSave, LabelDelete,
       MemberName, MemberAdd, MemberSave, MemberDelete, SprintCreate,
       SprintSave, SprintStart, SprintReopen, SprintClose, SprintArchive

\* Only sprint.reopen takes a sprint out of the closed state into the active one.
LEMMA OnlyReopenReactivates ==
    ASSUME Typed, [Next]_vars, NEW s \in Sprint,
           sprint[s] = "closed", sprint'[s] = "active"
    PROVE  SprintReopen(s)
  <1>1. ~UNCHANGED sprint
    OBVIOUS
  <1>2. SprintCommand
    BY <1>1, OtherCommandsKeepHistory DEF vars
  <1>3. ASSUME NEW t \in Sprint,
               \/ SprintCreate(t) \/ SprintSave(t) \/ SprintStart(t)
               \/ SprintArchive(t) \/ \E d : SprintClose(t, d)
        PROVE  FALSE
    BY <1>3, BoardAssumption, ZenonT(40)
       DEF SprintCreate, SprintSave, SprintStart, SprintArchive, SprintClose,
           Typed, TypeOK, BoardAssumption, SprintState
  <1>4. ASSUME NEW t \in Sprint, SprintReopen(t)
        PROVE  t = s
    BY <1>4 DEF SprintReopen, Typed, TypeOK
  <1> QED BY <1>2, <1>3, <1>4 DEF SprintCommand

\* Reopening gives a sprint exactly the live items of the scope its summary
\* recorded, and touches the membership of no other sprint.
THEOREM ReopeningRestores == Spec => ReopenRestoresScope
  <1> DEFINE Restores(s) ==
        sprint[s] = "closed" /\ sprint'[s] = "active" =>
            /\ Members(s)' = closure[s].scope \ archived
            /\ \A t \in Sprint \ {s} : Members(t)' = Members(t)
  <1>1. Init => MembershipIsOpen /\ HistoryInv
    BY DEF Init, MembershipIsOpen, Existing, ToSet, HistoryInv,
           ClosureMatchesScope, Scope
  <1>2. MembershipIsOpen /\ [Next]_vars => MembershipIsOpen'
    <2>1. UNCHANGED vars /\ MembershipIsOpen => MembershipIsOpen'
      BY DEF vars, MembershipIsOpen, Existing, Open
    <2>2. Validate' => MembershipIsOpen'
      BY DEF Validate, Accepted, ValidItem, Open, MembershipIsOpen
    <2> QED BY <2>1, <2>2, CommandsValidate
  <1>3. ASSUME Typed, HistoryInv, MembershipIsOpen, [Next]_vars, NEW s \in Sprint,
               sprint[s] = "closed", sprint'[s] = "active"
        PROVE  /\ Members(s)' = closure[s].scope \ archived
               /\ \A t \in Sprint \ {s} : Members(t)' = Members(t)
    <2>1. SprintReopen(s)
      BY <1>3, OnlyReopenReactivates
    <2>2. Members(s) = {}
      BY <1>3 DEF Members, MembershipIsOpen, Open
    <2>3. Returning(s) = closure[s].scope \ archived
      <3>1. closure[s].scope = Scope(s) /\ Scope(s) \subseteq Existing
        BY <1>3, BoardAssumption
           DEF HistoryInv, ClosureMatchesScope, BoardAssumption, SprintState
      <3> QED BY <2>2, <3>1 DEF Returning, Active
    <2>4. /\ Existing' = Existing
          /\ item' = [i \in Item |-> IF i \in Returning(s)
                                     THEN [item[i] EXCEPT !.sprints = @ \cup {s}]
                                     ELSE item[i]]
      BY <2>1 DEF SprintReopen, Existing
    <2>5. ASSUME NEW i \in Existing
          PROVE  item'[i].sprints = IF i \in Returning(s)
                                    THEN item[i].sprints \cup {s}
                                    ELSE item[i].sprints
      <3>1. i \in Item /\ item[i] \in ItemContent
        BY <1>3, ContentOf
      <3> QED BY <2>4, <3>1 DEF ItemContent
    <2>6. Members(s)' = Returning(s)
      <3>1. Members(s)' = {i \in Existing : s \in item'[i].sprints}
        BY <2>4 DEF Members
      <3>2. \A i \in Existing : s \in item'[i].sprints <=> i \in Returning(s)
        BY <2>2, <2>5 DEF Members
      <3>3. Returning(s) \subseteq Existing
        BY DEF Returning, Active
      <3> QED BY <3>1, <3>2, <3>3
    <2>7. ASSUME NEW t \in Sprint \ {s}
          PROVE  Members(t)' = Members(t)
      <3>1. Members(t)' = {i \in Existing : t \in item'[i].sprints}
        BY <2>4 DEF Members
      <3>2. \A i \in Existing : t \in item'[i].sprints <=> t \in item[i].sprints
        BY <2>5
      <3> QED BY <3>1, <3>2 DEF Members
    <2> QED BY <2>3, <2>6, <2>7
  <1>4. Typed /\ HistoryInv /\ MembershipIsOpen /\ [Next]_vars
          => [\A s \in Sprint : Restores(s)]_vars
    BY <1>3
  <1>5. Spec => []Typed
    BY TypeCorrect, PTL DEF Typed
  <1> QED BY <1>1, <1>2, <1>4, <1>5, HistoryStep, PTL DEF Spec, ReopenRestoresScope

-----------------------------------------------------------------------------
(* Nothing gets stuck.  Validate is part of the inductive invariant: the    *)
(* commands that take work away only make a valid board emptier.            *)

\* The columns, people, projects and dependencies of the items are the same,
\* fewer items are live, and each keeps only labels and sprints that stay.
Emptier(content, gone, catalog, state) ==
    /\ archived \subseteq gone
    /\ \A i \in Existing :
         /\ content[i].column = item[i].column
         /\ content[i].assignee = item[i].assignee
         /\ content[i].projects = item[i].projects
         /\ content[i].deps = item[i].deps
         /\ content[i].labels \subseteq catalog
         /\ \A s \in content[i].sprints :
              s \in item[i].sprints /\ state[s] = sprint[s] /\ i \notin gone

LEMMA LimitsAreNumbers ==
    ASSUME Typed, NEW c \in ToSet(columns)
    PROVE  column[c].wip \in Nat
  <1>1. c \in Column
    BY DEF Typed, TypeOK, ToSet
  <1>2. column[c] \in ColumnRecord
    BY <1>1 DEF Typed, TypeOK
  <1> QED BY <1>2, BoardAssumption DEF ColumnRecord, BoardAssumption

LEMMA EmptierIsAccepted ==
    ASSUME Typed, Validate, NEW content, NEW gone, NEW catalog, NEW state,
           Emptier(content, gone, catalog, state)
    PROVE  Accepted(content, gone, catalog, state)
  <1> USE DEF Validate, Accepted, Emptier
  <1>1. ASSUME NEW i \in Existing
        PROVE  ValidItem(i, content[i], gone, catalog, state)
    <2>1. ValidItem(i, item[i], archived, labels, sprint)
      OBVIOUS
    <2> QED BY <2>1 DEF ValidItem
  <1>2. WipRespected(content, gone)
    <2> SUFFICES ASSUME NEW c \in ToSet(columns), column[c].wip > 0
                 PROVE  Cardinality({i \in Existing \ gone : content[i].column = c})
                          <= column[c].wip
      BY DEF WipRespected
    <2> DEFINE now == {i \in Existing \ archived : item[i].column = c}
               then == {i \in Existing \ gone : content[i].column = c}
    <2>1. Cardinality(now) <= column[c].wip
      BY DEF WipRespected
    <2>2. then \subseteq now
      OBVIOUS
    <2>3. IsFiniteSet(now)
      <3>1. IsFiniteSet(Existing)
        <4>1. items \in Seq(Item)
          BY DEF Typed, TypeOK
        <4>2. DOMAIN items = 1..Len(items) /\ Len(items) \in Nat
          BY <4>1
        <4>3. IsFiniteSet(1..Len(items))
          BY <4>2, FS_Interval
        <4>4. items \in Surjection(1..Len(items), Existing)
          BY <4>1, <4>2 DEF Surjection, Existing, ToSet
        <4> QED BY <4>3, <4>4, FS_Surjection
      <3> QED BY <3>1, FS_Subset
    <2>4. Cardinality(then) <= Cardinality(now) /\ Cardinality(then) \in Nat
          /\ Cardinality(now) \in Nat
      BY <2>2, <2>3, FS_Subset, FS_CardinalityType
    <2>5. column[c].wip \in Nat
      BY LimitsAreNumbers
    <2> HIDE DEF now, then
    <2>6. Cardinality(then) <= column[c].wip
      BY <2>1, <2>4, <2>5
    <2> QED BY <2>6 DEF then
  <1>3. Acyclic(content)
    BY DEF Acyclic
  <1> QED BY <1>1, <1>2, <1>3

\* A valid board accepts each of the commands that take work away.
LEMMA CleanupAccepted ==
    ASSUME Typed, Validate
    PROVE  NeverWedged
  <1>1. ASSUME NEW i \in Existing
        PROVE  /\ i \in Item
               /\ item[i] \in ItemContent
               /\ item[i].labels \subseteq labels
               /\ \A s \in item[i].sprints : i \notin archived
    BY ContentOf DEF Validate, Accepted, ValidItem
  <1>2. ASSUME NEW s \in Sprint, sprint[s] = "active"
        PROVE  Accepted(Released(s, None), archived, labels, [sprint EXCEPT ![s] = "closed"])
    <2>1. ASSUME NEW i \in Existing
          PROVE  Released(s, None)[i] = IF s \in item[i].sprints
                                        THEN [item[i] EXCEPT !.sprints = @ \ {s}]
                                        ELSE item[i]
      BY <1>1 DEF Released, Carried, Members
    <2>2. sprint \in [Sprint -> SprintState \cup {None}]
      BY DEF Typed, TypeOK
    <2>3. Emptier(Released(s, None), archived, labels, [sprint EXCEPT ![s] = "closed"])
      <3>1. ASSUME NEW i \in Existing, NEW t \in Released(s, None)[i].sprints
            PROVE  /\ t \in item[i].sprints /\ i \notin archived
                   /\ [sprint EXCEPT ![s] = "closed"][t] = sprint[t]
        <4>1. Released(s, None)[i].sprints = item[i].sprints \ {s}
          BY <1>1, <2>1 DEF ItemContent
        <4>2. t \in item[i].sprints /\ t # s /\ t \in Sprint
          BY <1>1, <3>1, <4>1 DEF ItemContent
        <4> QED BY <1>1, <2>2, <4>2
      <3>2. ASSUME NEW i \in Existing
            PROVE  /\ Released(s, None)[i].column = item[i].column
                   /\ Released(s, None)[i].assignee = item[i].assignee
                   /\ Released(s, None)[i].projects = item[i].projects
                   /\ Released(s, None)[i].deps = item[i].deps
                   /\ Released(s, None)[i].labels \subseteq labels
        BY <1>1, <2>1 DEF ItemContent
      <3> QED BY <3>1, <3>2 DEF Emptier
    <2> QED BY <2>3, EmptierIsAccepted
  <1>3. ASSUME NEW i \in Existing
        PROVE  Accepted(Unplanned(i), archived \cup {i}, labels, sprint)
    <2>1. ASSUME NEW j \in Existing
          PROVE  Unplanned(i)[j] = IF j = i THEN [item[i] EXCEPT !.sprints = {}] ELSE item[j]
      BY <1>1 DEF Unplanned, Typed, TypeOK
    <2>2. \A j \in Existing : \A s \in Unplanned(i)[j].sprints :
            s \in item[j].sprints /\ j \notin archived \cup {i}
      BY <1>1, <2>1 DEF ItemContent
    <2>3. Emptier(Unplanned(i), archived \cup {i}, labels, sprint)
      <3>1. \A j \in Existing :
              /\ Unplanned(i)[j].column = item[j].column
              /\ Unplanned(i)[j].assignee = item[j].assignee
              /\ Unplanned(i)[j].projects = item[j].projects
              /\ Unplanned(i)[j].deps = item[j].deps
              /\ Unplanned(i)[j].labels \subseteq labels
        BY <1>1, <2>1 DEF ItemContent
      <3> QED BY <2>2, <3>1 DEF Emptier
    <2> QED BY <2>3, EmptierIsAccepted
  <1>4. ASSUME NEW l \in labels
        PROVE  Accepted(Relabelled(l, {}), archived, labels \ {l}, sprint)
    <2>1. ASSUME NEW i \in Existing
          PROVE  Relabelled(l, {})[i] = IF l \in item[i].labels
                                        THEN [item[i] EXCEPT !.labels = (@ \ {l}) \cup {}]
                                        ELSE item[i]
      BY <1>1 DEF Relabelled, Carriers
    <2>2. ASSUME NEW i \in Existing
          PROVE  /\ Relabelled(l, {})[i].labels = item[i].labels \ {l}
                 /\ Relabelled(l, {})[i].column = item[i].column
                 /\ Relabelled(l, {})[i].assignee = item[i].assignee
                 /\ Relabelled(l, {})[i].projects = item[i].projects
                 /\ Relabelled(l, {})[i].deps = item[i].deps
                 /\ Relabelled(l, {})[i].sprints = item[i].sprints
      <3>1. CASE l \in item[i].labels
        <4>1. Relabelled(l, {})[i] = [item[i] EXCEPT !.labels = @ \ {l}]
          BY <2>1, <3>1
        <4> QED BY <1>1, <4>1 DEF ItemContent
      <3>2. CASE l \notin item[i].labels
        BY <2>1, <3>2
      <3> QED BY <3>1, <3>2
    <2>3. Emptier(Relabelled(l, {}), archived, labels \ {l}, sprint)
      BY <1>1, <2>2 DEF Emptier
    <2> QED BY <2>3, EmptierIsAccepted
  <1> QED BY <1>2, <1>3, <1>4 DEF NeverWedged, CanClose

\* Validate holds of a new workspace, and after every command.
LEMMA InitValidates == ASSUME Init PROVE Validate
  <1>1. Existing = {} /\ archived = {}
    BY DEF Init, Existing, ToSet
  <1>2. WipRespected(item, archived)
    <2> SUFFICES ASSUME NEW c \in ToSet(columns), column[c].wip > 0
                 PROVE  Cardinality({i \in Existing \ archived : item[i].column = c})
                          <= column[c].wip
      BY DEF WipRespected
    <2>1. Cardinality({i \in Existing \ archived : item[i].column = c}) = 0
      BY <1>1, FS_EmptySet
    <2>2. column[c].wip \in Nat
      BY InitTyped, LimitsAreNumbers
    <2> QED BY <2>1, <2>2
  <1> QED BY <1>1, <1>2 DEF Validate, Accepted, Acyclic

LEMMA StepValidates == ASSUME Validate, [Next]_vars PROVE Validate'
  <1>1. CASE UNCHANGED vars
    BY <1>1 DEF vars, Validate, Accepted, ValidItem, WipRespected, Acyclic, Existing
  <1> QED BY <1>1, CommandsValidate

\* Whatever commands were accepted before, every active sprint can be closed,
\* every item archived and every label deleted.
THEOREM CleanupNeverRefused == Spec => []NeverWedged
  <1>1. Spec => []Typed
    BY TypeCorrect, PTL DEF Typed
  <1> QED BY <1>1, InitValidates, StepValidates, CleanupAccepted, PTL DEF Spec

-----------------------------------------------------------------------------
(* The statements of a command.  Which statement waits for which is all     *)
(* that counts of their order: any order that respects it keeps the foreign *)
(* keys between two boards that satisfy them.                               *)

\* Rows are written after the rows they refer to, and dropped after the rows
\* that refer to them.
Ordered(done) ==
    /\ "items" \in done => {"members", "projects", "columns"} \subseteq done
    /\ "dropLabels" \in done => "withdraw" \in done
    /\ "associate" \in done => {"projects", "sprints", "items", "labels"} \subseteq done
    /\ "dropColumns" \in done => "items" \in done
    /\ "scope" \in done => {"sprints", "items"} \subseteq done
    /\ "closures" \in done => "sprints" \in done

\* What no command takes away: projects, sprints, items, summaries, and the
\* people to whom items are assigned.
Grows(old, new) ==
    /\ old.projects \subseteq new.projects
    /\ DOMAIN old.sprints \subseteq DOMAIN new.sprints
    /\ DOMAIN old.work_items \subseteq DOMAIN new.work_items
    /\ DOMAIN old.closures \subseteq DOMAIN new.closures
    /\ \A i \in DOMAIN old.work_items :
         old.work_items[i].assignee \in DOMAIN new.memberships \cup {None}

\* The phases of Order that were sent after n of them.
LEMMA OrderIsOrdered ==
    ASSUME NEW n \in 0..Len(Order)
    PROVE  Ordered(Done(n))
  <1>1. Len(Order) = 13 /\ n \in 0..13
    BY DEF Order
  <1>2. Done(n) = {Order[k] : k \in 1..n} /\ 1..n \subseteq 1..13
    BY <1>1 DEF Done
  <1>3. /\ Order[1] = "members"
        /\ Order[2] = "projects"
        /\ Order[3] = "columns"
        /\ Order[4] = "sprints"
        /\ Order[5] = "items"
        /\ Order[6] = "withdraw"
        /\ Order[7] = "dropLabels"
        /\ Order[8] = "labels"
        /\ Order[9] = "associate"
        /\ Order[10] = "dropColumns"
        /\ Order[11] = "withdrawScope"
        /\ Order[12] = "scope"
        /\ Order[13] = "closures"
    BY DEF Order
  <1>4. ASSUME NEW k \in 1..13
        PROVE  /\ Order[k] = "items" => k = 5
               /\ Order[k] = "dropLabels" => k = 7
               /\ Order[k] = "associate" => k = 9
               /\ Order[k] = "dropColumns" => k = 10
               /\ Order[k] = "scope" => k = 12
               /\ Order[k] = "closures" => k = 13
    <2>1. \/ k = 1 \/ k = 2 \/ k = 3 \/ k = 4 \/ k = 5 \/ k = 6 \/ k = 7
          \/ k = 8 \/ k = 9 \/ k = 10 \/ k = 11 \/ k = 12 \/ k = 13
      OBVIOUS
    <2> QED BY <1>3, <2>1
  <1>5. ASSUME NEW phase \in Done(n)
        PROVE  \E k \in 1..13 : k <= n /\ Order[k] = phase
    BY <1>1, <1>2
  <1>6. ASSUME NEW k \in 1..13, k <= n
        PROVE  Order[k] \in Done(n)
    BY <1>1, <1>2, <1>6
  <1>7. 5 <= n => /\ "members" \in Done(n) /\ "projects" \in Done(n)
                  /\ "columns" \in Done(n) /\ "sprints" \in Done(n)
                  /\ "items" \in Done(n)
    BY <1>1, <1>3, <1>6
  <1>8. /\ 7 <= n => "withdraw" \in Done(n)
        /\ 9 <= n => "labels" \in Done(n)
    BY <1>1, <1>3, <1>6
  <1>9. "items" \in Done(n) => 5 <= n
    BY <1>4, <1>5
  <1>10. "dropLabels" \in Done(n) => 7 <= n
    BY <1>4, <1>5
  <1>11. "associate" \in Done(n) => 9 <= n
    BY <1>4, <1>5
  <1>12. "dropColumns" \in Done(n) => 10 <= n
    BY <1>4, <1>5
  <1>13. "scope" \in Done(n) => 12 <= n
    BY <1>4, <1>5
  <1>14. "closures" \in Done(n) => 13 <= n
    BY <1>4, <1>5
  <1>15. n \in Nat
    BY <1>1
  <1> QED BY <1>7, <1>8, <1>9, <1>10, <1>11, <1>12, <1>13, <1>14, <1>15 DEF Ordered

\* A statement sent between two boards that satisfy the keys leaves a database
\* that satisfies them.
LEMMA StatementsKeepReferences ==
    ASSUME NEW old, NEW new, NEW done,
           References(old), References(new), Grows(old, new), Ordered(done)
    PROVE  References(Database(old, new, done))
  <1> DEFINE db == Database(old, new, done)
             stored == DOMAIN db.work_items
             sprintRows == DOMAIN db.sprints
  <1>1. /\ stored = {i \in DOMAIN old.work_items : TRUE}
                      \cup {i \in DOMAIN new.work_items : "items" \in done}
        /\ sprintRows = {s \in DOMAIN old.sprints : TRUE}
                      \cup {s \in DOMAIN new.sprints : "sprints" \in done}
        /\ DOMAIN old.work_items \subseteq stored
        /\ DOMAIN old.sprints \subseteq sprintRows
        /\ "items" \in done => stored = DOMAIN new.work_items
        /\ "sprints" \in done => sprintRows = DOMAIN new.sprints
    BY DEF Database, Rows, Keys, Grows
  <1>2. ASSUME NEW i \in stored
        PROVE  /\ db.work_items[i].column \in DOMAIN db.board_columns
               /\ db.work_items[i].assignee \in DOMAIN db.memberships \cup {None}
               /\ db.work_items[i].mirrors \subseteq db.projects
    <2>1. CASE "items" \in done
      <3>1. db.work_items[i] = new.work_items[i] /\ i \in DOMAIN new.work_items
        BY <1>1, <1>2, <2>1 DEF Database, Rows, Keys
      <3>2. /\ DOMAIN new.board_columns \subseteq DOMAIN db.board_columns
            /\ DOMAIN new.memberships \subseteq DOMAIN db.memberships
            /\ new.projects \subseteq db.projects
        BY <2>1 DEF Database, Rows, Keys, Ordered
      <3> QED BY <3>1, <3>2 DEF References
    <2>2. CASE "items" \notin done
      <3>1. db.work_items[i] = old.work_items[i] /\ i \in DOMAIN old.work_items
        BY <1>1, <1>2, <2>2 DEF Database, Rows, Keys
      <3>2. /\ DOMAIN old.board_columns \subseteq DOMAIN db.board_columns
            /\ old.projects \subseteq db.projects
        BY <2>2 DEF Database, Rows, Keys, Ordered
      <3>3. DOMAIN db.memberships \in {DOMAIN old.memberships, DOMAIN new.memberships}
        BY DEF Database, Rows, Keys
      <3>4. /\ old.work_items[i].assignee \in DOMAIN old.memberships \cup {None}
            /\ old.work_items[i].assignee \in DOMAIN new.memberships \cup {None}
        BY <3>1 DEF References, Grows
      <3> QED BY <3>1, <3>2, <3>3, <3>4 DEF References
    <2> QED BY <2>1, <2>2
  <1>3. db.item_labels \subseteq stored \X db.labels
    <2>1. ASSUME NEW p \in db.item_labels, p \notin new.item_labels
          PROVE  p \in old.item_labels /\ "withdraw" \notin done
      BY <2>1 DEF Database, Keys
    <2>2. "withdraw" \notin done => old.labels \subseteq db.labels
      BY DEF Database, Keys, Ordered
    <2>3. ASSUME NEW p \in db.item_labels, p \in new.item_labels
          PROVE  p \in old.item_labels \/ "associate" \in done
      BY <2>3 DEF Database, Keys
    <2>4. "associate" \in done => new.labels \subseteq db.labels
      BY DEF Database, Keys, Ordered
    <2>5. old.labels \cap new.labels \subseteq db.labels
      BY DEF Database, Keys
    <2> HIDE DEF db, stored
    <2>6. ASSUME NEW p \in old.item_labels, "withdraw" \notin done
          PROVE  p \in stored \X db.labels
      BY <1>1, <2>2, <2>6 DEF References
    <2>7. ASSUME NEW p \in new.item_labels, "associate" \in done
          PROVE  p \in stored \X db.labels
      BY <1>1, <2>4, <2>7 DEF References, Ordered
    <2>8. ASSUME NEW p \in old.item_labels \cap new.item_labels
          PROVE  p \in stored \X db.labels
      BY <1>1, <2>5, <2>8 DEF References
    <2> QED BY <2>1, <2>3, <2>6, <2>7, <2>8
  <1>4. /\ db.item_projects \subseteq stored \X db.projects
        /\ db.item_sprints \subseteq stored \X sprintRows
        /\ db.dependencies \subseteq {p \in stored \X stored : p[1] # p[2]}
    <2>1. /\ old.projects \subseteq db.projects
          /\ "projects" \in done => new.projects \subseteq db.projects
          /\ "associate" \in done => {"projects", "sprints", "items"} \subseteq done
      BY DEF Database, Keys, Ordered
    <2>2. /\ db.item_projects \subseteq
               old.item_projects \cup {p \in new.item_projects : "associate" \in done}
          /\ db.item_sprints \subseteq
               old.item_sprints \cup {p \in new.item_sprints : "associate" \in done}
          /\ db.dependencies \subseteq
               old.dependencies \cup {p \in new.dependencies : "associate" \in done}
      BY DEF Database, Keys
    <2> HIDE DEF db, stored, sprintRows
    <2> QED BY <1>1, <2>1, <2>2 DEF References
  <1>5. /\ db.closed_scope \subseteq sprintRows \X stored
        /\ DOMAIN db.closures \subseteq sprintRows
    <2>1. /\ db.closed_scope \subseteq
               old.closed_scope \cup {p \in new.closed_scope : "scope" \in done}
          /\ DOMAIN db.closures \subseteq
               DOMAIN old.closures \cup {s \in DOMAIN new.closures : "closures" \in done}
          /\ "scope" \in done => {"sprints", "items"} \subseteq done
          /\ "closures" \in done => "sprints" \in done
      BY DEF Database, Keys, Rows, Ordered
    <2> HIDE DEF db, stored, sprintRows
    <2> QED BY <1>1, <2>1 DEF References
  <1> HIDE DEF db, stored, sprintRows
  <1>6. References(db)
    BY <1>2, <1>3, <1>4, <1>5 DEF References, stored, sprintRows
  <1> QED BY <1>6 DEF db

\* The last statement leaves the tables of the new board.
LEMMA StatementsStoreTheBoard ==
    ASSUME NEW old, Grows(old, Tables')
    PROVE  Database(old, Tables', Done(Len(Order))) = Tables'
  <1> DEFINE done == Done(Len(Order))
             new == Tables'
  <1>1. {"members", "projects", "columns", "sprints", "items", "withdraw",
         "dropLabels", "labels", "associate", "dropColumns", "withdrawScope",
         "scope", "closures"} \subseteq done
    BY DEF Done, Order
  <1>2. /\ new.memberships = [u \in DOMAIN new.memberships |-> new.memberships[u]]
        /\ new.board_columns = [c \in DOMAIN new.board_columns |-> new.board_columns[c]]
        /\ new.sprints = [s \in DOMAIN new.sprints |-> new.sprints[s]]
        /\ new.work_items = [i \in DOMAIN new.work_items |-> new.work_items[i]]
        /\ new.closures = [s \in DOMAIN new.closures |-> new.closures[s]]
    BY DEF Tables
  <1>3. new = [memberships   |-> new.memberships,
               projects      |-> new.projects,
               board_columns |-> new.board_columns,
               sprints       |-> new.sprints,
               work_items    |-> new.work_items,
               labels        |-> new.labels,
               item_labels   |-> new.item_labels,
               item_projects |-> new.item_projects,
               item_sprints  |-> new.item_sprints,
               dependencies  |-> new.dependencies,
               closed_scope  |-> new.closed_scope,
               closures      |-> new.closures]
    BY DEF Tables
  <1>4. Grows(old, new)
    OBVIOUS
  <1> HIDE DEF done, new
  <1>5. /\ Rows(old.memberships, new.memberships, TRUE, TRUE) = new.memberships
        /\ Rows(old.board_columns, new.board_columns, TRUE, TRUE) = new.board_columns
        /\ Rows(old.sprints, new.sprints, FALSE, TRUE) = new.sprints
        /\ Rows(old.work_items, new.work_items, FALSE, TRUE) = new.work_items
        /\ Rows(old.closures, new.closures, FALSE, TRUE) = new.closures
    <2>1. Rows(old.memberships, new.memberships, TRUE, TRUE) = new.memberships
      BY <1>2 DEF Rows, Keys
    <2>2. Rows(old.board_columns, new.board_columns, TRUE, TRUE) = new.board_columns
      BY <1>2 DEF Rows, Keys
    <2>3. Rows(old.sprints, new.sprints, FALSE, TRUE) = new.sprints
      BY <1>2, <1>4 DEF Rows, Keys, Grows
    <2>4. Rows(old.work_items, new.work_items, FALSE, TRUE) = new.work_items
      BY <1>2, <1>4 DEF Rows, Keys, Grows
    <2>5. Rows(old.closures, new.closures, FALSE, TRUE) = new.closures
      BY <1>2, <1>4 DEF Rows, Keys, Grows
    <2> QED BY <2>1, <2>2, <2>3, <2>4, <2>5
  <1>6. /\ Keys(old.projects, new.projects, FALSE, TRUE) = new.projects
        /\ \A table, rows : Keys(table, rows, TRUE, TRUE) = rows
    BY <1>4 DEF Keys, Grows
  <1>7. Database(old, new, done) = new
    <2>1. \A phase \in {"members", "projects", "columns", "sprints", "items",
                         "withdraw", "dropLabels", "labels", "associate",
                         "dropColumns", "withdrawScope", "scope", "closures"} :
            (phase \in done) = TRUE
      BY <1>1
    <2> QED BY <1>3, <1>5, <1>6, <2>1 DEF Database
  <1> QED BY <1>7 DEF done, new

\* A valid board with a coherent history satisfies the foreign keys.
LEMMA ValidBoardRefers ==
    ASSUME Typed, Validate, HistoryInv
    PROVE  References(Tables)
  <1> DEFINE db == Tables
  <1>1. /\ DOMAIN db.memberships = {u \in Subject : members[u] # None}
        /\ db.projects = projects
        /\ DOMAIN db.board_columns = ToSet(columns)
        /\ DOMAIN db.sprints = {s \in Sprint : sprint[s] # None}
        /\ DOMAIN db.work_items = Existing
        /\ db.labels = labels
        /\ DOMAIN db.closures = {s \in Sprint : closure[s] # None}
        /\ db.closed_scope = closedScope
    BY DEF Tables
  <1>2. \A i \in Existing : /\ db.work_items[i].column = item[i].column
                            /\ db.work_items[i].assignee = item[i].assignee
                            /\ db.work_items[i].mirrors = item[i].projects
    BY DEF Tables, ItemRow
  <1>3. /\ db.item_labels = UNION {{i} \X item[i].labels : i \in Existing}
        /\ db.item_projects = UNION {{i} \X item[i].projects : i \in Existing}
        /\ db.item_sprints = UNION {{i} \X item[i].sprints : i \in Existing}
        /\ db.dependencies = UNION {{i} \X item[i].deps : i \in Existing}
    BY DEF Tables
  <1> HIDE DEF db
  <1>4. ASSUME NEW i \in Existing
        PROVE  /\ i \in Item /\ item[i] \in ItemContent
               /\ item[i].column \in ToSet(columns)
               /\ item[i].assignee \in {u \in Subject : members[u] # None} \cup {None}
               /\ item[i].projects \subseteq projects
               /\ item[i].labels \subseteq labels
               /\ item[i].sprints \subseteq {s \in Sprint : sprint[s] # None}
               /\ item[i].deps \subseteq Existing \ {i}
    <2>1. i \in Item /\ item[i] \in ItemContent
      BY ContentOf
    <2>2. ValidItem(i, item[i], archived, labels, sprint)
      BY DEF Validate, Accepted
    <2>3. None \notin {"planned", "active"}
      BY BoardAssumption DEF BoardAssumption, SprintState
    <2> QED BY <2>1, <2>2, <2>3 DEF ValidItem, ItemContent
  <1>5. \A i \in DOMAIN db.work_items :
          /\ db.work_items[i].column \in DOMAIN db.board_columns
          /\ db.work_items[i].assignee \in DOMAIN db.memberships \cup {None}
          /\ db.work_items[i].mirrors \subseteq db.projects
    BY <1>1, <1>2, <1>4
  <1>6. db.item_labels \subseteq Existing \X labels
    BY <1>3, <1>4
  <1>7. db.item_projects \subseteq Existing \X projects
    BY <1>3, <1>4
  <1>8. db.item_sprints \subseteq Existing \X {s \in Sprint : sprint[s] # None}
    BY <1>3, <1>4
  <1>9. db.dependencies \subseteq {p \in Existing \X Existing : p[1] # p[2]}
    BY <1>3, <1>4
  <1>10. \A s \in Sprint : /\ closure[s] # None => sprint[s] # None
                           /\ Scope(s) # {} => closure[s] # None
                           /\ Scope(s) \subseteq Existing
    BY BoardAssumption
       DEF HistoryInv, ClosureMatchesScope, BoardAssumption, SprintState
  <1>11. closedScope \subseteq {s \in Sprint : sprint[s] # None} \X Existing
    <2> SUFFICES ASSUME NEW p \in closedScope
                 PROVE  p \in {s \in Sprint : sprint[s] # None} \X Existing
      OBVIOUS
    <2>1. PICK s \in Sprint, i \in Item : p = <<s, i>>
      BY DEF Typed, TypeOK
    <2>2. i \in Scope(s)
      BY <2>1 DEF Scope
    <2> QED BY <2>1, <2>2, <1>10
  <1>12. References(db)
    BY <1>1, <1>5, <1>6, <1>7, <1>8, <1>9, <1>10, <1>11 DEF References
  <1> QED BY <1>12 DEF db

\* No command takes away a project, a sprint, an item or a summary.
LEMMA CommandsKeepRows ==
    ASSUME Typed, Next
    PROVE  /\ projects \subseteq projects'
           /\ \A s \in Sprint : sprint[s] # None => sprint'[s] # None
           /\ Existing \subseteq Existing'
           /\ \A s \in Sprint : closure[s] # None => closure'[s] # None
  <1>1. CASE SprintCommand
    <2>1. UNCHANGED <<projects, Existing>>
      BY <1>1 DEF SprintCommand, SprintCreate, SprintSave, SprintStart,
           SprintReopen, SprintClose, SprintArchive, Existing
    <2>2. ASSUME NEW s \in Sprint,
                 \/ SprintCreate(s) \/ SprintSave(s) \/ SprintStart(s)
                 \/ SprintReopen(s) \/ SprintArchive(s)
          PROVE  /\ closure' = closure
                 /\ \A t \in Sprint : sprint[t] # None => sprint'[t] # None
      BY <2>2, BoardAssumption
         DEF SprintCreate, SprintSave, SprintStart, SprintReopen, SprintArchive,
             Typed, TypeOK, BoardAssumption, SprintState
    <2>3. ASSUME NEW s \in Sprint, NEW d, SprintClose(s, d)
          PROVE  /\ \A t \in Sprint : closure[t] # None => closure'[t] # None
                 /\ \A t \in Sprint : sprint[t] # None => sprint'[t] # None
      <3>1. None # "closed" /\ None \notin Closure
        BY BoardAssumption DEF BoardAssumption, SprintState
      <3>2. \A t \in Sprint : closure[t] # None => closure'[t] # None
        BY <2>3, <3>1, CloseWritesHistory
      <3> QED BY <2>3, <3>1, <3>2 DEF SprintClose, Typed, TypeOK
    <2> QED BY <1>1, <2>1, <2>2, <2>3 DEF SprintCommand
  <1>2. CASE ~SprintCommand
    <2>1. UNCHANGED sprintVars /\ Existing \subseteq Existing'
      BY <1>2, OtherCommandsKeepHistory
    <2>2. projects \subseteq projects'
      BY <1>2 DEF Next, ItemCommand, ColumnCommand, CatalogCommand,
           MemberCommand, ItemCreate, ItemUpdate, ItemArchive, ItemRestore,
           ItemRank, ItemMove, ColumnCreate, ColumnSave, ColumnDelete,
           ColumnRank, ProjectCreate, ProjectSave, LabelCreate, LabelSave,
           LabelDelete, relabel, MemberName, MemberAdd, MemberSave, MemberDelete
    <2> QED BY <2>1, <2>2
  <1> QED BY <1>1, <1>2

\* Nobody to whom an item is assigned leaves.
LEMMA AssigneesStay ==
    ASSUME Typed, Validate, Next, NEW i \in Existing
    PROVE  item[i].assignee \in {u \in Subject : members'[u] # None} \cup {None}
  <1> DEFINE person == item[i].assignee
  <1>1. person # None => person \in Subject /\ members[person] # None
    BY ContentOf DEF Validate, Accepted, ValidItem, ItemContent
  <1>2. CASE MemberCommand
    <2>1. PICK actor \in Subject, u \in Subject :
            \/ MemberName(actor, u) \/ MemberDelete(actor, u)
            \/ \E role \in Role : MemberAdd(actor, u, role) \/ MemberSave(actor, u, role)
      BY <1>2 DEF MemberCommand
    <2>2. CASE MemberDelete(actor, u)
      <3>1. person # u /\ members' = [members EXCEPT ![u] = None]
        BY <2>2 DEF MemberDelete
      <3> QED BY <1>1, <3>1 DEF Typed, TypeOK
    <2>3. CASE ~MemberDelete(actor, u)
      <3>1. \A v \in Subject : members[v] # None => members'[v] # None
        BY <2>1, <2>3, BoardAssumption
           DEF MemberName, MemberAdd, MemberSave, Typed, TypeOK, BoardAssumption
      <3> QED BY <1>1, <3>1
    <2> QED BY <2>2, <2>3
  <1>3. CASE ~MemberCommand
    <2>1. UNCHANGED members
      BY <1>3 DEF Next, ItemCommand, ColumnCommand, CatalogCommand,
           SprintCommand, ItemCreate, ItemUpdate, ItemArchive, ItemRestore,
           ItemRank, ItemMove, ColumnCreate, ColumnSave, ColumnDelete,
           ColumnRank, ProjectCreate, ProjectSave, LabelCreate, LabelSave,
           LabelDelete, relabel, SprintCreate, SprintSave, SprintStart,
           SprintReopen, SprintClose, SprintArchive
    <2> QED BY <1>1, <2>1
  <1> QED BY <1>2, <1>3

LEMMA CommandsGrow ==
    ASSUME Typed, Validate, Next
    PROVE  Grows(Tables, Tables')
  <1>1. /\ Tables.projects = projects
        /\ DOMAIN Tables.sprints = {s \in Sprint : sprint[s] # None}
        /\ DOMAIN Tables.work_items = Existing
        /\ DOMAIN Tables.closures = {s \in Sprint : closure[s] # None}
        /\ \A i \in Existing : Tables.work_items[i].assignee = item[i].assignee
    BY DEF Tables, ItemRow
  <1>2. /\ Tables'.projects = projects'
        /\ DOMAIN Tables'.sprints = {s \in Sprint : sprint'[s] # None}
        /\ DOMAIN Tables'.work_items = Existing'
        /\ DOMAIN Tables'.closures = {s \in Sprint : closure'[s] # None}
        /\ DOMAIN Tables'.memberships = {u \in Subject : members'[u] # None}
    BY DEF Tables
  <1> DEFINE old == Tables
             new == Tables'
  <1> HIDE DEF old, new
  <1>3. Grows(old, new)
    BY <1>1, <1>2, CommandsKeepRows, AssigneesStay DEF Grows, old, new
  <1> QED BY <1>3 DEF old, new

\* Every statement of every command meets the foreign keys, and the last one
\* leaves the board the command made.
THEOREM CommandsAreStored == Spec => SaveKeepsReferences
  <1>1. ASSUME Typed, Typed', Validate, HistoryInv, HistoryInv', Next
        PROVE  \A old \in {Tables}, new \in {Tables'} : Stored(old, new)
    <2> SUFFICES Stored(Tables, Tables')
      OBVIOUS
    <2>1. References(Tables)
      BY <1>1, ValidBoardRefers
    <2>2. References(Tables')
      <3>1. Validate'
        BY <1>1, CommandsValidate
      <3>2. (Typed /\ Validate /\ HistoryInv => References(Tables))'
        BY ValidBoardRefers, PTL
      <3> QED BY <1>1, <3>1, <3>2
    <2>3. Grows(Tables, Tables')
      BY <1>1, CommandsGrow
    <2>4. \A n \in 0..Len(Order) : References(Database(Tables, Tables', Done(n)))
      BY <2>1, <2>2, <2>3, OrderIsOrdered, StatementsKeepReferences
    <2>5. Database(Tables, Tables', Done(Len(Order))) = Tables'
      BY <2>3, StatementsStoreTheBoard
    <2> QED BY <2>4, <2>5 DEF Stored, Databases
  <1>2. Typed /\ Typed' /\ Validate /\ HistoryInv /\ HistoryInv' /\ [Next]_vars
          => [\A old \in {Tables}, new \in {Tables'} : Stored(old, new)]_vars
    BY <1>1
  <1>3. Init => HistoryInv
    BY DEF Init, HistoryInv, ClosureMatchesScope, Scope
  <1>4. Spec => []Typed
    BY TypeCorrect, PTL DEF Typed
  <1> QED BY <1>2, <1>3, <1>4, HistoryStep, InitValidates, StepValidates, PTL
       DEF Spec, SaveKeepsReferences

=============================================================================
