----------------------------- MODULE RowsProofs -----------------------------
(***************************************************************************)
(* What the filter and the stable sort of module Rows return, for every    *)
(* sequence of rows.                                                       *)
(***************************************************************************)
EXTENDS Rows, Integers, FunctionTheorems, FiniteSetTheorems, SequenceTheorems, TLAPS

(* ahead is a strict total order on the finite set S.                      *)
TotalOrder(S, ahead) ==
  /\ IsFiniteSet(S)
  /\ \A i \in S : ahead[i] \subseteq S /\ i \notin ahead[i]
  /\ \A i, j \in S : i # j => i \in ahead[j] \/ j \in ahead[i]
  /\ \A i, j \in S : i \in ahead[j] => ahead[i] \subseteq ahead[j]

(* at enumerates S in that order.                                          *)
Enumerates(at, S, ahead) ==
  /\ at \in [1..Cardinality(S) -> S]
  /\ \A i \in S : \E k \in 1..Cardinality(S) : at[k] = i
  /\ \A k, l \in 1..Cardinality(S) : k < l <=> at[k] \in ahead[at[l]]

(* Slicing all of a sequence changes nothing.                              *)
LEMMA OnceIsNothing ==
  ASSUME NEW T, NEW n \in Nat, NEW s \in [1..n -> T]
  PROVE  Once(s) = s
<1>1. s \in Seq(T) /\ Len(s) = n
  BY SeqDef
<1>2. SubSeq(s, 1, Len(s)) = s
  BY <1>1, SubSeqFull
<1> QED
  BY <1>2 DEF Once

(* One more stands ahead of j than of i when i stands ahead of j.          *)
LEMMA AheadGrows ==
  ASSUME NEW S, NEW ahead, TotalOrder(S, ahead), NEW i \in S, NEW j \in S, i \in ahead[j]
  PROVE  /\ Cardinality(ahead[i]) \in Nat
         /\ Cardinality(ahead[j]) \in Nat
         /\ Cardinality(ahead[i]) < Cardinality(ahead[j])
<1>1. /\ IsFiniteSet(ahead[i]) /\ IsFiniteSet(ahead[j])
      /\ i \notin ahead[i]
      /\ ahead[i] \cup {i} \subseteq ahead[j]
  BY FS_Subset DEF TotalOrder
<1>2. Cardinality(ahead[i] \cup {i}) = Cardinality(ahead[i]) + 1
  BY <1>1, FS_AddElement
<1>3. Cardinality(ahead[i] \cup {i}) <= Cardinality(ahead[j])
  BY <1>1, FS_Subset
<1>4. Cardinality(ahead[i]) \in Nat /\ Cardinality(ahead[j]) \in Nat
  BY <1>1, FS_CardinalityType
<1> QED
  BY <1>2, <1>3, <1>4

(* Ranked enumerates: the number of those ahead is injective into 0..n-1,  *)
(* so every number below n is taken.                                       *)
LEMMA RankedEnumerates ==
  ASSUME NEW S, NEW ahead, TotalOrder(S, ahead)
  PROVE  Enumerates(Ranked(S, ahead), S, ahead)
<1> DEFINE n == Cardinality(S)
           rank == [i \in S |-> Cardinality(ahead[i]) + 1]
<1>1. IsFiniteSet(S) /\ n \in Nat
  BY FS_CardinalityType DEF TotalOrder
<1>2. \A i \in S : rank[i] \in 1..n
  <2> TAKE i \in S
  <2>1. ahead[i] \cup {i} \subseteq S /\ i \notin ahead[i] /\ IsFiniteSet(ahead[i])
    BY <1>1, FS_Subset DEF TotalOrder
  <2>2. Cardinality(ahead[i] \cup {i}) = Cardinality(ahead[i]) + 1
    BY <2>1, FS_AddElement
  <2>3. Cardinality(ahead[i] \cup {i}) <= n
    BY <1>1, <2>1, FS_Subset
  <2>4. Cardinality(ahead[i]) \in Nat
    BY <2>1, FS_CardinalityType
  <2> QED
    BY <1>1, <2>2, <2>3, <2>4
<1>3. \A i, j \in S : i # j => rank[i] # rank[j]
  <2> TAKE i, j \in S
  <2>1. i # j => i \in ahead[j] \/ j \in ahead[i]
    BY DEF TotalOrder
  <2> QED
    BY <2>1, AheadGrows
<1>4. \A k \in 1..n : \E i \in S : rank[i] = k
  <2>1. rank \in Injection(S, 1..n)
    BY <1>2, <1>3 DEF Injection, IsInjective
  <2>2. IsFiniteSet(1..n) /\ Cardinality(1..n) = n
    BY <1>1, FS_Interval
  <2>3. rank \in Surjection(S, 1..n)
    BY <2>1, <2>2, FS_Injection
  <2> QED
    BY <2>3 DEF Surjection
<1> DEFINE at == [k \in 1..n |-> CHOOSE i \in S : Cardinality(ahead[i]) = k - 1]
<1>5. \A k \in 1..n : at[k] \in S /\ rank[at[k]] = k
  <2> TAKE k \in 1..n
  <2>1. PICK i \in S : rank[i] = k
    BY <1>4
  <2>2. Cardinality(ahead[i]) \in Nat
    BY FS_Subset, FS_CardinalityType DEF TotalOrder
  <2>3. Cardinality(ahead[i]) = k - 1
    BY <1>1, <2>1, <2>2
  <2>4. at[k] \in S /\ Cardinality(ahead[at[k]]) = k - 1
    BY <2>3
  <2> QED
    BY <1>1, <2>4
<1>6. Ranked(S, ahead) = at
  <2>1. at \in [1..n -> S]
    BY <1>5
  <2>2. Ranked(S, ahead) = Once(at)
    BY DEF Ranked
  <2> HIDE DEF at, n
  <2> QED
    BY <1>1, <2>1, <2>2, OnceIsNothing
<1>7. \A i \in S : \E k \in 1..n : at[k] = i
  BY <1>2, <1>3, <1>5
<1>8. \A k, l \in 1..n : k < l <=> at[k] \in ahead[at[l]]
  <2> SUFFICES ASSUME NEW k \in 1..n, NEW l \in 1..n
               PROVE  k < l <=> at[k] \in ahead[at[l]]
    OBVIOUS
  <2>1. /\ at[k] \in S /\ at[l] \in S
        /\ rank[at[k]] = k /\ rank[at[l]] = l
    BY <1>5
  <2> HIDE DEF at, n
  <2>2. at[k] \in ahead[at[l]] => k < l
    BY <2>1, AheadGrows
  <2>3. at[l] \in ahead[at[k]] => l < k
    BY <2>1, AheadGrows
  <2>4. at[k] # at[l] => at[k] \in ahead[at[l]] \/ at[l] \in ahead[at[k]]
    BY <2>1 DEF TotalOrder
  <2>5. k \in Int /\ l \in Int
    BY <1>1
  <2>6. at[k] = at[l] => k = l
    BY <2>1
  <2> QED
    BY <2>2, <2>3, <2>4, <2>5, <2>6
<1> QED
  BY <1>5, <1>6, <1>7, <1>8 DEF Enumerates

-----------------------------------------------------------------------------
(* A choice of rows: at names the position each of them had, no two the    *)
(* same, and all of them in S.                                             *)
Chooses(at, n, S) ==
  /\ n \in Nat
  /\ at \in [1..n -> S]
  /\ \A k, l \in 1..n : at[k] = at[l] => k = l
  /\ \A i \in S : \E k \in 1..n : at[k] = i

(* The rows themselves, taken from their positions.                        *)
LEMMA RowsAtPositions ==
  ASSUME NEW T, NEW rows \in Seq(T), NEW n \in Nat, NEW at \in [1..n -> DOMAIN rows]
  PROVE  /\ RowsAt(rows, at) \in Seq(T)
         /\ Len(RowsAt(rows, at)) = n
         /\ DOMAIN RowsAt(rows, at) = 1..n
         /\ \A k \in 1..n : RowsAt(rows, at)[k] = rows[at[k]]
<1> DEFINE f == [k \in 1..n |-> rows[at[k]]]
<1>1. f \in [1..n -> T]
  BY LenProperties
<1>2. RowsAt(rows, at) = Once(f)
  BY DEF RowsAt
<1>3. RowsAt(rows, at) = f
  BY <1>1, <1>2, OnceIsNothing
<1>4. f \in Seq(T) /\ Len(f) = n
  BY <1>1, SeqDef
<1> QED
  BY <1>3, <1>4

(* Kept, that is a filter as Python writes it, returns the rows that pass  *)
(* and no other, each once and in their order.                             *)
THEOREM KeptAtPositions ==
  ASSUME NEW T, NEW rows \in Seq(T), NEW S \in SUBSET DOMAIN rows
  PROVE  \E at :
           /\ Chooses(at, Cardinality(S), S)
           /\ \A k, l \in 1..Cardinality(S) : k < l => at[k] < at[l]
           /\ KeptAt(rows, S) \in Seq(T)
           /\ Len(KeptAt(rows, S)) = Cardinality(S)
           /\ \A k \in 1..Cardinality(S) : KeptAt(rows, S)[k] = rows[at[k]]
<1> DEFINE n == Cardinality(S)
           f == [i \in DOMAIN rows |-> {j \in S : j < i}]
           ahead == Once(f)
           at == Ranked(S, ahead)
<1>1. /\ DOMAIN rows = 1..Len(rows) /\ Len(rows) \in Nat
      /\ IsFiniteSet(DOMAIN rows) /\ IsFiniteSet(S) /\ n \in Nat
  <2>1. DOMAIN rows = 1..Len(rows) /\ Len(rows) \in Nat
    BY LenProperties
  <2>2. IsFiniteSet(DOMAIN rows)
    BY <2>1, FS_Interval
  <2>3. IsFiniteSet(S)
    BY <2>2, FS_Subset
  <2> QED
    BY <2>1, <2>2, <2>3, FS_CardinalityType
<1>2. ahead = f
  <2>1. f \in [1..Len(rows) -> SUBSET S]
    BY <1>1
  <2> HIDE DEF f
  <2> QED
    BY <1>1, <2>1, OnceIsNothing
<1>3. \A i, j \in S : i \in ahead[j] <=> i < j
  BY <1>2
<1>4. TotalOrder(S, ahead)
  <2>1. \A i \in S : ahead[i] = {j \in S : j < i}
    BY <1>2
  <2>2. \A i \in S : i \in Int
    BY <1>1
  <2> HIDE DEF ahead
  <2> QED
    BY <1>1, <2>1, <2>2 DEF TotalOrder
<1>5. Enumerates(at, S, ahead)
  BY <1>4, RankedEnumerates
<1> HIDE DEF ahead, at, n
<1>6. at \in [1..n -> S] /\ at \in [1..n -> DOMAIN rows]
  BY <1>5 DEF Enumerates, n
<1>7. \A k, l \in 1..n : k < l <=> at[k] < at[l]
  BY <1>3, <1>5, <1>6 DEF Enumerates, n
<1>8. \A k, l \in 1..n : at[k] = at[l] => k = l
  BY <1>1, <1>6, <1>7
<1>9. KeptAt(rows, S) = RowsAt(rows, at)
  BY DEF KeptAt, at, ahead
<1>10. Chooses(at, n, S)
  BY <1>1, <1>5, <1>6, <1>8 DEF Enumerates, Chooses, n
<1>11. /\ KeptAt(rows, S) \in Seq(T)
       /\ Len(KeptAt(rows, S)) = n
       /\ \A k \in 1..n : KeptAt(rows, S)[k] = rows[at[k]]
  BY <1>1, <1>6, <1>9, RowsAtPositions
<1> QED
  BY <1>7, <1>10, <1>11 DEF n

-----------------------------------------------------------------------------
(* Best first, and of two as good the one that stood first.                *)
BestFirst(at, n, key) ==
  \A k, l \in 1..n : k < l =>
    \/ key[at[k]] > key[at[l]]
    \/ key[at[k]] = key[at[l]] /\ at[k] < at[l]

(* Descending, that is sort(reverse=True), returns every row once, best    *)
(* first; rows of the same score keep their order.                         *)
THEOREM SortedPositions ==
  ASSUME NEW T, NEW rows \in Seq(T),
         NEW key, \A i \in DOMAIN rows : key[i] \in Int
  PROVE  \E at :
           /\ Chooses(at, Len(rows), DOMAIN rows)
           /\ BestFirst(at, Len(rows), key)
           /\ SortedBy(rows, key) \in Seq(T)
           /\ Len(SortedBy(rows, key)) = Len(rows)
           /\ \A k \in 1..Len(rows) : SortedBy(rows, key)[k] = rows[at[k]]
<1> DEFINE n == Len(rows)
           D == DOMAIN rows
           f == [i \in D |-> {j \in D : key[j] > key[i] \/ (key[j] = key[i] /\ j < i)}]
           ahead == Once(f)
           at == Ranked(D, ahead)
<1>1. /\ D = 1..n /\ n \in Nat /\ IsFiniteSet(D) /\ Cardinality(D) = n
  <2>1. D = 1..n /\ n \in Nat
    BY LenProperties
  <2> HIDE DEF D, n
  <2>2. \A m \in Nat : IsFiniteSet(1..m) /\ Cardinality(1..m) = m
    BY FS_Interval
  <2> QED
    BY <2>1, <2>2
<1>2. ahead = f
  <2>1. f \in [1..n -> SUBSET D]
    BY <1>1
  <2> HIDE DEF f
  <2> QED
    BY <1>1, <2>1, OnceIsNothing
<1> HIDE DEF ahead, at, n
<1>3. \A i, j \in D : i \in ahead[j] <=> key[i] > key[j] \/ (key[i] = key[j] /\ i < j)
  BY <1>2
<1>4. TotalOrder(D, ahead)
  <2>1. \A i \in D : ahead[i] \subseteq D /\ i \in Int /\ key[i] \in Int
    BY <1>1, <1>2
  <2>2. \A i \in D : i \notin ahead[i]
    BY <1>3, <2>1
  <2>3. \A i, j \in D : i # j => i \in ahead[j] \/ j \in ahead[i]
    BY <1>3, <2>1
  <2>4. \A i, j \in D : i \in ahead[j] => ahead[i] \subseteq ahead[j]
    <3> SUFFICES ASSUME NEW i \in D, NEW j \in D, i \in ahead[j], NEW x \in ahead[i]
                 PROVE  x \in ahead[j]
      OBVIOUS
    <3>1. x \in D
      BY <2>1
    <3> QED
      BY <1>3, <2>1, <3>1
  <2> QED
    BY <1>1, <2>1, <2>2, <2>3, <2>4 DEF TotalOrder
<1>5. Enumerates(at, D, ahead)
  BY <1>4, RankedEnumerates DEF at
<1>6. /\ at \in [1..n -> D]
      /\ \A i \in D : \E k \in 1..n : at[k] = i
      /\ \A k, l \in 1..n : k < l <=> at[k] \in ahead[at[l]]
  BY <1>1, <1>5 DEF Enumerates
<1>7. BestFirst(at, n, key)
  BY <1>3, <1>6 DEF BestFirst
<1>8. \A k, l \in 1..n : at[k] = at[l] => k = l
  <2>1. \A k \in 1..n : at[k] \notin ahead[at[k]]
    BY <1>4, <1>6 DEF TotalOrder
  <2>2. \A k \in 1..n : k \in Int
    BY <1>1
  <2> QED
    BY <1>6, <2>1, <2>2
<1>9. SortedBy(rows, key) = RowsAt(rows, at)
  BY DEF SortedBy, at, ahead
<1>10. Chooses(at, n, D)
  BY <1>1, <1>6, <1>8 DEF Chooses
<1>11. /\ SortedBy(rows, key) \in Seq(T)
       /\ Len(SortedBy(rows, key)) = n
       /\ \A k \in 1..n : SortedBy(rows, key)[k] = rows[at[k]]
  <2>1. n \in Nat /\ at \in [1..n -> DOMAIN rows]
    BY <1>1, <1>6
  <2>2. /\ RowsAt(rows, at) \in Seq(T)
        /\ Len(RowsAt(rows, at)) = n
        /\ \A k \in 1..n : RowsAt(rows, at)[k] = rows[at[k]]
    <3> HIDE DEF f, D
    <3>1. \A m \in Nat : \A g \in [1..m -> DOMAIN rows] :
            /\ RowsAt(rows, g) \in Seq(T)
            /\ Len(RowsAt(rows, g)) = m
            /\ \A k \in 1..m : RowsAt(rows, g)[k] = rows[g[k]]
      BY RowsAtPositions
    <3> QED
      BY <2>1, <3>1
  <2> QED
    BY <1>9, <2>2
<1> QED
  BY <1>7, <1>10, <1>11 DEF n

-----------------------------------------------------------------------------
(* Choices of rows: how many they are, choices of a choice, and a slice.   *)
LEMMA ChosenAreCounted ==
  ASSUME NEW S, NEW n, NEW at, Chooses(at, n, S)
  PROVE  IsFiniteSet(S) /\ Cardinality(S) = n
<1>1. n \in Nat /\ at \in Bijection(1..n, S)
  BY DEF Chooses, Bijection, Injection, IsInjective, Surjection
<1>2. ExistsBijection(1..n, S)
  BY <1>1 DEF ExistsBijection
<1> QED
  BY <1>1, <1>2, FS_CountingElements, FS_NatBijection

LEMMA ChoiceOfChoice ==
  ASSUME NEW S, NEW n, NEW f, Chooses(f, n, S),
         NEW T \in SUBSET (1..n), NEW m, NEW g, Chooses(g, m, T)
  PROVE  Chooses([k \in 1..m |-> f[g[k]]], m, {f[i] : i \in T})
<1> DEFINE h == [k \in 1..m |-> f[g[k]]]
           U == {f[i] : i \in T}
<1>1. /\ n \in Nat /\ f \in [1..n -> S] /\ \A k, l \in 1..n : f[k] = f[l] => k = l
      /\ m \in Nat /\ g \in [1..m -> T] /\ \A k, l \in 1..m : g[k] = g[l] => k = l
      /\ \A i \in T : \E k \in 1..m : g[k] = i
  BY DEF Chooses
<1>2. h \in [1..m -> U]
  BY <1>1
<1>3. \A k, l \in 1..m : h[k] = h[l] => k = l
  <2> TAKE k, l \in 1..m
  <2>1. g[k] \in 1..n /\ g[l] \in 1..n /\ h[k] = f[g[k]] /\ h[l] = f[g[l]]
    BY <1>1
  <2> QED
    BY <1>1, <2>1
<1>4. \A i \in U : \E k \in 1..m : h[k] = i
  BY <1>1
<1> QED
  BY <1>1, <1>2, <1>3, <1>4 DEF Chooses

LEMMA LimitedRows ==
  ASSUME NEW T, NEW rows \in Seq(T), NEW n \in Nat
  PROVE  /\ Limit(rows, n) \in Seq(T)
         /\ Len(Limit(rows, n)) = IF Len(rows) <= n THEN Len(rows) ELSE n
         /\ Len(Limit(rows, n)) \in Nat /\ Len(Limit(rows, n)) <= Len(rows)
         /\ \A k \in 1..Len(Limit(rows, n)) : Limit(rows, n)[k] = rows[k]
<1>1. Len(rows) \in Nat
  OBVIOUS
<1>2. CASE Len(rows) <= n
  BY <1>1, <1>2 DEF Limit
<1>3. CASE ~(Len(rows) <= n)
  <2>1. Limit(rows, n) = SubSeq(rows, 1, n)
    BY <1>3 DEF Limit
  <2>2. /\ SubSeq(rows, 1, n) \in Seq(T)
        /\ Len(SubSeq(rows, 1, n)) = n
        /\ \A k \in 1..n : SubSeq(rows, 1, n)[k] = rows[k]
    BY <1>1, <1>3
  <2> QED
    BY <1>1, <1>3, <2>1, <2>2
<1> QED
  BY <1>2, <1>3

-----------------------------------------------------------------------------
(* The best of what two filters leave: first the rows at the positions     *)
(* admitted, then of those the good ones, sorted by a score of the rows,   *)
(* and the first k of them.                                                *)
GoodOf(rows, good) == {i \in DOMAIN rows : rows[i] \in good}

Left(rows, admitted, good) ==
  KeptAt(KeptAt(rows, admitted), GoodOf(KeptAt(rows, admitted), good))

Fitting(rows, admitted, good) == {i \in admitted : rows[i] \in good}

ByScore(rows, score) == SortedBy(rows, Once([i \in DOMAIN rows |-> score[rows[i]]]))

(* The sort by a score: every row once, best first.                        *)
LEMMA SortedByScore ==
  ASSUME NEW T, NEW rows \in Seq(T), NEW score, \A c \in T : score[c] \in Int
  PROVE  \E to :
           /\ Chooses(to, Len(rows), 1..Len(rows))
           /\ ByScore(rows, score) \in Seq(T) /\ Len(ByScore(rows, score)) = Len(rows)
           /\ \A k \in 1..Len(rows) : ByScore(rows, score)[k] = rows[to[k]]
           /\ \A k, l \in 1..Len(rows) : k < l => score[rows[to[k]]] >= score[rows[to[l]]]
<1> DEFINE n == Len(rows)
           raw == [i \in DOMAIN rows |-> score[rows[i]]]
           key == Once(raw)
<1>1. n \in Nat /\ DOMAIN rows = 1..n
  BY LenProperties
<1>2. raw \in [1..n -> Int] /\ \A i \in 1..n : raw[i] = score[rows[i]]
  BY <1>1, ElementOfSeq
<1>3. /\ \A i \in DOMAIN rows : key[i] \in Int
      /\ \A i \in 1..n : key[i] = score[rows[i]]
  <2> HIDE DEF raw, n
  <2>1. key = raw
    BY <1>1, <1>2, OnceIsNothing
  <2> QED
    BY <1>1, <1>2, <2>1
<1>4. ByScore(rows, score) = SortedBy(rows, key)
  BY DEF ByScore
<1> HIDE DEF key, raw
<1>5. PICK to :
        /\ Chooses(to, Len(rows), DOMAIN rows)
        /\ BestFirst(to, Len(rows), key)
        /\ SortedBy(rows, key) \in Seq(T)
        /\ Len(SortedBy(rows, key)) = Len(rows)
        /\ \A k \in 1..Len(rows) : SortedBy(rows, key)[k] = rows[to[k]]
  BY <1>3, SortedPositions
<1>6. \A k, l \in 1..n : k < l => score[rows[to[k]]] >= score[rows[to[l]]]
  <2> SUFFICES ASSUME NEW k \in 1..n, NEW l \in 1..n, k < l
               PROVE  score[rows[to[k]]] >= score[rows[to[l]]]
    OBVIOUS
  <2>1. to[k] \in 1..n /\ to[l] \in 1..n
    BY <1>1, <1>5 DEF Chooses
  <2>2. key[to[k]] > key[to[l]] \/ key[to[k]] = key[to[l]]
    BY <1>5 DEF BestFirst
  <2>3. key[to[k]] \in Int /\ key[to[l]] \in Int
    BY <1>1, <1>3, <2>1
  <2>4. key[to[k]] = score[rows[to[k]]] /\ key[to[l]] = score[rows[to[l]]]
    BY <1>3, <2>1
  <2>5. key[to[k]] >= key[to[l]]
    BY <2>2, <2>3
  <2> QED
    BY <2>4, <2>5
<1> QED
  BY <1>1, <1>4, <1>5, <1>6

(* What the filters and the sort leave: the fit rows, each once, best      *)
(* first.                                                                  *)
LEMMA FitRows ==
  ASSUME NEW T, NEW rows \in Seq(T), NEW admitted \in SUBSET DOMAIN rows, NEW good,
         NEW score, \A c \in T : score[c] \in Int
  PROVE  LET fit    == Fitting(rows, admitted, good)
             left   == Left(rows, admitted, good)
             ranked == ByScore(left, score)
             n      == Cardinality(fit)
         IN  /\ IsFiniteSet(admitted) /\ n \in Nat
             /\ KeptAt(rows, admitted) \in Seq(T)
             /\ Len(KeptAt(rows, admitted)) = Cardinality(admitted)
             /\ left \in Seq(T) /\ Len(left) = n
             /\ ranked \in Seq(T) /\ Len(ranked) = n
             /\ \E at :
                  /\ Chooses(at, n, fit)
                  /\ \A k \in 1..n : ranked[k] = rows[at[k]]
                  /\ \A k, l \in 1..n : k < l => score[rows[at[k]]] >= score[rows[at[l]]]
<1> DEFINE fit == Fitting(rows, admitted, good)
           first == KeptAt(rows, admitted)
           G == GoodOf(first, good)
           left == Left(rows, admitted, good)
           ranked == ByScore(left, score)
           a == Cardinality(admitted)
           n == Cardinality(G)
<1>1. PICK f :
        /\ Chooses(f, a, admitted)
        /\ first \in Seq(T) /\ Len(first) = a
        /\ \A k \in 1..a : first[k] = rows[f[k]]
  BY KeptAtPositions
<1>2. PICK g :
        /\ Chooses(g, n, G)
        /\ left \in Seq(T) /\ Len(left) = n
        /\ \A k \in 1..n : left[k] = first[g[k]]
  <2>1. G \in SUBSET DOMAIN first /\ first \in Seq(T) /\ left = KeptAt(first, G)
    BY <1>1 DEF GoodOf, Left
  <2> HIDE DEF first, G, left
  <2> QED
    BY <2>1, KeptAtPositions
<1>3. G = {i \in DOMAIN first : first[i] \in good}
  BY DEF GoodOf
<1> HIDE DEF first, left, G, a, n
<1>4. /\ a \in Nat /\ n \in Nat
      /\ DOMAIN first = 1..a /\ DOMAIN left = 1..n
      /\ f \in [1..a -> admitted] /\ g \in [1..n -> G] /\ G \in SUBSET (1..a)
  BY <1>1, <1>2, <1>3, LenProperties DEF Chooses
<1>5. PICK h :
        /\ Chooses(h, n, 1..n)
        /\ ranked \in Seq(T) /\ Len(ranked) = n
        /\ \A k \in 1..n : ranked[k] = left[h[k]]
        /\ \A k, l \in 1..n : k < l => score[left[h[k]]] >= score[left[h[l]]]
  BY <1>2, SortedByScore
<1> HIDE DEF ranked
<1> DEFINE fg == [k \in 1..n |-> f[g[k]]]
           at == [k \in 1..n |-> fg[h[k]]]
<1>6. {f[i] : i \in G} = fit
  <2>1. \A i \in G : f[i] \in fit
    BY <1>1, <1>3, <1>4 DEF Fitting
  <2>2. ASSUME NEW j \in fit PROVE \E i \in G : f[i] = j
    <3>1. PICK i \in 1..a : f[i] = j
      BY <1>1 DEF Chooses, Fitting
    <3> QED
      BY <1>1, <1>3, <1>4, <3>1 DEF Fitting
  <2> QED
    BY <2>1, <2>2
<1> HIDE DEF fit
<1>7. Chooses(fg, n, fit)
  <2>1. Chooses(f, a, admitted) /\ Chooses(g, n, G) /\ G \in SUBSET (1..a)
    BY <1>1, <1>2, <1>4
  <2>2. Chooses(fg, n, {f[i] : i \in G})
    BY <2>1, ChoiceOfChoice
  <2> QED
    BY <1>6, <2>2
<1>8. Chooses(at, n, fit)
  <2> HIDE DEF fg
  <2>1. Chooses(fg, n, fit) /\ Chooses(h, n, 1..n) /\ 1..n \in SUBSET (1..n)
    BY <1>5, <1>7
  <2>2. \A S \in SUBSET (1..n) : \A e :
          Chooses(e, n, S) => Chooses([k \in 1..n |-> fg[e[k]]], n, {fg[i] : i \in S})
    BY <2>1, ChoiceOfChoice
  <2>3. Chooses(at, n, {fg[i] : i \in 1..n})
    BY <2>1, <2>2
  <2>4. {fg[i] : i \in 1..n} = fit
    BY <1>7 DEF Chooses
  <2> QED
    BY <2>3, <2>4
<1>9. /\ \A k \in 1..n : h[k] \in 1..n
      /\ \A k \in 1..n : fg[k] = f[g[k]] /\ left[k] = rows[fg[k]]
  BY <1>1, <1>2, <1>4, <1>5 DEF Chooses
<1> HIDE DEF fg
<1>10. \A k \in 1..n : at[k] = fg[h[k]] /\ ranked[k] = rows[at[k]] /\ left[h[k]] = rows[at[k]]
  BY <1>5, <1>9
<1> HIDE DEF at
<1>11. \A k, l \in 1..n : k < l => score[rows[at[k]]] >= score[rows[at[l]]]
  BY <1>5, <1>10
<1>12. Cardinality(fit) = n /\ IsFiniteSet(admitted) /\ Cardinality(admitted) = a
  BY <1>1, <1>8, ChosenAreCounted
<1> QED
  BY <1>1, <1>2, <1>4, <1>5, <1>8, <1>10, <1>11, <1>12 DEF fit, first, left, ranked

(* cited is a choice of the fit rows that a search for the best k of them  *)
(* may return: that many, or all, best first, and none left out is better. *)
BestChoice(rows, fit, score, k, cited) ==
  LET taken == {i \in fit : \E j \in DOMAIN cited : cited[j] = rows[i]}
  IN  /\ Len(cited) = IF Cardinality(fit) <= k THEN Cardinality(fit) ELSE k
      /\ Cardinality(taken) = Len(cited)
      /\ \A i \in taken, j \in fit \ taken : score[rows[i]] >= score[rows[j]]
      /\ \A i, j \in DOMAIN cited : i < j => score[cited[i]] >= score[cited[j]]
      /\ cited # << >> =>
           \A i \in fit : cited[1] \in {rows[j] : j \in fit} /\ score[cited[1]] >= score[rows[i]]

(* The search of two filters, a stable sort and a slice is one that takes  *)
(* the best k, when no two rows are the same.                              *)
THEOREM BestAreChosen ==
  ASSUME NEW T, NEW rows \in Seq(T), NEW admitted \in SUBSET DOMAIN rows, NEW good,
         NEW score, \A c \in T : score[c] \in Int, NEW k \in Nat,
         \A i, j \in DOMAIN rows : rows[i] = rows[j] => i = j
  PROVE  LET fit   == Fitting(rows, admitted, good)
             cited == Limit(ByScore(Left(rows, admitted, good), score), k)
         IN  BestChoice(rows, fit, score, k, cited) /\ cited \in Seq(T)
<1> DEFINE fit == Fitting(rows, admitted, good)
           ranked == ByScore(Left(rows, admitted, good), score)
           cited == Limit(ranked, k)
           n == Cardinality(fit)
           m == Len(cited)
           taken == {i \in fit : \E j \in DOMAIN cited : cited[j] = rows[i]}
<1>1. n \in Nat /\ ranked \in Seq(T)
  BY FitRows
<1>2. PICK at :
        /\ Len(ranked) = n
        /\ Chooses(at, n, fit)
        /\ \A l \in 1..n : ranked[l] = rows[at[l]]
        /\ \A e, l \in 1..n : e < l => score[rows[at[e]]] >= score[rows[at[l]]]
  BY FitRows
<1>3. fit \subseteq DOMAIN rows
  BY DEF Fitting
<1>4. \A i \in DOMAIN rows : score[rows[i]] \in Int
  BY ElementOfSeq
<1> HIDE DEF fit, ranked
<1>5. /\ cited \in Seq(T) /\ m \in Nat /\ m <= n
      /\ m = IF n <= k THEN n ELSE k
      /\ \A l \in 1..m : cited[l] = ranked[l]
  <2> HIDE DEF n
  <2>1. ranked \in Seq(T) /\ Len(ranked) = n /\ n \in Nat
    BY <1>1, <1>2
  <2> QED
    BY <2>1, LimitedRows
<1>6. DOMAIN cited = 1..m
  BY <1>5, LenProperties
<1> HIDE DEF cited, m
<1>7. \A l \in 1..m : l \in 1..n /\ cited[l] = rows[at[l]]
  <2> HIDE DEF n, taken
  <2>1. \A l \in 1..m : l \in 1..n
    BY <1>1, <1>5
  <2> QED
    BY <1>2, <1>5, <2>1
<1>8. /\ at \in [1..n -> fit]
      /\ \A e, l \in 1..n : at[e] = at[l] => e = l
      /\ \A i \in fit : \E l \in 1..n : at[l] = i
  BY <1>2 DEF Chooses
<1> HIDE DEF n
<1>9. taken = {at[l] : l \in 1..m}
  <2>1. ASSUME NEW i \in taken PROVE \E l \in 1..m : at[l] = i
    <3>1. PICK l \in 1..m : cited[l] = rows[i]
      BY <1>6
    <3>2. at[l] \in DOMAIN rows /\ i \in DOMAIN rows /\ rows[at[l]] = rows[i]
      BY <1>3, <1>7, <1>8, <3>1
    <3> QED
      BY <3>2
  <2>2. ASSUME NEW l \in 1..m PROVE at[l] \in taken
    BY <1>6, <1>7, <1>8
  <2> QED
    BY <2>1, <2>2
<1> HIDE DEF taken
<1>10. Cardinality(taken) = m
  <2> DEFINE chosen == [l \in 1..m |-> at[l]]
  <2>1. Chooses(chosen, m, taken)
    BY <1>5, <1>7, <1>8, <1>9 DEF Chooses
  <2> HIDE DEF chosen
  <2> QED
    BY <2>1, ChosenAreCounted
<1>11. \A i \in taken, j \in fit \ taken : score[rows[i]] >= score[rows[j]]
  <2> SUFFICES ASSUME NEW i \in taken, NEW j \in fit \ taken
               PROVE  score[rows[i]] >= score[rows[j]]
    OBVIOUS
  <2>1. PICK e \in 1..m : at[e] = i
    BY <1>9
  <2>2. PICK l \in 1..n : at[l] = j
    BY <1>8
  <2>3. l \notin 1..m
    BY <1>9, <2>2
  <2>4. e \in 1..n /\ e < l
    BY <1>1, <1>5, <2>3
  <2> QED
    BY <1>2, <2>1, <2>2, <2>4
<1>12. \A i, j \in DOMAIN cited : i < j => score[cited[i]] >= score[cited[j]]
  BY <1>2, <1>6, <1>7
<1>13. ASSUME cited # << >>, NEW i \in fit
       PROVE  cited[1] \in {rows[j] : j \in fit} /\ score[cited[1]] >= score[rows[i]]
  <2>1. 1 \in 1..m /\ 1 \in 1..n
    BY <1>5, <1>6, <1>7, <1>13, EmptySeq DEF m
  <2>2. cited[1] = rows[at[1]] /\ at[1] \in fit
    BY <1>7, <1>8, <2>1
  <2>3. PICK l \in 1..n : at[l] = i
    BY <1>8
  <2>4. l = 1 \/ 1 < l
    BY <1>1
  <2>5. score[rows[at[1]]] \in Int
    BY <1>3, <1>4, <2>2
  <2>6. score[rows[at[1]]] >= score[rows[i]]
    BY <1>2, <2>1, <2>3, <2>4, <2>5
  <2> QED
    BY <2>2, <2>6
<1> QED
  BY <1>5, <1>10, <1>11, <1>12, <1>13 DEF BestChoice, fit, ranked, cited, m, n, taken
-----------------------------------------------------------------------------
(* The rows are the members of A, each of them once.                       *)
Lists(rows, A) == rows \in Seq(A) /\ Chooses(rows, Len(rows), A)

(* Rows picked out of a list, at positions each of them different.         *)
LEMMA PickedLists ==
  ASSUME NEW A, NEW rows, Lists(rows, A), NEW P \in SUBSET (1..Len(rows)),
         NEW m, NEW at, Chooses(at, m, P),
         NEW out \in Seq(A), Len(out) = m, \A k \in 1..m : out[k] = rows[at[k]]
  PROVE  Lists(out, {rows[i] : i \in P})
<1> DEFINE h == [k \in 1..m |-> rows[at[k]]]
           B == {rows[i] : i \in P}
<1>1. Chooses(h, m, B)
  BY ChoiceOfChoice DEF Lists
<1>2. m \in Nat /\ h \in [1..m -> B]
  BY <1>1 DEF Chooses
<1>3. out = h
  BY LenProperties
<1>4. h \in Seq(B)
  BY <1>2, SeqDef
<1> QED
  BY <1>1, <1>3, <1>4 DEF Lists

(* The filter of a list lists the good ones.                               *)
LEMMA KeptLists ==
  ASSUME NEW A, NEW rows, Lists(rows, A), NEW good
  PROVE  Lists(KeptAt(rows, GoodOf(rows, good)), A \cap good)
<1> DEFINE G == GoodOf(rows, good)
           out == KeptAt(rows, G)
           m == Cardinality(G)
<1>1. rows \in Seq(A) /\ Len(rows) \in Nat /\ DOMAIN rows = 1..Len(rows)
  BY LenProperties DEF Lists
<1>2. G \in SUBSET DOMAIN rows
  BY DEF GoodOf
<1>3. PICK at :
        /\ Chooses(at, m, G)
        /\ out \in Seq(A) /\ Len(out) = m
        /\ \A k \in 1..m : out[k] = rows[at[k]]
  <2> HIDE DEF G
  <2> QED
    BY <1>1, <1>2, KeptAtPositions
<1>4. {rows[i] : i \in G} = A \cap good
  BY <1>1 DEF GoodOf, Lists, Chooses
<1>5. Lists(out, {rows[i] : i \in G})
  <2>1. G \in SUBSET (1..Len(rows))
    BY <1>1, <1>2
  <2> HIDE DEF G, out, m
  <2> QED
    BY <1>3, <2>1, PickedLists
<1> QED
  BY <1>4, <1>5

(* The sort of a list lists the same, best first.                          *)
LEMMA SortedLists ==
  ASSUME NEW A, NEW rows, Lists(rows, A), NEW score, \A x \in A : score[x] \in Int
  PROVE  LET out == ByScore(rows, score)
         IN  /\ Lists(out, A)
             /\ \A k, l \in 1..Len(out) : k < l => score[out[k]] >= score[out[l]]
<1> DEFINE out == ByScore(rows, score)
           n == Len(rows)
<1>1. rows \in Seq(A) /\ n \in Nat
  BY LenProperties DEF Lists
<1>2. PICK to :
        /\ Chooses(to, n, 1..n)
        /\ out \in Seq(A) /\ Len(out) = n
        /\ \A k \in 1..n : out[k] = rows[to[k]]
        /\ \A k, l \in 1..n : k < l => score[rows[to[k]]] >= score[rows[to[l]]]
  BY <1>1, SortedByScore
<1>3. {rows[i] : i \in 1..n} = A
  BY DEF Lists, Chooses
<1>4. Lists(out, {rows[i] : i \in 1..n})
  <2>1. 1..n \in SUBSET (1..Len(rows))
    OBVIOUS
  <2> HIDE DEF out
  <2>2. \A P \in SUBSET (1..Len(rows)) :
          Chooses(to, n, P) => Lists(out, {rows[i] : i \in P})
    BY <1>2, PickedLists
  <2> QED
    BY <1>2, <2>1, <2>2
<1> HIDE DEF out, n
<1> QED
  BY <1>2, <1>3, <1>4 DEF out

(* As many rows as the members of A; each of them is one, and each is one  *)
(* of them.                                                                *)
LEMMA ListedRows ==
  ASSUME NEW A, NEW rows, Lists(rows, A)
  PROVE  /\ rows \in Seq(A) /\ Len(rows) \in Nat /\ DOMAIN rows = 1..Len(rows)
         /\ IsFiniteSet(A) /\ Cardinality(A) = Len(rows)
         /\ \A k \in 1..Len(rows) : rows[k] \in A
         /\ \A k, l \in 1..Len(rows) : rows[k] = rows[l] => k = l
         /\ \A x \in A : \E k \in 1..Len(rows) : rows[k] = x
<1>1. rows \in Seq(A) /\ Chooses(rows, Len(rows), A)
  BY DEF Lists
<1>2. IsFiniteSet(A) /\ Cardinality(A) = Len(rows)
  BY <1>1, ChosenAreCounted
<1>3. Len(rows) \in Nat /\ DOMAIN rows = 1..Len(rows)
  BY <1>1, LenProperties
<1> QED
  BY <1>1, <1>2, <1>3 DEF Chooses

(* page holds the best n of A, or all of A: each is better than all that   *)
(* come after it and all that are left out.                                *)
IsBest(page, A, score, n) ==
  /\ page \in Seq(A)
  /\ Len(page) = IF Cardinality(A) < n THEN Cardinality(A) ELSE n
  /\ \A i \in DOMAIN page : \A x \in A \ {page[j] : j \in 1..i} :
       score[page[i]] > score[x]

(* A page of a sorted list, when no two scores are the same.               *)
THEOREM PageIsBest ==
  ASSUME NEW A, NEW rows, Lists(rows, A), NEW score, \A x \in A : score[x] \in Int,
         \A x, y \in A : score[x] = score[y] => x = y, NEW n \in Nat
  PROVE  IsBest(Limit(ByScore(rows, score), n), A, score, n)
<1> DEFINE out == ByScore(rows, score)
           page == Limit(out, n)
           c == Cardinality(A)
<1>1. /\ Lists(out, A)
      /\ \A k, l \in 1..Len(out) : k < l => score[out[k]] >= score[out[l]]
  BY SortedLists
<1> HIDE DEF out
<1>2. /\ out \in Seq(A) /\ Len(out) \in Nat /\ c = Len(out)
      /\ \A k \in 1..Len(out) : out[k] \in A
      /\ \A x \in A : \E k \in 1..Len(out) : out[k] = x
  BY <1>1, ListedRows
<1>3. /\ page \in Seq(A)
      /\ Len(page) = IF Len(out) <= n THEN Len(out) ELSE n
      /\ Len(page) \in Nat /\ Len(page) <= Len(out)
      /\ \A k \in 1..Len(page) : page[k] = out[k]
  BY <1>2, LimitedRows
<1> HIDE DEF page, c
<1>4. Len(page) = IF c < n THEN c ELSE n
  BY <1>2, <1>3
<1>5. ASSUME NEW i \in DOMAIN page, NEW x \in A \ {page[j] : j \in 1..i}
      PROVE  score[page[i]] > score[x]
  <2>1. i \in 1..Len(page)
    BY <1>3, LenProperties
  <2>2. PICK l \in 1..Len(out) : out[l] = x
    BY <1>2
  <2>3. i \in 1..Len(out) /\ page[i] = out[i] /\ page[i] \in A
    BY <1>2, <1>3, <2>1
  <2>4. l \notin 1..i
    <3>1. \A j \in 1..i : page[j] = out[j]
      BY <1>3, <2>1
    <3> QED
      BY <2>2, <3>1
  <2>5. i < l
    BY <1>2, <2>3, <2>4
  <2>6. score[page[i]] >= score[x]
    BY <1>1, <2>2, <2>3, <2>5
  <2>7. page[i] # x
    BY <2>1
  <2>8. score[page[i]] \in Int /\ score[x] \in Int /\ score[page[i]] # score[x]
    BY <2>3, <2>7
  <2> QED
    BY <2>6, <2>8
<1> QED
  BY <1>3, <1>4, <1>5 DEF IsBest, page, out, c

(* A filter passes only good rows, whatever else it is given.              *)
LEMMA KeptAreGood ==
  ASSUME NEW T, NEW rows \in Seq(T), NEW good
  PROVE  KeptAt(rows, GoodOf(rows, good)) \in Seq(T \cap good)
<1> DEFINE G == GoodOf(rows, good)
           out == KeptAt(rows, G)
           m == Cardinality(G)
<1>1. G \in SUBSET DOMAIN rows
  BY DEF GoodOf
<1>2. PICK at :
        /\ Chooses(at, m, G)
        /\ out \in Seq(T) /\ Len(out) = m
        /\ \A k \in 1..m : out[k] = rows[at[k]]
  <2> HIDE DEF G
  <2> QED
    BY <1>1, KeptAtPositions
<1>3. m \in Nat /\ \A k \in 1..m : at[k] \in G
  BY <1>2 DEF Chooses
<1>4. \A k \in 1..m : out[k] \in T \cap good
  <2> HIDE DEF out, m
  <2>1. \A k \in 1..m : rows[at[k]] \in good /\ rows[at[k]] \in T
    BY <1>3, ElementOfSeq DEF GoodOf
  <2> QED
    BY <1>2, <2>1
<1> HIDE DEF out, m
<1>5. out \in [1..m -> T \cap good]
  BY <1>2, <1>4, LenProperties
<1> QED
  BY <1>3, <1>5, SeqDef DEF out
=============================================================================
