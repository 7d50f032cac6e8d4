-------------------------------- MODULE Rows --------------------------------
(***************************************************************************)
(* What every search and every ranking of the system takes from Python:    *)
(* None for a parameter that is not given, a slice, a filter, and the      *)
(* stable sort.  Filter and sort are the positions of some rows in some    *)
(* order: said without recursion, so that they can be reasoned about.      *)
(***************************************************************************)
EXTENDS Naturals, Sequences, FiniteSets

CONSTANT None

(* rows[:n] for a natural number n.                                        *)
Limit(rows, n) == IF Len(rows) <= n THEN rows ELSE SubSeq(rows, 1, n)

(* A sequence, as the slice of the whole of it: so TLC works the elements  *)
(* out once, and not each time one of them is asked for.                   *)
Once(s) == SubSeq(s, 1, Len(s))

(* The positions of S, when ahead[i] is the set of those that come before  *)
(* i: the k-th has k - 1 of them ahead of it.                              *)
Ranked(S, ahead) ==
  Once([k \in 1..Cardinality(S) |-> CHOOSE i \in S : Cardinality(ahead[i]) = k - 1])

RowsAt(rows, at) == Once([k \in DOMAIN at |-> rows[at[k]]])

(* [row for row in rows if Test(row)]: the rows at the positions S of      *)
(* those that pass, in their order.                                        *)
KeptAt(rows, S) == RowsAt(rows, Ranked(S, Once([i \in DOMAIN rows |-> {j \in S : j < i}])))

Kept(rows, Test(_)) == KeptAt(rows, {i \in DOMAIN rows : Test(rows[i])})

(* rows.sort(key=Key, reverse=True): stable, equal rows keep their order.  *)
SortedBy(rows, key) ==
  LET Ahead(i) == {j \in DOMAIN rows : key[j] > key[i] \/ (key[j] = key[i] /\ j < i)}
  IN  RowsAt(rows, Ranked(DOMAIN rows, Once([i \in DOMAIN rows |-> Ahead(i)])))

Descending(rows, Key(_)) == SortedBy(rows, Once([i \in DOMAIN rows |-> Key(rows[i])]))
=============================================================================
