------------------------------ MODULE Listing ------------------------------
(***************************************************************************)
(* What the window does to its lists: Array.filter, Array.sort and the     *)
(* loops that add up.                                                      *)
(***************************************************************************)
EXTENDS Naturals, Sequences, FiniteSets

\* filter: the entries of s that are in K, in their order.
Only(s, K) ==
  LET kept[n \in 0..Len(s)] ==
        IF n = 0 THEN <<>>
        ELSE IF s[n] \in K THEN Append(kept[n - 1], s[n]) ELSE kept[n - 1]
  IN  kept[Len(s)]

\* sort: <<i, j>> \in up says that s[i] goes before s[j]; the others keep their order.
Ordered(s, up) ==
  LET place == [i \in DOMAIN s |->
        Cardinality({j \in DOMAIN s : <<j, i>> \in up \/ (<<i, j>> \notin up /\ j <= i)})]
  IN  [k \in DOMAIN s |-> s[CHOOSE i \in DOMAIN s : place[i] = k]]

\* The values of a Map or a Set in some order, and sorted: <<x, y>> \in up says that x
\* goes before y; the others stand as they came.
Enumerated(S) ==
  CHOOSE s \in [1..Cardinality(S) -> S] : \A i, j \in 1..Cardinality(S) : s[i] = s[j] => i = j
SortedSet(S, up) ==
  LET s == Enumerated(S)
  IN  Ordered(s, {p \in (DOMAIN s) \X (DOMAIN s) : <<s[p[1]], s[p[2]]>> \in up})

\* The sum of what f has for each of its arguments.
SumOf(f) ==
  LET part[S \in SUBSET DOMAIN f] ==
        IF S = {} THEN 0 ELSE LET x == CHOOSE x \in S : TRUE IN f[x] + part[S \ {x}]
  IN  part[DOMAIN f]
=============================================================================
