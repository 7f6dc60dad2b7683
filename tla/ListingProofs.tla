---------------------------- MODULE ListingProofs ----------------------------
(***************************************************************************)
(* What filter, sort and sum of Listing give for every list and every      *)
(* finite set, and the two inductions that the proofs about the window     *)
(* need: over the natural numbers and over finite sets.                    *)
(***************************************************************************)
EXTENDS Listing, FiniteSetTheorems, SequenceTheorems, WellFoundedInduction, TLAPS

\* A set of natural numbers has a least one.
LEMMA LeastOf ==
  ASSUME NEW S \in SUBSET Nat, S # {}
  PROVE  \E m \in S : \A y \in S : m <= y
<1> DEFINE Less == {ss \in Nat \X Nat : ss[1] < ss[2]}
<1>1. IsWellFoundedOn(Less, Nat)
  BY NatLessThanWellFounded, Zenon DEF OpToRel
<1>2. \E m \in S : \A k \in S : ~(<<k, m>> \in Less)
  <2> HIDE DEF Less
  <2> QED BY <1>1, WFMin, Zenon
<1>3. PICK m \in S : \A k \in S : ~(<<k, m>> \in Less)
  BY <1>2
<1>4. \A y \in S : y \in Nat /\ m \in Nat /\ ~(y < m)
  BY <1>3
<1> QED BY <1>4

-----------------------------------------------------------------------------
(* Lists: what a filter keeps.                                             *)

\* The entries of a list, and a list that has none twice.
Entries(s) == {s[i] : i \in DOMAIN s}
Distinct(s) == \A i, j \in DOMAIN s : s[i] = s[j] => i = j

LEMMA AppendIs ==
  ASSUME NEW S, NEW s \in Seq(S), NEW x \in S
  PROVE  /\ Append(s, x) \in Seq(S) /\ Entries(Append(s, x)) = Entries(s) \cup {x}
         /\ Len(Append(s, x)) = Len(s) + 1 /\ Len(s) \in Nat
         /\ Distinct(s) /\ x \notin Entries(s) => Distinct(Append(s, x))
<1> DEFINE t == Append(s, x)
<1>1. /\ t \in Seq(S) /\ Len(t) = Len(s) + 1 /\ Len(s) \in Nat
      /\ DOMAIN s = 1..Len(s) /\ DOMAIN t = 1..(Len(s) + 1)
      /\ t[Len(s) + 1] = x /\ \A i \in 1..Len(s) : t[i] = s[i]
  OBVIOUS
<1> HIDE DEF t
<1>2. DOMAIN t = DOMAIN s \cup {Len(s) + 1}
  BY <1>1
<1>3. Entries(t) = Entries(s) \cup {x}
  <2>1. \A y \in Entries(t) : y \in Entries(s) \cup {x}
    BY <1>1, <1>2 DEF Entries
  <2>2. x \in Entries(t)
    BY <1>1, <1>2 DEF Entries
  <2>3. \A y \in Entries(s) : y \in Entries(t)
    BY <1>1, <1>2 DEF Entries
  <2> QED BY <2>1, <2>2, <2>3
<1>4. ASSUME Distinct(s), x \notin Entries(s) PROVE Distinct(t)
  BY <1>1, <1>2, <1>4 DEF Distinct, Entries
<1> QED BY <1>1, <1>3, <1>4 DEF t

LEMMA NoEntries ==
  /\ \A S : <<>> \in Seq(S)
  /\ Entries(<<>>) = {} /\ Distinct(<<>>) /\ Len(<<>>) = 0
BY DEF Entries, Distinct

Sieve(f, s, K, N) ==
  f = [n \in 0..N |-> IF n = 0 THEN <<>>
                      ELSE IF s[n] \in K THEN Append(f[n - 1], s[n]) ELSE f[n - 1]]

LEMMA SieveExists ==
  ASSUME NEW s, NEW K, NEW N \in Nat
  PROVE  \E f : Sieve(f, s, K, N)
<1> DEFINE Bad == {k \in Nat : ~\E f : Sieve(f, s, K, k)}
<1>1. SUFFICES ASSUME Bad # {} PROVE FALSE
  OBVIOUS
<1>2. PICK k \in Bad : \A y \in Bad : k <= y
  <2> HIDE DEF Bad
  <2>1. Bad \in SUBSET Nat
    BY DEF Bad
  <2> QED BY <1>1, <2>1, LeastOf
<1>3. k \in Nat
  OBVIOUS
<1>4. CASE k = 0
  <2> DEFINE f == [n \in 0..0 |-> <<>>]
  <2>1. Sieve(f, s, K, 0)
    BY DEF Sieve
  <2> QED BY <2>1, <1>4
<1>5. CASE k # 0
  <2>1. k - 1 \in Nat /\ ~(k <= k - 1)
    BY <1>3, <1>5
  <2>2. k - 1 \notin Bad
    BY <2>1, <1>2
  <2>3. PICK g : Sieve(g, s, K, k - 1)
    BY <2>1, <2>2
  <2> DEFINE f == [n \in 0..k |-> IF n = k
                     THEN IF s[k] \in K THEN Append(g[k - 1], s[k]) ELSE g[k - 1]
                     ELSE g[n]]
             Step(h, n) == IF n = 0 THEN <<>>
                           ELSE IF s[n] \in K THEN Append(h[n - 1], s[n]) ELSE h[n - 1]
  <2>4. \A n \in 0..k : f[n] = Step(f, n)
    <3> SUFFICES ASSUME NEW n \in 0..k PROVE f[n] = Step(f, n)
      OBVIOUS
    <3>1. CASE n = k
      <4>1. k - 1 \in 0..k /\ k - 1 # k /\ k \in 0..k
        BY <1>3, <1>5
      <4>2. f[n - 1] = g[k - 1]
        BY <4>1, <3>1
      <4> QED BY <3>1, <4>1, <4>2, <1>5
    <3>2. CASE n # k
      <4>1. n \in 0..(k - 1)
        BY <3>2, <1>3
      <4>2. f[n] = g[n]
        BY <3>2
      <4>3. n # 0 => n - 1 \in 0..k /\ n - 1 # k
        BY <4>1, <1>3
      <4>4. n # 0 => f[n - 1] = g[n - 1]
        BY <4>3
      <4>5. g[n] = Step(g, n)
        BY <2>3, <4>1 DEF Sieve
      <4> QED BY <4>2, <4>4, <4>5
    <3> QED BY <3>1, <3>2
  <2>5. Sieve(f, s, K, k)
    <3>1. f = [n \in 0..k |-> f[n]]
      OBVIOUS
    <3> HIDE DEF f
    <3> QED BY <3>1, <2>4 DEF Sieve
  <2> QED BY <2>5
<1> QED BY <1>4, <1>5

\* The entries up to the place n that are in K, each as often as before.
SieveTrue(f, s, K, n, S) ==
  /\ f[n] \in Seq(S) /\ Len(f[n]) <= n
  /\ Entries(f[n]) = {s[i] : i \in 1..n} \cap K
  /\ Distinct(s) => Distinct(f[n])

LEMMA OnlyIs ==
  ASSUME NEW S, NEW s \in Seq(S), NEW K
  PROVE  /\ Only(s, K) \in Seq(S) /\ Len(Only(s, K)) <= Len(s)
         /\ Entries(Only(s, K)) = Entries(s) \cap K
         /\ Distinct(s) => Distinct(Only(s, K))
<1> DEFINE N == Len(s)
           f == CHOOSE g : Sieve(g, s, K, N)
<1>1. N \in Nat /\ DOMAIN s = 1..N
  OBVIOUS
<1>2. Only(s, K) = f[N]
  BY DEF Only, Sieve
<1>3. Sieve(f, s, K, N)
  BY <1>1, SieveExists
<1> HIDE DEF f, N
<1>4. \A n \in 0..N : f[n] = IF n = 0 THEN <<>>
        ELSE IF s[n] \in K THEN Append(f[n - 1], s[n]) ELSE f[n - 1]
  BY <1>3 DEF Sieve
<1>5. SieveTrue(f, s, K, 0, S)
  <2>1. f[0] = <<>> /\ {s[i] : i \in 1..0} = {}
    BY <1>1, <1>4
  <2> QED BY <2>1, NoEntries DEF SieveTrue
<1>6. ASSUME NEW n \in 0..N, n # 0, SieveTrue(f, s, K, n - 1, S)
      PROVE  SieveTrue(f, s, K, n, S)
  <2> DEFINE g == f[n - 1]
  <2>1. /\ g \in Seq(S) /\ Len(g) <= n - 1 /\ Entries(g) = {s[i] : i \in 1..(n - 1)} \cap K
        /\ Distinct(s) => Distinct(g)
    BY <1>6 DEF SieveTrue
  <2>2. f[n] = IF s[n] \in K THEN Append(g, s[n]) ELSE g
    BY <1>4, <1>6
  <2> HIDE DEF g
  <2>3. n \in Nat /\ n - 1 \in Nat /\ 1..n = 1..(n - 1) \cup {n} /\ n \in DOMAIN s /\ s[n] \in S
    BY <1>1, <1>6
  <2>4. {s[i] : i \in 1..n} = {s[i] : i \in 1..(n - 1)} \cup {s[n]}
    BY <2>3
  <2>5. CASE s[n] \in K
    <3>1. /\ Append(g, s[n]) \in Seq(S) /\ Entries(Append(g, s[n])) = Entries(g) \cup {s[n]}
          /\ Len(Append(g, s[n])) = Len(g) + 1 /\ Len(g) \in Nat
          /\ Distinct(g) /\ s[n] \notin Entries(g) => Distinct(Append(g, s[n]))
      BY <2>1, <2>3, AppendIs
    <3>2. Distinct(s) => s[n] \notin Entries(g)
      BY <2>1, <2>3, <1>1 DEF Distinct
    <3>3. Entries(f[n]) = {s[i] : i \in 1..n} \cap K
      BY <2>1, <2>2, <2>4, <2>5, <3>1
    <3>4. Len(f[n]) <= n
      BY <2>1, <2>2, <2>3, <2>5, <3>1
    <3> QED BY <2>1, <2>2, <2>5, <3>1, <3>2, <3>3, <3>4 DEF SieveTrue
  <2>6. CASE s[n] \notin K
    <3>1. Entries(f[n]) = {s[i] : i \in 1..n} \cap K
      BY <2>1, <2>2, <2>4, <2>6
    <3>2. Len(f[n]) <= n
      <4>1. Len(g) \in Nat
        BY <2>1
      <4> QED BY <4>1, <2>1, <2>2, <2>3, <2>6
    <3> QED BY <2>1, <2>2, <2>6, <3>1, <3>2 DEF SieveTrue
  <2> QED BY <2>5, <2>6
<1> DEFINE Bad == {n \in 0..N : ~SieveTrue(f, s, K, n, S)}
<1>7. Bad = {}
  <2> SUFFICES ASSUME Bad # {} PROVE FALSE
    OBVIOUS
  <2>1. PICK k \in Bad : \A y \in Bad : k <= y
    <3> HIDE DEF Bad
    <3>1. Bad \in SUBSET Nat
      BY <1>1 DEF Bad
    <3> QED BY <3>1, LeastOf
  <2>2. k \in 0..N /\ k # 0 /\ ~SieveTrue(f, s, K, k, S)
    BY <1>5
  <2>3. k - 1 \in 0..N /\ ~(k <= k - 1)
    BY <2>2, <1>1
  <2>4. SieveTrue(f, s, K, k - 1, S)
    BY <2>1, <2>3
  <2> QED BY <2>2, <2>4, <1>6
<1>8. SieveTrue(f, s, K, N, S)
  <2>1. N \in 0..N
    BY <1>1
  <2> QED BY <2>1, <1>7
<1>9. Entries(s) = {s[i] : i \in 1..N}
  BY <1>1 DEF Entries
<1> QED BY <1>2, <1>8, <1>9 DEF SieveTrue, N

\* A list without repetition is as long as it has entries.
LEMMA CountDistinct ==
  ASSUME NEW S, NEW s \in Seq(S), Distinct(s)
  PROVE  /\ IsFiniteSet(Entries(s)) /\ Cardinality(Entries(s)) = Len(s)
<1>1. Len(s) \in Nat /\ DOMAIN s = 1..Len(s)
  OBVIOUS
<1>2. IsFiniteSet(1..Len(s)) /\ Cardinality(1..Len(s)) = Len(s)
  <2>1. 1 \in Int /\ Len(s) \in Int
    BY <1>1
  <2>2. /\ IsFiniteSet(1..Len(s))
        /\ Cardinality(1..Len(s)) = IF 1 > Len(s) THEN 0 ELSE Len(s) - 1 + 1
    BY <2>1, FS_Interval
  <2> QED BY <2>2, <1>1
<1>3. s \in Bijection(DOMAIN s, Entries(s))
  <2>1. s \in [DOMAIN s -> Entries(s)]
    BY DEF Entries
  <2>2. \A x \in Entries(s) : \E i \in DOMAIN s : s[i] = x
    BY DEF Entries
  <2> QED BY <2>1, <2>2 DEF Bijection, Injection, Surjection, IsInjective, Distinct
<1>4. ExistsBijection(DOMAIN s, Entries(s))
  BY <1>3 DEF ExistsBijection
<1> QED BY <1>1, <1>2, <1>4, FS_Bijection

-----------------------------------------------------------------------------
(* Lists: what a sort keeps.                                               *)

\* A comparison that sorts: what is before nothing of itself, and what is between.
Sorts(s, up) ==
  \A i, j, k \in DOMAIN s :
    /\ <<i, j>> \in up => <<j, i>> \notin up
    /\ <<i, k>> \in up => <<i, j>> \in up \/ <<j, k>> \in up

\* No entry of t stands behind one of which it should be before.
Follows(s, t, up) ==
  \A k, l \in DOMAIN t : k < l => \E i, j \in DOMAIN s :
    t[k] = s[i] /\ t[l] = s[j] /\ <<j, i>> \notin up

LEMMA PlacesAre ==
  ASSUME NEW N \in Nat, NEW place \in [1..N -> 1..N],
         \A i, j \in 1..N : place[i] = place[j] => i = j
  PROVE  \A k \in 1..N : \E i \in 1..N : place[i] = k
<1>1. IsFiniteSet(1..N)
  BY FS_Interval
<1>2. place \in Injection(1..N, 1..N)
  BY DEF Injection, IsInjective
<1>3. place \in Surjection(1..N, 1..N)
  BY <1>1, <1>2, FS_Injection
<1> QED BY <1>3 DEF Surjection

LEMMA OrderedIs ==
  ASSUME NEW S, NEW s \in Seq(S), NEW up, Sorts(s, up)
  PROVE  /\ Ordered(s, up) \in Seq(S) /\ Len(Ordered(s, up)) = Len(s)
         /\ Entries(Ordered(s, up)) = Entries(s)
         /\ Distinct(s) => Distinct(Ordered(s, up))
         /\ Follows(s, Ordered(s, up), up)
<1> DEFINE N == Len(s)
           Upto(i) == {j \in DOMAIN s : <<j, i>> \in up \/ (<<i, j>> \notin up /\ j <= i)}
           place == [i \in DOMAIN s |-> Cardinality(Upto(i))]
           t == [k \in DOMAIN s |-> s[CHOOSE i \in DOMAIN s : place[i] = k]]
<1>1. N \in Nat /\ DOMAIN s = 1..N
  OBVIOUS
<1>2. Ordered(s, up) = t
  BY DEF Ordered
<1>3. IsFiniteSet(1..N) /\ Cardinality(1..N) = N
  <2>1. 1 \in Int /\ N \in Int
    BY <1>1
  <2> QED BY <1>1, <2>1, FS_Interval
<1>4. ASSUME NEW i \in 1..N
      PROVE  /\ IsFiniteSet(Upto(i)) /\ i \in Upto(i) /\ Upto(i) \in SUBSET (1..N)
             /\ Cardinality(Upto(i)) \in 1..N
  <2>1. Upto(i) \in SUBSET (1..N)
    BY <1>1
  <2>2. i \in Upto(i)
    BY <1>1 DEF Sorts
  <2> HIDE DEF Upto
  <2>3. IsFiniteSet(Upto(i)) /\ Cardinality(Upto(i)) <= N
    BY <1>3, <2>1, FS_Subset
  <2>4. Cardinality(Upto(i)) \in Nat /\ Cardinality(Upto(i)) # 0
    BY <2>2, <2>3, FS_CardinalityType, FS_EmptySet
  <2> QED BY <1>1, <2>1, <2>2, <2>3, <2>4
<1>5. ASSUME NEW i \in 1..N, NEW j \in 1..N, i # j, j \in Upto(i)
      PROVE  Cardinality(Upto(j)) < Cardinality(Upto(i))
  <2>1. i \notin Upto(j)
    <3>1. <<i, j>> \in up => <<j, i>> \notin up
      BY <1>1 DEF Sorts
    <3>2. <<j, i>> \in up \/ (<<i, j>> \notin up /\ j <= i)
      BY <1>5
    <3>3. ~(<<i, j>> \in up \/ (<<j, i>> \notin up /\ i <= j))
      BY <1>1, <1>5, <3>1, <3>2
    <3> QED BY <3>3
  <2>2. ASSUME NEW k \in Upto(j) PROVE k \in Upto(i)
    <3>1. k \in 1..N /\ j \in 1..N /\ i \in 1..N
      BY <1>1
    <3>2. /\ <<k, j>> \in up \/ (<<j, k>> \notin up /\ k <= j)
          /\ <<j, i>> \in up \/ (<<i, j>> \notin up /\ j <= i)
      BY <1>5
    <3>3. <<k, i>> \in up \/ (<<i, k>> \notin up /\ k <= i)
      BY <1>1, <3>1, <3>2 DEF Sorts
    <3> QED BY <1>1, <3>1, <3>3
  <2>3. IsFiniteSet(Upto(i)) /\ IsFiniteSet(Upto(j)) /\ i \in Upto(i)
    BY <1>4
  <2> HIDE DEF Upto
  <2>4. Upto(j) \in SUBSET Upto(i) /\ Upto(j) # Upto(i)
    BY <2>1, <2>2, <2>3
  <2>5. Cardinality(Upto(j)) <= Cardinality(Upto(i)) /\ Cardinality(Upto(j)) # Cardinality(Upto(i))
    BY <2>3, <2>4, FS_Subset
  <2>6. Cardinality(Upto(j)) \in Nat /\ Cardinality(Upto(i)) \in Nat
    BY <2>3, FS_CardinalityType
  <2> QED BY <2>5, <2>6
<1>6. ASSUME NEW i \in 1..N, NEW j \in 1..N, i # j PROVE j \in Upto(i) \/ i \in Upto(j)
  BY <1>1, <1>6
<1>7. /\ place \in [1..N -> 1..N]
      /\ \A i \in 1..N : place[i] = Cardinality(Upto(i))
  BY <1>1, <1>4
<1> HIDE DEF Upto, place
<1>8. \A i, j \in 1..N : place[i] = place[j] => i = j
  <2> SUFFICES ASSUME NEW i \in 1..N, NEW j \in 1..N, place[i] = place[j], i # j PROVE FALSE
    OBVIOUS
  <2>1. Cardinality(Upto(j)) < Cardinality(Upto(i)) \/ Cardinality(Upto(i)) < Cardinality(Upto(j))
    BY <1>5, <1>6
  <2>2. place[i] \in 1..N /\ place[j] \in 1..N /\ place[i] = Cardinality(Upto(i))
        /\ place[j] = Cardinality(Upto(j))
    BY <1>7
  <2>3. Cardinality(Upto(i)) = Cardinality(Upto(j))
    BY <2>2, Zenon
  <2>4. Cardinality(Upto(i)) \in 1..N
    BY <1>4
  <2>5. Cardinality(Upto(i)) \in Int
    BY <1>1, <2>4
  <2> QED BY <2>1, <2>3, <2>5
<1>9. \A k \in 1..N : \E i \in 1..N : place[i] = k
  BY <1>1, <1>7, <1>8, PlacesAre
<1> DEFINE at(k) == CHOOSE i \in DOMAIN s : place[i] = k
<1>10. ASSUME NEW k \in 1..N PROVE at(k) \in 1..N /\ place[at(k)] = k
  BY <1>1, <1>9
<1>11. ASSUME NEW i \in 1..N PROVE place[i] \in 1..N /\ at(place[i]) = i
  BY <1>7, <1>8, <1>10
<1>12. t = [k \in 1..N |-> s[at(k)]]
  BY <1>1
<1> HIDE DEF at, t
<1>13. t \in Seq(S) /\ Len(t) = N /\ DOMAIN t = 1..N
  <2>1. \A k \in 1..N : s[at(k)] \in S
    BY <1>1, <1>10
  <2>2. t \in [1..N -> S]
    BY <1>12, <2>1
  <2> QED BY <1>1, <2>2
<1>14. Entries(t) \subseteq Entries(s)
  BY <1>1, <1>10, <1>12, <1>13 DEF Entries
<1>15. Entries(s) \subseteq Entries(t)
  BY <1>1, <1>11, <1>12, <1>13 DEF Entries
<1>16. ASSUME Distinct(s) PROVE Distinct(t)
  <2>1. \A k, l \in 1..N : t[k] = t[l] => at(k) = at(l)
    BY <1>1, <1>10, <1>12, <1>16 DEF Distinct
  <2>2. \A k, l \in 1..N : at(k) = at(l) => k = l
    BY <1>10
  <2> QED BY <1>13, <2>1, <2>2 DEF Distinct
<1>17. ASSUME NEW k \in 1..N, NEW l \in 1..N, k < l PROVE <<at(l), at(k)>> \notin up
  <2> DEFINE i == at(k)
             j == at(l)
  <2>1. i \in 1..N /\ j \in 1..N /\ place[i] = k /\ place[j] = l
    BY <1>10
  <2>2. place[i] = Cardinality(Upto(i)) /\ place[j] = Cardinality(Upto(j))
    BY <1>7, <2>1
  <2>3. i # j /\ k \in Int /\ l \in Int
    BY <1>1, <1>17, <2>1
  <2> HIDE DEF i, j
  <2>4. SUFFICES ASSUME <<j, i>> \in up PROVE FALSE
    BY DEF i, j
  <2>5. j \in Upto(i)
    BY <1>1, <2>1, <2>4 DEF Upto
  <2>6. Cardinality(Upto(j)) < Cardinality(Upto(i))
    BY <1>5, <2>1, <2>3, <2>5
  <2>7. Cardinality(Upto(i)) = k /\ Cardinality(Upto(j)) = l
    BY <2>1, <2>2, Zenon
  <2> QED BY <1>17, <2>3, <2>6, <2>7
<1>18. Follows(s, t, up)
  BY <1>1, <1>10, <1>12, <1>13, <1>17 DEF Follows
<1>19. Len(t) = Len(s)
  BY <1>13 DEF N
<1> QED BY <1>2, <1>13, <1>14, <1>15, <1>16, <1>18, <1>19

-----------------------------------------------------------------------------
(* Finite sets: what is proved of one element after the other.             *)

LEMMA SmallestSet ==
  ASSUME NEW D, IsFiniteSet(D), NEW Bad \in SUBSET SUBSET D, Bad # {}
  PROVE  \E m \in Bad : \A T \in SUBSET m : T # m => T \notin Bad
<1> DEFINE Sizes == {Cardinality(T) : T \in Bad}
<1>1. \A T \in SUBSET D : IsFiniteSet(T) /\ Cardinality(T) \in Nat
  BY FS_Subset, FS_CardinalityType
<1>2. Sizes \in SUBSET Nat /\ Sizes # {}
  BY <1>1
<1> HIDE DEF Sizes
<1>3. PICK n \in Sizes : \A y \in Sizes : n <= y
  BY <1>2, LeastOf
<1>4. PICK m \in Bad : n = Cardinality(m)
  BY <1>3 DEF Sizes
<1>5. ASSUME NEW T \in SUBSET m, T # m, T \in Bad PROVE FALSE
  <2>1. IsFiniteSet(m) /\ Cardinality(m) \in Nat /\ Cardinality(T) \in Nat
    BY <1>1, <1>5
  <2>2. Cardinality(T) <= Cardinality(m) /\ Cardinality(T) # Cardinality(m)
    BY <2>1, <1>5, FS_Subset
  <2>3. Cardinality(m) <= Cardinality(T)
    BY <1>3, <1>4, <1>5 DEF Sizes
  <2> QED BY <2>1, <2>2, <2>3
<1> QED BY <1>4, <1>5

LEMMA SetInduction ==
  ASSUME NEW S, IsFiniteSet(S), NEW G, {} \in G,
         \A T \in SUBSET S : \A x \in S \ T : T \in G => T \cup {x} \in G
  PROVE  S \in G
<1> DEFINE Bad == (SUBSET S) \ G
<1>1. SUFFICES ASSUME Bad # {} PROVE FALSE
  OBVIOUS
<1>2. PICK m \in Bad : \A T \in SUBSET m : T # m => T \notin Bad
  <2> HIDE DEF Bad
  <2>1. Bad \in SUBSET SUBSET S
    BY DEF Bad
  <2> QED BY <1>1, <2>1, SmallestSet
<1>3. PICK x \in m : TRUE
  OBVIOUS
<1>4. m \ {x} \in G
  BY <1>2, <1>3
<1>5. m = (m \ {x}) \cup {x}
  BY <1>3
<1> QED BY <1>3, <1>4, <1>5

-----------------------------------------------------------------------------
(* Sums.                                                                   *)

OneOf(S) == CHOOSE x \in S : TRUE
Parts(g, f, U) == g = [S \in U |-> IF S = {} THEN 0 ELSE f[OneOf(S)] + g[S \ {OneOf(S)}]]
UpTo(D, n) == {S \in SUBSET D : Cardinality(S) <= n}

LEMMA PartsOf ==
  ASSUME NEW D, IsFiniteSet(D), NEW f, NEW n \in Nat
  PROVE  \E g : Parts(g, f, UpTo(D, n))
<1> DEFINE Bad == {k \in Nat : ~\E g : Parts(g, f, UpTo(D, k))}
<1>1. SUFFICES ASSUME Bad # {} PROVE FALSE
  OBVIOUS
<1>2. PICK k \in Bad : \A y \in Bad : k <= y
  <2> HIDE DEF Bad
  <2>1. Bad \in SUBSET Nat
    BY DEF Bad
  <2> QED BY <1>1, <2>1, LeastOf
<1>3. k \in Nat /\ ~\E g : Parts(g, f, UpTo(D, k))
  OBVIOUS
<1>4. \A S \in SUBSET D : IsFiniteSet(S) /\ Cardinality(S) \in Nat /\ (Cardinality(S) = 0 <=> S = {})
  BY FS_Subset, FS_CardinalityType, FS_EmptySet
<1>5. CASE k = 0
  <2> DEFINE g == [S \in UpTo(D, 0) |-> 0]
  <2>1. \A S \in UpTo(D, 0) : S = {}
    BY <1>4 DEF UpTo
  <2>2. Parts(g, f, UpTo(D, 0))
    BY <2>1 DEF Parts
  <2> QED BY <2>2, <1>3, <1>5
<1>6. CASE k # 0
  <2>1. k - 1 \in Nat /\ k - 1 \notin Bad
    BY <1>2, <1>3, <1>6
  <2>2. PICK h : Parts(h, f, UpTo(D, k - 1))
    BY <2>1
  <2> DEFINE g == [S \in UpTo(D, k) |-> IF S \in UpTo(D, k - 1) THEN h[S]
                                       ELSE f[OneOf(S)] + h[S \ {OneOf(S)}]]
  <2>3. \A S \in UpTo(D, k - 1) : /\ S \in UpTo(D, k)
                                  /\ h[S] = IF S = {} THEN 0 ELSE f[OneOf(S)] + h[S \ {OneOf(S)}]
    <3>1. \A S \in UpTo(D, k - 1) : S \in UpTo(D, k)
      BY <1>3, <1>4 DEF UpTo
    <3> QED BY <3>1, <2>2 DEF Parts
  <2>4. ASSUME NEW S \in UpTo(D, k), S # {}
        PROVE  /\ S \ {OneOf(S)} \in UpTo(D, k - 1)
    <3>1. OneOf(S) \in S
      BY <2>4 DEF OneOf
    <3>2. S \in SUBSET D /\ Cardinality(S) <= k /\ S \ {OneOf(S)} \in SUBSET D
      BY DEF UpTo
    <3>3. Cardinality(S \ {OneOf(S)}) = Cardinality(S) - 1
      BY <1>4, <3>1, <3>2, FS_RemoveElement
    <3>4. Cardinality(S) \in Nat
      BY <1>4, <3>2
    <3>5. Cardinality(S \ {OneOf(S)}) <= k - 1
      BY <1>3, <3>2, <3>3, <3>4
    <3> QED BY <3>2, <3>5 DEF UpTo
  <2>5. {} \in UpTo(D, k - 1)
    BY <2>1, <1>4 DEF UpTo
  <2>6. ASSUME NEW S \in UpTo(D, k)
        PROVE  g[S] = IF S = {} THEN 0 ELSE f[OneOf(S)] + g[S \ {OneOf(S)}]
    <3>1. CASE S = {}
      BY <2>3, <2>5, <3>1
    <3>2. CASE S # {}
      <4>1. g[S] = f[OneOf(S)] + h[S \ {OneOf(S)}]
        BY <2>3, <3>2
      <4>2. g[S \ {OneOf(S)}] = h[S \ {OneOf(S)}]
        BY <2>3, <2>4, <3>2
      <4> QED BY <3>2, <4>1, <4>2
    <3> QED BY <3>1, <3>2
  <2>7. Parts(g, f, UpTo(D, k))
    <3>1. g = [S \in UpTo(D, k) |-> g[S]]
      OBVIOUS
    <3> HIDE DEF g
    <3> QED BY <3>1, <2>6 DEF Parts
  <2> QED BY <2>7, <1>3
<1> QED BY <1>5, <1>6

\* The order in which one adds does not matter.
LEMMA PartsOrder ==
  ASSUME NEW D, IsFiniteSet(D), NEW f \in [D -> Int], NEW g, Parts(g, f, SUBSET D)
  PROVE  \A T \in SUBSET D : g[T] \in Int /\ \A x \in T : g[T] = f[x] + g[T \ {x}]
<1> DEFINE Good(T) == g[T] \in Int /\ \A x \in T : g[T] = f[x] + g[T \ {x}]
           Bad == {T \in SUBSET D : ~Good(T)}
<1>1. SUFFICES ASSUME Bad # {} PROVE FALSE
  OBVIOUS
<1>2. PICK T \in Bad : \A U \in SUBSET T : U # T => U \notin Bad
  <2> HIDE DEF Bad
  <2>1. Bad \in SUBSET SUBSET D
    BY DEF Bad
  <2> QED BY <1>1, <2>1, SmallestSet
<1>3. T \in SUBSET D /\ ~Good(T)
  OBVIOUS
<1>4. \A U \in SUBSET T : U # T => Good(U)
  BY <1>2
<1> HIDE DEF Bad
<1>5. \A U \in SUBSET D : g[U] = IF U = {} THEN 0 ELSE f[OneOf(U)] + g[U \ {OneOf(U)}]
  BY DEF Parts
<1>6. T # {}
  <2>1. T = {} => g[T] = 0
    BY <1>3, <1>5
  <2> QED BY <2>1, <1>3
<1> DEFINE c == OneOf(T)
<1>7. c \in T /\ g[T] = f[c] + g[T \ {c}]
  BY <1>3, <1>5, <1>6 DEF OneOf
<1> HIDE DEF c
<1>8. \A x \in T : f[x] \in Int /\ T \ {x} \in SUBSET T /\ T \ {x} # T
  BY <1>3
<1>9. g[T \ {c}] \in Int
  BY <1>4, <1>7, <1>8
<1>10. g[T] \in Int
  BY <1>7, <1>8, <1>9
<1>11. ASSUME NEW x \in T PROVE g[T] = f[x] + g[T \ {x}]
  <2>1. CASE x = c
    BY <2>1, <1>7
  <2>2. CASE x # c
    <3>1. g[T \ {c}] = f[x] + g[(T \ {c}) \ {x}]
      BY <1>4, <1>7, <1>8, <2>2
    <3>2. g[T \ {x}] = f[c] + g[(T \ {x}) \ {c}]
      BY <1>4, <1>7, <1>8, <2>2
    <3>3. (T \ {x}) \ {c} = (T \ {c}) \ {x}
      OBVIOUS
    <3>4. (T \ {c}) \ {x} \in SUBSET T /\ (T \ {c}) \ {x} # T
      BY <1>7
    <3>5. g[(T \ {c}) \ {x}] \in Int
      BY <1>4, <3>4
    <3>6. f[x] \in Int /\ f[c] \in Int
      BY <1>7, <1>8
    <3>7. g[T \ {x}] = f[c] + g[(T \ {c}) \ {x}]
      BY <3>2, <3>3
    <3> HIDE DEF Good
    <3> QED BY <3>1, <3>5, <3>6, <3>7, <1>7
  <2> QED BY <2>1, <2>2
<1> QED BY <1>3, <1>10, <1>11

Agree(d, f, C) == \A x \in C : d[x] = f[x]

LEMMA PartsSame ==
  ASSUME NEW D, IsFiniteSet(D), NEW C \in SUBSET D, NEW f, NEW d, NEW g, NEW h,
         Parts(g, f, SUBSET D), Parts(h, d, SUBSET C), Agree(d, f, C)
  PROVE  \A T \in SUBSET C : h[T] = g[T]
<1> DEFINE Bad == {T \in SUBSET C : h[T] # g[T]}
<1>1. SUFFICES ASSUME Bad # {} PROVE FALSE
  OBVIOUS
<1>2. IsFiniteSet(C)
  BY FS_Subset
<1>3. PICK T \in Bad : \A U \in SUBSET T : U # T => U \notin Bad
  <2> HIDE DEF Bad
  <2>1. Bad \in SUBSET SUBSET C
    BY DEF Bad
  <2> QED BY <1>1, <1>2, <2>1, SmallestSet
<1>4. T \in SUBSET C /\ h[T] # g[T] /\ \A U \in SUBSET T : U # T => h[U] = g[U]
  BY <1>3
<1> HIDE DEF Bad
<1>5. T \in SUBSET D
  BY <1>4
<1>6. g[T] = IF T = {} THEN 0 ELSE f[OneOf(T)] + g[T \ {OneOf(T)}]
  BY <1>5 DEF Parts
<1>7. h[T] = IF T = {} THEN 0 ELSE d[OneOf(T)] + h[T \ {OneOf(T)}]
  BY <1>4 DEF Parts
<1>8. T # {}
  BY <1>4, <1>6, <1>7
<1> DEFINE c == OneOf(T)
<1>9. c \in T
  BY <1>8 DEF OneOf
<1> HIDE DEF c
<1>10. d[c] = f[c] /\ h[T \ {c}] = g[T \ {c}]
  BY <1>4, <1>9 DEF Agree
<1>11. g[T] = f[c] + g[T \ {c}] /\ h[T] = d[c] + h[T \ {c}]
  BY <1>6, <1>7, <1>8 DEF c
<1> QED BY <1>4, <1>10, <1>11

LEMMA SumIs ==
  ASSUME NEW D, IsFiniteSet(D), NEW f, DOMAIN f = D
  PROVE  \E g : Parts(g, f, SUBSET D) /\ SumOf(f) = g[D]
<1> DEFINE g == CHOOSE h : Parts(h, f, SUBSET D)
<1>1. SumOf(f) = g[D]
  BY DEF SumOf, Parts, OneOf
<1>2. UpTo(D, Cardinality(D)) = SUBSET D
  BY FS_Subset DEF UpTo
<1>3. \E h : Parts(h, f, SUBSET D)
  <2>1. Cardinality(D) \in Nat
    BY FS_CardinalityType
  <2>2. \E h : Parts(h, f, UpTo(D, Cardinality(D)))
    BY <2>1, PartsOf
  <2> QED BY <2>2, <1>2
<1>4. Parts(g, f, SUBSET D)
  BY <1>3
<1> QED BY <1>1, <1>4

LEMMA SumPart ==
  ASSUME NEW D, IsFiniteSet(D), NEW C \in SUBSET D, NEW f, NEW g, Parts(g, f, SUBSET D)
  PROVE  SumOf([x \in C |-> f[x]]) = g[C]
<1> DEFINE d == [x \in C |-> f[x]]
<1>1. IsFiniteSet(C)
  BY FS_Subset
<1>2. DOMAIN d = C /\ Agree(d, f, C)
  BY DEF Agree
<1> HIDE DEF d
<1>3. PICK h : Parts(h, d, SUBSET C) /\ SumOf(d) = h[C]
  BY <1>1, <1>2, SumIs
<1>4. Agree(d, f, C)
  BY <1>2
<1>5. \A T \in SUBSET C : h[T] = g[T]
  BY <1>3, <1>4, PartsSame
<1> QED BY <1>3, <1>5 DEF d

LEMMA SumOfNone ==
  ASSUME NEW f, DOMAIN f = {}
  PROVE  SumOf(f) = 0
<1>1. IsFiniteSet({})
  BY FS_EmptySet
<1>2. PICK g : Parts(g, f, SUBSET {}) /\ SumOf(f) = g[{}]
  BY <1>1, SumIs
<1> QED BY <1>2 DEF Parts

LEMMA SumOut ==
  ASSUME NEW D, IsFiniteSet(D), NEW f \in [D -> Int]
  PROVE  /\ SumOf(f) \in Int
         /\ \A x \in D : SumOf(f) = f[x] + SumOf([y \in D \ {x} |-> f[y]])
<1>1. PICK g : Parts(g, f, SUBSET D) /\ SumOf(f) = g[D]
  BY SumIs
<1>2. SumOf(f) \in Int /\ \A x \in D : SumOf(f) = f[x] + g[D \ {x}]
  BY <1>1, PartsOrder
<1>3. ASSUME NEW x \in D PROVE SumOf([y \in D \ {x} |-> f[y]]) = g[D \ {x}]
  BY <1>1, SumPart
<1> QED BY <1>2, <1>3

\* The sum over a part of the arguments.
Over(f, S) == SumOf([x \in S |-> f[x]])

LEMMA OverIs ==
  ASSUME NEW D, IsFiniteSet(D), NEW f \in [D -> Int]
  PROVE  /\ Over(f, {}) = 0 /\ Over(f, D) = SumOf(f) /\ SumOf(f) \in Int
         /\ \A T \in SUBSET D : /\ IsFiniteSet(T) /\ Over(f, T) \in Int
                                /\ \A x \in D \ T : Over(f, T \cup {x}) = f[x] + Over(f, T)
<1>1. Over(f, {}) = 0
  <2> DEFINE g == [x \in {} |-> f[x]]
  <2>1. DOMAIN g = {}
    OBVIOUS
  <2> HIDE DEF g
  <2>2. SumOf(g) = 0
    BY <2>1, SumOfNone
  <2> QED BY <2>2 DEF Over, g
<1>2. Over(f, D) = SumOf(f)
  <2>1. f = [x \in D |-> f[x]]
    OBVIOUS
  <2> QED BY <2>1, Zenon DEF Over
<1>3. ASSUME NEW T \in SUBSET D PROVE IsFiniteSet(T) /\ Over(f, T) \in Int
  <2>1. IsFiniteSet(T)
    BY FS_Subset
  <2> DEFINE g == [x \in T |-> f[x]]
  <2>2. g \in [T -> Int]
    OBVIOUS
  <2> HIDE DEF g
  <2>3. SumOf(g) \in Int
    BY <2>1, <2>2, SumOut
  <2> QED BY <2>1, <2>3 DEF Over, g
<1>4. ASSUME NEW T \in SUBSET D, NEW x \in D \ T
      PROVE  Over(f, T \cup {x}) = f[x] + Over(f, T)
  <2> DEFINE U == T \cup {x}
             g == [y \in U |-> f[y]]
  <2>1. IsFiniteSet(U)
    BY FS_Subset
  <2>2. g \in [U -> Int] /\ x \in U /\ U \ {x} = T /\ g[x] = f[x]
    OBVIOUS
  <2>3. [y \in T |-> g[y]] = [y \in T |-> f[y]]
    OBVIOUS
  <2> HIDE DEF g, U
  <2>4. SumOf(g) = g[x] + SumOf([y \in U \ {x} |-> g[y]])
    BY <2>1, <2>2, SumOut
  <2>5. SumOf(g) = f[x] + Over(f, T)
    BY <2>2, <2>3, <2>4, Zenon DEF Over
  <2> QED BY <2>5 DEF Over, g, U
<1>5. SumOf(f) \in Int
  BY SumOut
<1> QED BY <1>1, <1>2, <1>3, <1>4, <1>5

\* A sum of natural numbers is one, and no less than each of them.
LEMMA SumOfNat ==
  ASSUME NEW D, IsFiniteSet(D), NEW f \in [D -> Nat]
  PROVE  SumOf(f) \in Nat /\ \A x \in D : f[x] <= SumOf(f)
<1> DEFINE G == {T \in SUBSET D : Over(f, T) \in Nat /\ \A x \in T : f[x] <= Over(f, T)}
<1>1. f \in [D -> Int]
  OBVIOUS
<1>2. /\ Over(f, {}) = 0 /\ Over(f, D) = SumOf(f)
      /\ \A T \in SUBSET D : \A x \in D \ T : Over(f, T \cup {x}) = f[x] + Over(f, T)
  BY <1>1, OverIs
<1>3. {} \in G
  BY <1>2
<1>4. ASSUME NEW T \in SUBSET D, NEW x \in D \ T, T \in G PROVE T \cup {x} \in G
  <2>1. Over(f, T) \in Nat /\ f[x] \in Nat /\ \A y \in T : f[y] \in Nat /\ f[y] <= Over(f, T)
    BY <1>4
  <2>2. Over(f, T \cup {x}) = f[x] + Over(f, T)
    BY <1>2
  <2>3. \A y \in T \cup {x} : f[y] <= Over(f, T \cup {x})
    BY <2>1, <2>2
  <2> QED BY <2>1, <2>2, <2>3
<1> HIDE DEF G
<1>5. D \in G
  BY <1>3, <1>4, SetInduction
<1> QED BY <1>2, <1>5 DEF G

LEMMA SumPlus ==
  ASSUME NEW D, IsFiniteSet(D), NEW f \in [D -> Int], NEW g \in [D -> Int], NEW h \in [D -> Int],
         \A x \in D : h[x] = f[x] + g[x]
  PROVE  SumOf(h) = SumOf(f) + SumOf(g)
<1> DEFINE G == {T \in SUBSET D : Over(h, T) = Over(f, T) + Over(g, T)}
<1>1. /\ Over(f, {}) = 0 /\ Over(f, D) = SumOf(f)
      /\ \A T \in SUBSET D : Over(f, T) \in Int
      /\ \A T \in SUBSET D : \A x \in D \ T : Over(f, T \cup {x}) = f[x] + Over(f, T)
  BY OverIs
<1>2. /\ Over(g, {}) = 0 /\ Over(g, D) = SumOf(g)
      /\ \A T \in SUBSET D : Over(g, T) \in Int
      /\ \A T \in SUBSET D : \A x \in D \ T : Over(g, T \cup {x}) = g[x] + Over(g, T)
  BY OverIs
<1>3. /\ Over(h, {}) = 0 /\ Over(h, D) = SumOf(h)
      /\ \A T \in SUBSET D : Over(h, T) \in Int
      /\ \A T \in SUBSET D : \A x \in D \ T : Over(h, T \cup {x}) = h[x] + Over(h, T)
  BY OverIs
<1>4. {} \in G
  BY <1>1, <1>2, <1>3
<1>5. ASSUME NEW T \in SUBSET D, NEW x \in D \ T, T \in G PROVE T \cup {x} \in G
  <2>1. /\ Over(h, T) = Over(f, T) + Over(g, T) /\ h[x] = f[x] + g[x]
        /\ f[x] \in Int /\ g[x] \in Int /\ Over(f, T) \in Int /\ Over(g, T) \in Int
    BY <1>1, <1>2, <1>5
  <2>2. /\ Over(h, T \cup {x}) = h[x] + Over(h, T) /\ Over(f, T \cup {x}) = f[x] + Over(f, T)
        /\ Over(g, T \cup {x}) = g[x] + Over(g, T)
    BY <1>1, <1>2, <1>3
  <2>3. Over(h, T \cup {x}) = Over(f, T \cup {x}) + Over(g, T \cup {x})
    BY <2>1, <2>2
  <2> QED BY <2>3
<1> HIDE DEF G
<1>6. D \in G
  BY <1>4, <1>5, SetInduction
<1> QED BY <1>1, <1>2, <1>3, <1>6 DEF G

\* What is zero outside a part is summed up in that part.
LEMMA SumPartOf ==
  ASSUME NEW D, IsFiniteSet(D), NEW f \in [D -> Int], NEW C \in SUBSET D,
         \A x \in D \ C : f[x] = 0
  PROVE  SumOf(f) = Over(f, C)
<1> DEFINE G == {T \in SUBSET D : Over(f, T) = Over(f, T \cap C)}
<1>1. /\ Over(f, {}) = 0 /\ Over(f, D) = SumOf(f)
      /\ \A T \in SUBSET D : Over(f, T) \in Int
      /\ \A T \in SUBSET D : \A x \in D \ T : Over(f, T \cup {x}) = f[x] + Over(f, T)
  BY OverIs
<1>2. {} \in G
  OBVIOUS
<1>3. ASSUME NEW T \in SUBSET D, NEW x \in D \ T, T \in G PROVE T \cup {x} \in G
  <2>1. /\ Over(f, T \cup {x}) = f[x] + Over(f, T) /\ Over(f, T) = Over(f, T \cap C)
        /\ Over(f, T) \in Int
    BY <1>1, <1>3
  <2>2. CASE x \in C
    <3>1. (T \cup {x}) \cap C = (T \cap C) \cup {x} /\ T \cap C \in SUBSET D /\ x \in D \ (T \cap C)
      BY <2>2
    <3>2. Over(f, (T \cap C) \cup {x}) = f[x] + Over(f, T \cap C)
      BY <1>1, <3>1
    <3>3. Over(f, T \cup {x}) = Over(f, (T \cup {x}) \cap C)
      BY <2>1, <3>1, <3>2
    <3> QED BY <3>3
  <2>3. CASE x \notin C
    <3>1. (T \cup {x}) \cap C = T \cap C /\ f[x] = 0
      BY <2>3
    <3>2. Over(f, T \cup {x}) = Over(f, T)
      BY <2>1, <3>1
    <3>3. Over(f, T \cup {x}) = Over(f, (T \cup {x}) \cap C)
      BY <2>1, <3>1, <3>2, Zenon
    <3> QED BY <3>3
  <2> QED BY <2>2, <2>3
<1> HIDE DEF G
<1>4. D \in G
  BY <1>2, <1>3, SetInduction
<1>5. D \cap C = C
  OBVIOUS
<1> QED BY <1>1, <1>4, <1>5 DEF G

LEMMA SumOfZeros ==
  ASSUME NEW D, IsFiniteSet(D), NEW f, f = [x \in D |-> 0]
  PROVE  SumOf(f) = 0
<1>1. f \in [D -> Int] /\ {} \in SUBSET D /\ \A x \in D : f[x] = 0
  OBVIOUS
<1>2. SumOf(f) = Over(f, {})
  BY <1>1, SumPartOf
<1> QED BY <1>1, <1>2, OverIs

\* What is zero but for one argument.
LEMMA SumOfOne ==
  ASSUME NEW D, IsFiniteSet(D), NEW f \in [D -> Int], NEW x \in D,
         \A y \in D \ {x} : f[y] = 0
  PROVE  SumOf(f) = f[x]
<1>1. {x} \in SUBSET D /\ {} \in SUBSET D /\ {} \cup {x} = {x} /\ x \in D \ {}
  OBVIOUS
<1>2. SumOf(f) = Over(f, {x})
  BY <1>1, SumPartOf
<1>3. Over(f, {} \cup {x}) = f[x] + Over(f, {}) /\ Over(f, {}) = 0
  BY <1>1, OverIs
<1>4. f[x] \in Int
  OBVIOUS
<1> QED BY <1>1, <1>2, <1>3, <1>4

LEMMA SumOfOnes ==
  ASSUME NEW D, IsFiniteSet(D), NEW f, f = [x \in D |-> 1]
  PROVE  SumOf(f) = Cardinality(D)
<1> DEFINE G == {T \in SUBSET D : Over(f, T) = Cardinality(T)}
<1>1. f \in [D -> Int] /\ \A x \in D : f[x] = 1
  OBVIOUS
<1>2. /\ Over(f, {}) = 0 /\ Over(f, D) = SumOf(f)
      /\ \A T \in SUBSET D : Over(f, T) \in Int
      /\ \A T \in SUBSET D : \A x \in D \ T : Over(f, T \cup {x}) = f[x] + Over(f, T)
  BY <1>1, OverIs
<1>3. {} \in G
  BY <1>2, FS_EmptySet
<1>4. ASSUME NEW T \in SUBSET D, NEW x \in D \ T, T \in G PROVE T \cup {x} \in G
  <2>1. Over(f, T \cup {x}) = 1 + Cardinality(T)
    BY <1>1, <1>2, <1>4
  <2>2. IsFiniteSet(T)
    BY FS_Subset
  <2>3. Cardinality(T \cup {x}) = Cardinality(T) + 1 /\ Cardinality(T) \in Nat
    BY <2>2, FS_AddElement, FS_CardinalityType
  <2>4. Over(f, T \cup {x}) = Cardinality(T \cup {x})
    BY <2>1, <2>3
  <2> QED BY <2>4
<1> HIDE DEF G
<1>5. D \in G
  BY <1>3, <1>4, SetInduction
<1> QED BY <1>2, <1>5 DEF G

\* Rows first or columns first.
Column(m, D, y) == SumOf([x \in D |-> m[x][y]])
Grid(m, D, E) == m \in [D -> [E -> Int]]
AcrossIs(r, m, D) == r \in [D -> Int] /\ \A x \in D : r[x] = SumOf(m[x])
DownIs(c, m, D, E) == c \in [E -> Int] /\ \A y \in E : c[y] = Column(m, D, y)

LEMMA SumSwap ==
  ASSUME NEW D, IsFiniteSet(D), NEW E, IsFiniteSet(E), NEW m, Grid(m, D, E),
         NEW r, AcrossIs(r, m, D), NEW c, DownIs(c, m, D, E)
  PROVE  SumOf(r) = SumOf(c)
<1>0. /\ m \in [D -> [E -> Int]]
      /\ r \in [D -> Int] /\ \A x \in D : r[x] = SumOf(m[x])
      /\ c \in [E -> Int] /\ \A y \in E : c[y] = Column(m, D, y)
  BY DEF Grid, AcrossIs, DownIs
<1> DEFINE col(T) == [y \in E |-> SumOf([x \in T |-> m[x][y]])]
           G == {T \in SUBSET D : Over(r, T) = SumOf(col(T))}
<1>1. /\ Over(r, {}) = 0 /\ Over(r, D) = SumOf(r)
      /\ \A T \in SUBSET D : Over(r, T) \in Int
      /\ \A T \in SUBSET D : \A x \in D \ T : Over(r, T \cup {x}) = r[x] + Over(r, T)
  BY <1>0, OverIs
<1>2. ASSUME NEW y \in E
      PROVE  /\ SumOf([x \in {} |-> m[x][y]]) = 0
             /\ \A T \in SUBSET D : /\ SumOf([x \in T |-> m[x][y]]) \in Int
                                    /\ \A z \in D \ T : SumOf([x \in T \cup {z} |-> m[x][y]])
                                                  = m[z][y] + SumOf([x \in T |-> m[x][y]])
  <2> DEFINE f == [x \in D |-> m[x][y]]
  <2>1. f \in [D -> Int]
    BY <1>0
  <2>2. \A T \in SUBSET D : [x \in T |-> m[x][y]] = [x \in T |-> f[x]]
    OBVIOUS
  <2>3. \A z \in D : f[z] = m[z][y]
    OBVIOUS
  <2> HIDE DEF f
  <2>4. /\ Over(f, {}) = 0
        /\ \A T \in SUBSET D : /\ Over(f, T) \in Int
                               /\ \A z \in D \ T : Over(f, T \cup {z}) = f[z] + Over(f, T)
    BY <2>1, OverIs
  <2>5. \A T \in SUBSET D : SumOf([x \in T |-> m[x][y]]) = Over(f, T)
    BY <2>2, Zenon DEF Over
  <2>6. \A T \in SUBSET D : \A z \in D \ T : T \cup {z} \in SUBSET D
    OBVIOUS
  <2>7. {} \in SUBSET D
    OBVIOUS
  <2>8. SumOf([x \in {} |-> m[x][y]]) = 0
    BY <2>4, <2>5, <2>7, Zenon
  <2>9. ASSUME NEW T \in SUBSET D
        PROVE  /\ SumOf([x \in T |-> m[x][y]]) \in Int
               /\ \A z \in D \ T : SumOf([x \in T \cup {z} |-> m[x][y]])
                                     = m[z][y] + SumOf([x \in T |-> m[x][y]])
    <3>1. SumOf([x \in T |-> m[x][y]]) \in Int
      BY <2>4, <2>5, Zenon
    <3>2. ASSUME NEW z \in D \ T
          PROVE  SumOf([x \in T \cup {z} |-> m[x][y]]) = m[z][y] + SumOf([x \in T |-> m[x][y]])
      <4>1. SumOf([x \in T \cup {z} |-> m[x][y]]) = Over(f, T \cup {z})
        BY <2>5, <2>6, Zenon
      <4>2. Over(f, T \cup {z}) = f[z] + Over(f, T)
        BY <2>4, Zenon
      <4>3. f[z] = m[z][y]
        BY <2>3
      <4> QED BY <4>1, <4>2, <4>3, <2>5, Zenon
    <3> QED BY <3>1, <3>2
  <2> QED BY <2>8, <2>9
<1> DEFINE part(T, y) == SumOf([x \in T |-> m[x][y]])
<1>3. /\ \A y \in E : part({}, y) = 0
      /\ \A y \in E : \A T \in SUBSET D : /\ part(T, y) \in Int
                       /\ \A z \in D \ T : part(T \cup {z}, y) = m[z][y] + part(T, y)
  BY <1>2
<1>4. \A T : col(T) = [y \in E |-> part(T, y)]
  OBVIOUS
<1> HIDE DEF part, col
<1>5. {} \in G
  <2>1. col({}) = [y \in E |-> 0]
    BY <1>3, <1>4
  <2>2. SumOf(col({})) = 0
    BY <2>1, SumOfZeros
  <2> QED BY <1>1, <2>2
<1>6. ASSUME NEW T \in SUBSET D, NEW z \in D \ T, T \in G PROVE T \cup {z} \in G
  <2>1. col(T \cup {z}) \in [E -> Int] /\ col(T) \in [E -> Int] /\ m[z] \in [E -> Int]
    <3>1. T \cup {z} \in SUBSET D
      OBVIOUS
    <3>2. \A y \in E : part(T \cup {z}, y) \in Int /\ part(T, y) \in Int
      BY <1>3, <3>1
    <3> QED BY <1>0, <1>4, <3>2
  <2>2. \A y \in E : col(T \cup {z})[y] = m[z][y] + col(T)[y]
    BY <1>3, <1>4
  <2>3. SumOf(col(T \cup {z})) = SumOf(m[z]) + SumOf(col(T))
    <3> DEFINE p == col(T \cup {z})
               q == col(T)
               k == m[z]
    <3>1. p \in [E -> Int] /\ q \in [E -> Int] /\ k \in [E -> Int]
          /\ \A y \in E : p[y] = k[y] + q[y]
      BY <2>1, <2>2
    <3> HIDE DEF p, q, k
    <3>2. SumOf(p) = SumOf(k) + SumOf(q)
      BY <3>1, SumPlus
    <3> QED BY <3>2 DEF p, q, k
  <2>4. Over(r, T \cup {z}) = r[z] + Over(r, T) /\ r[z] = SumOf(m[z]) /\ Over(r, T) = SumOf(col(T))
    BY <1>0, <1>1, <1>6
  <2>5. Over(r, T \cup {z}) = SumOf(col(T \cup {z}))
    BY <2>3, <2>4
  <2> QED BY <2>5
<1> HIDE DEF G
<1>7. D \in G
  BY <1>5, <1>6, SetInduction
<1>8. col(D) = c
  <2>1. \A y \in E : c[y] = part(D, y)
    BY <1>0 DEF part, Column
  <2> QED BY <1>0, <1>4, <2>1
<1> QED BY <1>1, <1>7, <1>8 DEF G

\* The sum of the sums of the parts that have one key each.
OfKey(D, k, y) == {z \in D : k[z] = y}

LEMMA SumByKey ==
  ASSUME NEW D, IsFiniteSet(D), NEW E, IsFiniteSet(E), NEW f \in [D -> Int],
         NEW k \in [D -> E], NEW c \in [E -> Int],
         \A y \in E : c[y] = Over(f, OfKey(D, k, y))
  PROVE  SumOf(f) = SumOf(c)
<1> DEFINE m == [x \in D |-> [y \in E |-> IF k[x] = y THEN f[x] ELSE 0]]
<1>1. m \in [D -> [E -> Int]]
  OBVIOUS
<1>2. ASSUME NEW x \in D PROVE f[x] = SumOf(m[x])
  <2> DEFINE r == m[x]
  <2>1. r \in [E -> Int] /\ k[x] \in E /\ r[k[x]] = f[x] /\ \A y \in E \ {k[x]} : r[y] = 0
    OBVIOUS
  <2> HIDE DEF r, m
  <2>2. SumOf(r) = r[k[x]]
    BY <2>1, SumOfOne
  <2> QED BY <2>1, <2>2 DEF r
<1>3. ASSUME NEW y \in E PROVE c[y] = Column(m, D, y)
  <2> DEFINE g == [x \in D |-> m[x][y]]
             C == {z \in D : k[z] = y}
  <2>1. g \in [D -> Int] /\ C \in SUBSET D /\ \A x \in D \ C : g[x] = 0
    OBVIOUS
  <2>2. [x \in C |-> g[x]] = [x \in C |-> f[x]]
    OBVIOUS
  <2>3. c[y] = SumOf([x \in C |-> f[x]])
    BY DEF Over, OfKey
  <2> HIDE DEF g, C, m
  <2>4. SumOf(g) = Over(g, C)
    BY <2>1, SumPartOf
  <2>5. SumOf(g) = c[y]
    BY <2>2, <2>3, <2>4, Zenon DEF Over
  <2> QED BY <2>5 DEF g, Column
<1> HIDE DEF m
<1>4. Grid(m, D, E)
  BY <1>1 DEF Grid
<1>5. AcrossIs(f, m, D)
  BY <1>2 DEF AcrossIs
<1>6. DownIs(c, m, D, E)
  BY <1>3 DEF DownIs
<1> QED BY <1>4, <1>5, <1>6, SumSwap

\* Other names for the arguments.
LEMMA SumMoved ==
  ASSUME NEW C, IsFiniteSet(C), NEW D, NEW f \in [D -> Int], NEW b \in [C -> D],
         \A x, y \in C : b[x] = b[y] => x = y, \A y \in D : \E x \in C : b[x] = y
  PROVE  IsFiniteSet(D) /\ SumOf([x \in C |-> f[b[x]]]) = SumOf(f)
<1> DEFINE g == [x \in C |-> f[b[x]]]
<1>1. b \in Surjection(C, D)
  BY DEF Surjection
<1>2. IsFiniteSet(D)
  BY <1>1, FS_Surjection
<1>3. g \in [C -> Int]
  OBVIOUS
<1>4. ASSUME NEW y \in D PROVE f[y] = Over(g, OfKey(C, b, y))
  <2> DEFINE T == {z \in C : b[z] = y}
             h == [x \in T |-> g[x]]
  <2>1. PICK x \in C : b[x] = y
    OBVIOUS
  <2>2. T = {x} /\ x \in T
    BY <2>1
  <2>3. IsFiniteSet(T)
    BY FS_Subset
  <2>4. h \in [T -> Int] /\ h[x] = f[y] /\ \A z \in T \ {x} : h[z] = 0
    BY <2>1, <2>2
  <2> HIDE DEF h, T, g
  <2>5. SumOf(h) = h[x]
    BY <2>2, <2>3, <2>4, SumOfOne
  <2> QED BY <2>4, <2>5 DEF h, T, Over, OfKey
<1> HIDE DEF g
<1>5. SumOf(g) = SumOf(f)
  BY <1>2, <1>3, <1>4, SumByKey
<1> QED BY <1>2, <1>5 DEF g

-----------------------------------------------------------------------------
(* The values of a set, listed.                                            *)

LEMMA EnumeratedIs ==
  ASSUME NEW S, IsFiniteSet(S)
  PROVE  /\ Enumerated(S) \in Seq(S) /\ Len(Enumerated(S)) = Cardinality(S)
         /\ Entries(Enumerated(S)) = S /\ Distinct(Enumerated(S))
<1> DEFINE N == Cardinality(S)
           s == Enumerated(S)
<1>1. N \in Nat /\ ExistsBijection(1..N, S)
  BY FS_CardinalityType
<1>2. PICK b \in Bijection(1..N, S) : TRUE
  BY <1>1 DEF ExistsBijection
<1>3. b \in [1..N -> S] /\ \A i, j \in 1..N : b[i] = b[j] => i = j
  BY <1>2 DEF Bijection, Injection, IsInjective
<1>4. s \in [1..N -> S] /\ \A i, j \in 1..N : s[i] = s[j] => i = j
  BY <1>3 DEF Enumerated
<1> HIDE DEF s
<1>5. s \in Seq(S) /\ DOMAIN s = 1..N /\ Len(s) = N
  <2> HIDE DEF N
  <2> QED BY <1>1, <1>4
<1>6. Distinct(s)
  BY <1>4, <1>5 DEF Distinct
<1>7. IsFiniteSet(1..N) /\ Cardinality(1..N) = N
  BY <1>1, FS_Interval
<1>8. s \in Injection(1..N, S)
  BY <1>4 DEF Injection, IsInjective
<1>9. s \in Surjection(1..N, S)
  BY <1>7, <1>8, FS_Injection
<1>10. Entries(s) = S
  BY <1>4, <1>5, <1>9 DEF Entries, Surjection
<1> QED BY <1>5, <1>6, <1>10 DEF s

\* A comparison of values that sorts.
Compares(S, up) ==
  \A x, y, z \in S :
    /\ <<x, y>> \in up => <<y, x>> \notin up
    /\ <<x, z>> \in up => <<x, y>> \in up \/ <<y, z>> \in up

LEMMA SortedSetIs ==
  ASSUME NEW S, IsFiniteSet(S), NEW up, Compares(S, up)
  PROVE  /\ SortedSet(S, up) \in Seq(S) /\ Len(SortedSet(S, up)) = Cardinality(S)
         /\ Entries(SortedSet(S, up)) = S /\ Distinct(SortedSet(S, up))
         /\ \A k, l \in DOMAIN SortedSet(S, up) :
              k < l => <<SortedSet(S, up)[l], SortedSet(S, up)[k]>> \notin up
<1> DEFINE s == Enumerated(S)
           before == {p \in (DOMAIN s) \X (DOMAIN s) : <<s[p[1]], s[p[2]]>> \in up}
           t == Ordered(s, before)
<1>1. s \in Seq(S) /\ Len(s) = Cardinality(S) /\ Entries(s) = S /\ Distinct(s)
  BY EnumeratedIs
<1>2. SortedSet(S, up) = t
  BY DEF SortedSet
<1> HIDE DEF s, t
<1>3. ASSUME NEW i \in DOMAIN s, NEW j \in DOMAIN s
      PROVE  <<i, j>> \in before <=> <<s[i], s[j]>> \in up
  <2> HIDE DEF before
  <2>1. <<i, j>> \in (DOMAIN s) \X (DOMAIN s) /\ <<i, j>>[1] = i /\ <<i, j>>[2] = j
    OBVIOUS
  <2> QED BY <2>1, Zenon DEF before
<1> USE DEF t
<1> HIDE DEF before
<1>4. \A i \in DOMAIN s : s[i] \in S
  BY <1>1
<1>5. Sorts(s, before)
  BY <1>3, <1>4 DEF Sorts, Compares
<1>6. /\ t \in Seq(S) /\ Len(t) = Len(s) /\ Entries(t) = Entries(s)
      /\ Distinct(s) => Distinct(t)
      /\ Follows(s, t, before)
  BY <1>1, <1>5, OrderedIs
<1> HIDE DEF t
<1>7. \A k, l \in DOMAIN t : k < l => <<t[l], t[k]>> \notin up
  BY <1>3, <1>6 DEF Follows
<1> QED BY <1>1, <1>2, <1>6, <1>7

-----------------------------------------------------------------------------
(* Loops over a list.                                                      *)

\* What a loop of N turns has after each of them: a before the first, and g tells of
\* each turn what it makes of what the turns before left.
Loop(f, a, g, N) == f = [n \in 0..N |-> IF n = 0 THEN a ELSE g[n][f[n - 1]]]

LEMMA UpToInduction ==
  ASSUME NEW N \in Nat, NEW G, 0 \in G, \A n \in 1..N : n - 1 \in G => n \in G
  PROVE  \A n \in 0..N : n \in G
<1> DEFINE Bad == (0..N) \ G
<1> SUFFICES ASSUME Bad # {} PROVE FALSE
  OBVIOUS
<1>1. Bad \in SUBSET Nat
  OBVIOUS
<1>2. PICK k \in Bad : \A y \in Bad : k <= y
  <2> HIDE DEF Bad
  <2> QED BY <1>1, LeastOf
<1>3. k \in 1..N /\ k \notin G
  OBVIOUS
<1>4. k - 1 \notin Bad
  BY <1>2, <1>3
<1>5. k - 1 \in G
  BY <1>3, <1>4
<1> QED BY <1>3, <1>5

LEMMA LoopExists ==
  ASSUME NEW N \in Nat, NEW a, NEW g
  PROVE  \E f : Loop(f, a, g, N)
<1> DEFINE G == {k \in 0..N : \E f : Loop(f, a, g, k)}
<1>1. 0 \in G
  <2> DEFINE f == [n \in 0..0 |-> a]
  <2>1. Loop(f, a, g, 0)
    BY DEF Loop
  <2> QED BY <2>1
<1>2. ASSUME NEW k \in 1..N, k - 1 \in G PROVE k \in G
  <2>1. PICK h : Loop(h, a, g, k - 1)
    BY <1>2
  <2> DEFINE f == [n \in 0..k |-> IF n = k THEN g[k][h[k - 1]] ELSE h[n]]
             Turn(e, n) == IF n = 0 THEN a ELSE g[n][e[n - 1]]
  <2>2. \A n \in 0..k : f[n] = Turn(f, n)
    <3> SUFFICES ASSUME NEW n \in 0..k PROVE f[n] = Turn(f, n)
      OBVIOUS
    <3>1. CASE n = k
      <4>1. k - 1 \in 0..k /\ k - 1 # k /\ k \in 0..k /\ k # 0
        OBVIOUS
      <4>2. f[n - 1] = h[k - 1]
        BY <4>1, <3>1
      <4> QED BY <3>1, <4>1, <4>2
    <3>2. CASE n # k
      <4>1. n \in 0..(k - 1)
        BY <3>2
      <4>2. f[n] = h[n]
        BY <3>2
      <4>3. n # 0 => n - 1 \in 0..k /\ n - 1 # k
        BY <4>1
      <4>4. n # 0 => f[n - 1] = h[n - 1]
        BY <4>3
      <4>5. h[n] = Turn(h, n)
        BY <2>1, <4>1 DEF Loop
      <4> QED BY <4>2, <4>4, <4>5
    <3> QED BY <3>1, <3>2
  <2>3. Loop(f, a, g, k)
    <3>1. f = [n \in 0..k |-> f[n]]
      OBVIOUS
    <3> HIDE DEF f
    <3> QED BY <3>1, <2>2 DEF Loop
  <2> QED BY <2>3
<1>3. N \in G
  <2> HIDE DEF G
  <2>1. \A n \in 0..N : n \in G
    BY <1>1, <1>2, UpToInduction
  <2> QED BY <2>1
<1> QED BY <1>3

\* What the turns keep holds of all that the loop goes through.
LEMMA LoopKeeps ==
  ASSUME NEW N \in Nat, NEW a, NEW g, NEW f, Loop(f, a, g, N), NEW D, a \in D,
         \A n \in 1..N : \A x \in D : g[n][x] \in D
  PROVE  \A n \in 0..N : f[n] \in D
<1> DEFINE G == {n \in 0..N : f[n] \in D}
<1>1. 0 \in G
  BY DEF Loop
<1>2. ASSUME NEW n \in 1..N, n - 1 \in G PROVE n \in G
  <2>1. n \in 0..N /\ n # 0
    OBVIOUS
  <2>2. f[n] = g[n][f[n - 1]]
    BY <2>1 DEF Loop
  <2> QED BY <1>2, <2>1, <2>2
<1> HIDE DEF G
<1>3. \A n \in 0..N : n \in G
  BY <1>1, <1>2, UpToInduction
<1> QED BY <1>3 DEF G

\* What a function makes of finitely many arguments.
LEMMA ImageFinite ==
  ASSUME NEW S, IsFiniteSet(S), NEW f, DOMAIN f = S
  PROVE  IsFiniteSet({f[x] : x \in S})
<1> DEFINE T == {f[x] : x \in S}
           h == [x \in S |-> f[x]]
<1>1. h \in Surjection(S, T)
  BY DEF Surjection
<1> HIDE DEF h, T
<1>2. IsFiniteSet(T)
  BY <1>1, FS_Surjection
<1> QED BY <1>2 DEF T
=============================================================================
