-------------------------- MODULE WindowChartProofs --------------------------
(***************************************************************************)
(* The charts of the window, for every value of the constants of four of   *)
(* its components.  Topology: the map has every call of the answer once.   *)
(* TxTable: what is listed is what the filter, the cut and the order say.  *)
(* Gauges: strip, grid and charts tell of one stream.  ProfileView: hits,  *)
(* counters and search are of the text and the run that are shown.         *)
(***************************************************************************)
EXTENDS MCWindowCharts, ListingProofs

\* A step of the window is of the component the behaviour is of.
LEMMA Turns ==
  ASSUME Next
  PROVE  /\ which' = which
         /\ which = "Topology" => TopologyC!Next
         /\ which = "TxTable" => TxTableC!Next
         /\ which = "Gauges" => GaugesC!Next
         /\ which = "ProfileView" => ProfileViewC!Next
BY DEF Next, ChartViewTurn, GaugesTurn, ActiveViewsTurn, TopologyTurn, TraceTreesTurn,
       TxTableTurn, ProfileViewTurn

-----------------------------------------------------------------------------
(* The map of calls: rows merged to edges.                                 *)

TpRowSet == [from : TpObjs, to : TpObjs, type : TpKinds, count : Nat, errors : Nat, elapsed : Nat]

LEMMA TpListsAre ==
  /\ \A f : TopologyC!SumOf(f) = SumOf(f)
  /\ \A S, up : TopologyC!SortedSet(S, up) = SortedSet(S, up)
<1>1. ASSUME NEW f PROVE TopologyC!SumOf(f) = SumOf(f)
  BY DEF TopologyC!SumOf, SumOf
<1>2. \A S : TopologyC!Cardinality(S) = Cardinality(S)
  BY DEF TopologyC!Cardinality, Cardinality
<1>3. ASSUME NEW S PROVE TopologyC!Enumerated(S) = Enumerated(S)
  BY <1>2 DEF TopologyC!Enumerated, Enumerated
<1>4. ASSUME NEW s, NEW up PROVE TopologyC!Ordered(s, up) = Ordered(s, up)
  <2> DEFINE Upto(i) == {j \in DOMAIN s : <<j, i>> \in up \/ (<<i, j>> \notin up /\ j <= i)}
             there == [i \in DOMAIN s |-> TopologyC!Cardinality(Upto(i))]
             place == [i \in DOMAIN s |-> Cardinality(Upto(i))]
  <2>1. there = place
    <3> HIDE DEF Upto
    <3> QED BY <1>2
  <2>2. TopologyC!Ordered(s, up) = [k \in DOMAIN s |-> s[CHOOSE i \in DOMAIN s : there[i] = k]]
    BY DEF TopologyC!Ordered
  <2>3. Ordered(s, up) = [k \in DOMAIN s |-> s[CHOOSE i \in DOMAIN s : place[i] = k]]
    BY DEF Ordered
  <2> HIDE DEF there, place
  <2> QED BY <2>1, <2>2, <2>3
<1>5. ASSUME NEW S, NEW up PROVE TopologyC!SortedSet(S, up) = SortedSet(S, up)
  <2> DEFINE s == Enumerated(S)
             upto == {p \in (DOMAIN s) \X (DOMAIN s) : <<s[p[1]], s[p[2]]>> \in up}
  <2>1. TopologyC!SortedSet(S, up) = TopologyC!Ordered(s, upto)
    BY <1>3, Zenon DEF TopologyC!SortedSet
  <2>2. SortedSet(S, up) = Ordered(s, upto)
    BY Zenon DEF SortedSet
  <2> HIDE DEF s, upto
  <2> QED BY <1>4, <2>1, <2>2
<1> QED BY <1>1, <1>5

\* The calls of a set of edges, and the objects at their ends.
TpCount(E) == SumOf([e \in E |-> e.count])
TpEnds(E) == UNION {{e.from, e.to} : e \in E}

\* One edge for each pair, none of an object with itself.
TpApart(E) ==
  /\ E \in SUBSET TpRowSet /\ IsFiniteSet(E)
  /\ \A e \in E : e.from # e.to
  /\ \A d, e \in E : d.from = e.from /\ d.to = e.to => d = e

LEMMA TpCountAdds ==
  ASSUME NEW E \in SUBSET TpRowSet, IsFiniteSet(E), NEW x \in TpRowSet \ E
  PROVE  /\ TpCount(E) \in Int /\ TpCount(E \cup {x}) = x.count + TpCount(E)
<1> DEFINE D == E \cup {x}
           f == [e \in D |-> e.count]
<1>1. IsFiniteSet(D)
  BY FS_AddElement
<1>2. f \in [D -> Int]
  BY DEF TpRowSet
<1>3. /\ Over(f, E) \in Int /\ Over(f, E \cup {x}) = f[x] + Over(f, E)
  <2> HIDE DEF f
  <2> QED BY <1>1, <1>2, OverIs, SMT
<1>4. [e \in E |-> f[e]] = [e \in E |-> e.count] /\ [e \in D |-> f[e]] = [e \in D |-> e.count]
  OBVIOUS
<1>5. f[x] = x.count
  OBVIOUS
<1> QED BY <1>3, <1>4, <1>5 DEF Over, TpCount

LEMMA TpMergeIs ==
  ASSUME NEW e \in TpRowSet, NEW r \in TpRowSet
  PROVE  /\ TopologyC!Merge(e, r) \in TpRowSet
         /\ TopologyC!Merge(e, r).from = e.from /\ TopologyC!Merge(e, r).to = e.to
         /\ TopologyC!Merge(e, r).count = e.count + r.count
<1> DEFINE sum == e.count + r.count
           kind == IF 2 * r.count > sum THEN r.type ELSE e.type
<1>1. sum \in Nat /\ e.errors + r.errors \in Nat /\ e.elapsed + r.elapsed \in Nat
  BY DEF TpRowSet
<1>2. kind \in TpKinds
  BY DEF TpRowSet
<1>3. TopologyC!Merge(e, r) = [e EXCEPT !.count = sum, !.errors = @ + r.errors,
                                        !.elapsed = @ + r.elapsed, !.type = kind]
  BY DEF TopologyC!Merge
<1> HIDE DEF kind, sum
<1>4. TopologyC!Merge(e, r) \in TpRowSet
  BY <1>1, <1>2, <1>3 DEF TpRowSet
<1>5. /\ TopologyC!Merge(e, r).from = e.from /\ TopologyC!Merge(e, r).to = e.to
      /\ TopologyC!Merge(e, r).count = sum
  BY <1>3 DEF TpRowSet
<1> QED BY <1>4, <1>5 DEF sum

LEMMA TpWithRowIs ==
  ASSUME NEW E, TpApart(E), NEW r \in TpRowSet
  PROVE  /\ TpApart(TopologyC!WithRow(E, r))
         /\ TpEnds(TopologyC!WithRow(E, r))
              = TpEnds(E) \cup (IF r.from = r.to THEN {} ELSE {r.from, r.to})
         /\ TpCount(TopologyC!WithRow(E, r)) = TpCount(E) + TopologyC!Calls(r)
         /\ TpCount(E) \in Int
<1> DEFINE old == {e \in E : e.from = r.from /\ e.to = r.to}
           W == TopologyC!WithRow(E, r)
<1>0. TpCount(E) \in Int
  <2> DEFINE f == [e \in E |-> e.count]
  <2>1. f \in [E -> Int] /\ IsFiniteSet(E)
    BY DEF TpApart, TpRowSet
  <2>2. SumOf(f) \in Int
    <3> HIDE DEF f
    <3> QED BY <2>1, OverIs, SMT
  <2> QED BY <2>2 DEF TpCount
<1>1. CASE r.from = r.to
  <2>1. W = E
    BY <1>1 DEF TopologyC!WithRow
  <2> QED BY <1>0, <1>1, <2>1 DEF TopologyC!Calls
<1>2. CASE r.from # r.to /\ old = {}
  <2>1. W = E \cup {r}
    BY <1>2 DEF TopologyC!WithRow
  <2>2. r \notin E
    BY <1>2
  <2>3. TpApart(W)
    <3>1. IsFiniteSet(W)
      BY <2>1, FS_AddElement DEF TpApart
    <3> QED BY <1>2, <2>1, <3>1 DEF TpApart
  <2>4. TpCount(W) = r.count + TpCount(E)
    BY <2>1, <2>2, TpCountAdds DEF TpApart
  <2>5. TpEnds(W) = TpEnds(E) \cup {r.from, r.to}
    BY <2>1 DEF TpEnds
  <2>6. TopologyC!Calls(r) = r.count /\ r.count \in Nat
    BY <1>2 DEF TopologyC!Calls, TpRowSet
  <2> QED BY <1>0, <1>2, <2>3, <2>4, <2>5, <2>6
<1>3. CASE r.from # r.to /\ old # {}
  <2> DEFINE o == CHOOSE e \in old : TRUE
             m == TopologyC!Merge(o, r)
             R == E \ {o}
  <2>1. o \in old
    BY <1>3
  <2>2. o \in E /\ o \in TpRowSet /\ o.from = r.from /\ o.to = r.to
    BY <2>1 DEF TpApart
  <2>3. old = {o}
    <3>1. \A e \in old : e = o
      BY <2>2 DEF TpApart
    <3> QED BY <2>1, <3>1
  <2>4. W = R \cup {m}
    <3>1. W = (E \ old) \cup {m}
      BY <1>3 DEF TopologyC!WithRow
    <3> QED BY <2>3, <3>1
  <2> HIDE DEF o
  <2>5. m \in TpRowSet /\ m.from = r.from /\ m.to = r.to /\ m.count = o.count + r.count
    BY <2>2, TpMergeIs
  <2> HIDE DEF m, old
  <2>6. R \in SUBSET TpRowSet /\ IsFiniteSet(R)
    BY FS_RemoveElement DEF TpApart
  <2>7. \A e \in R : ~(e.from = r.from /\ e.to = r.to)
    BY <2>2 DEF TpApart
  <2>8. m \notin R /\ o \notin R /\ E = R \cup {o}
    BY <2>2, <2>5, <2>7
  <2>9. TpApart(W)
    <3>1. IsFiniteSet(W)
      BY <2>4, <2>6, FS_AddElement
    <3>2. W \in SUBSET TpRowSet
      BY <2>4, <2>5, <2>6
    <3>3. \A e \in W : e.from # e.to
      BY <1>3, <2>4, <2>5 DEF TpApart
    <3>4. ASSUME NEW d \in W, NEW e \in W, d.from = e.from /\ d.to = e.to PROVE d = e
      BY <2>4, <2>5, <2>7, <3>4 DEF TpApart
    <3> QED BY <3>1, <3>2, <3>3, <3>4 DEF TpApart
  <2>10. TpCount(W) = m.count + TpCount(R) /\ TpCount(E) = o.count + TpCount(R) /\ TpCount(R) \in Int
    <3>1. TpCount(R \cup {m}) = m.count + TpCount(R) /\ TpCount(R) \in Int
      BY <2>5, <2>6, <2>8, TpCountAdds
    <3>2. TpCount(R \cup {o}) = o.count + TpCount(R)
      BY <2>2, <2>6, <2>8, TpCountAdds
    <3> QED BY <2>4, <2>8, <3>1, <3>2
  <2>11. TpCount(W) = TpCount(E) + r.count
    <3>1. o.count \in Nat /\ r.count \in Nat
      BY <2>2 DEF TpRowSet
    <3> QED BY <2>5, <2>10, <3>1
  <2>12. TpEnds(W) = TpEnds(E) \cup {r.from, r.to}
    <3>1. TpEnds(W) = TpEnds(R) \cup {r.from, r.to}
      BY <2>4, <2>5 DEF TpEnds
    <3>2. TpEnds(E) = TpEnds(R) \cup {r.from, r.to}
      BY <2>2, <2>8 DEF TpEnds
    <3> QED BY <3>1, <3>2
  <2>13. TopologyC!Calls(r) = r.count
    BY <1>3 DEF TopologyC!Calls
  <2> QED BY <1>0, <1>3, <2>9, <2>11, <2>12, <2>13
<1> QED BY <1>1, <1>2, <1>3

\* The edges after each row of a list.
TpEdgeLoop(u, list) ==
  u = [n \in 0..Len(list) |-> IF n = 0 THEN {} ELSE TopologyC!WithRow(u[n - 1], list[n])]
TpApartSets == {E \in SUBSET TpRowSet : TpApart(E)}

LEMMA TpLoopIs ==
  ASSUME NEW list \in Seq(TpRowSet)
  PROVE  \E u : TpEdgeLoop(u, list)
<1> DEFINE N == Len(list)
           g == [n \in 1..N |-> [E \in TpApartSets |-> TopologyC!WithRow(E, list[n])]]
<1>1. N \in Nat /\ \A n \in 1..N : list[n] \in TpRowSet
  OBVIOUS
<1>2. {} \in TpApartSets
  BY FS_EmptySet DEF TpApartSets, TpApart
<1>3. ASSUME NEW n \in 1..N, NEW E \in TpApartSets
      PROVE  g[n][E] = TopologyC!WithRow(E, list[n]) /\ g[n][E] \in TpApartSets
  <2>1. g[n][E] = TopologyC!WithRow(E, list[n])
    BY <1>3
  <2>2. TpApart(TopologyC!WithRow(E, list[n]))
    BY <1>1, <1>3, TpWithRowIs DEF TpApartSets
  <2> QED BY <2>1, <2>2 DEF TpApartSets, TpApart
<1> HIDE DEF g, N
<1>4. PICK f : Loop(f, {}, g, N)
  BY <1>1, LoopExists
<1>5. \A n \in 0..N : f[n] \in TpApartSets
  BY <1>1, <1>2, <1>3, <1>4, LoopKeeps
<1>6. \A n \in 1..N : g[n][f[n - 1]] = TopologyC!WithRow(f[n - 1], list[n])
  <2> SUFFICES ASSUME NEW n \in 1..N
               PROVE  g[n][f[n - 1]] = TopologyC!WithRow(f[n - 1], list[n])
    OBVIOUS
  <2>1. n - 1 \in 0..N
    BY <1>1
  <2> QED BY <1>3, <1>5, <2>1
<1>7. f = [n \in 0..N |-> IF n = 0 THEN {} ELSE TopologyC!WithRow(f[n - 1], list[n])]
  <2>1. \A n \in 0..N : n # 0 => n \in 1..N
    BY <1>1
  <2>2. f = [n \in 0..N |-> IF n = 0 THEN {} ELSE g[n][f[n - 1]]]
    BY <1>4 DEF Loop
  <2>3. \A n \in 0..N : (IF n = 0 THEN {} ELSE g[n][f[n - 1]])
                      = (IF n = 0 THEN {} ELSE TopologyC!WithRow(f[n - 1], list[n]))
    BY <1>6, <2>1
  <2> QED BY <2>2, <2>3
<1> QED BY <1>7 DEF TpEdgeLoop, N

\* The objects of the rows of a list that are between two of them.
TpRowEnds(list, n) ==
  UNION {IF list[i].from = list[i].to THEN {} ELSE {list[i].from, list[i].to} : i \in 1..n}

LEMMA TpEdgesAre ==
  ASSUME NEW list \in Seq(TpRowSet)
  PROVE  LET E == TopologyC!Edges(list)
         IN  /\ TpApart(E) /\ TpEnds(E) = TpRowEnds(list, Len(list))
             /\ TpCount(E) = TopologyC!TotalOf(list)
<1> DEFINE N == Len(list)
           u == CHOOSE u : TpEdgeLoop(u, list)
           c == [i \in DOMAIN list |-> TopologyC!Calls(list[i])]
           G == {n \in 0..N : /\ TpApart(u[n]) /\ TpEnds(u[n]) = TpRowEnds(list, n)
                              /\ TpCount(u[n]) = Over(c, 1..n)}
<1>1. N \in Nat /\ DOMAIN list = 1..N /\ \A n \in 1..N : list[n] \in TpRowSet
  OBVIOUS
<1>2. TpEdgeLoop(u, list)
  BY TpLoopIs
<1>3. TopologyC!Edges(list) = u[N]
  BY DEF TopologyC!Edges, TpEdgeLoop
<1> HIDE DEF u
<1>4. u[0] = {} /\ \A n \in 1..N : u[n] = TopologyC!WithRow(u[n - 1], list[n])
  <2>1. 0 \in 0..N /\ \A n \in 1..N : n \in 0..N /\ n # 0
    BY <1>1
  <2> QED BY <1>2, <2>1 DEF TpEdgeLoop
<1>5. c \in [1..N -> Int] /\ IsFiniteSet(1..N)
  <2>1. \A n \in 1..N : TopologyC!Calls(list[n]) \in Int
    BY <1>1 DEF TopologyC!Calls, TpRowSet
  <2> QED BY <1>1, <2>1, FS_Interval
<1>6. /\ Over(c, {}) = 0 /\ Over(c, 1..N) = SumOf(c)
      /\ \A T \in SUBSET (1..N) : /\ Over(c, T) \in Int
                                  /\ \A x \in (1..N) \ T : Over(c, T \cup {x}) = c[x] + Over(c, T)
  <2> DEFINE D == 1..N
  <2> HIDE DEF c, D
  <2>1. c \in [D -> Int] /\ IsFiniteSet(D)
    BY <1>5 DEF D
  <2>2. /\ Over(c, {}) = 0 /\ Over(c, D) = SumOf(c)
        /\ \A T \in SUBSET D : /\ Over(c, T) \in Int
                              /\ \A x \in D \ T : Over(c, T \cup {x}) = c[x] + Over(c, T)
    BY <2>1, OverIs, SMT
  <2> QED BY <2>2 DEF D
<1>7. 0 \in G
  <2>1. TpApart({})
    BY FS_EmptySet DEF TpApart
  <2>2. 1..0 = {}
    OBVIOUS
  <2>3. TpEnds({}) = {} /\ TpRowEnds(list, 0) = {}
    BY <2>2 DEF TpEnds, TpRowEnds
  <2>4. TpCount({}) = 0
    <3> DEFINE f == [e \in {} |-> e.count]
    <3>1. DOMAIN f = {}
      OBVIOUS
    <3>2. SumOf(f) = 0
      <4> HIDE DEF f
      <4> QED BY <3>1, SumOfNone
    <3> QED BY <3>2 DEF TpCount
  <2>5. 0 \in 0..N
    BY <1>1
  <2>6. Over(c, 1..0) = 0
    BY <1>6, <2>2, Zenon
  <2> HIDE DEF c
  <2> QED BY <1>4, <2>1, <2>3, <2>4, <2>5, <2>6, Zenon
<1>8. ASSUME NEW n \in 1..N, n - 1 \in G PROVE n \in G
  <2> DEFINE r == list[n]
             E == u[n - 1]
  <2>1. r \in TpRowSet /\ TpApart(E) /\ u[n] = TopologyC!WithRow(E, r)
    BY <1>1, <1>4, <1>8
  <2>2. TpEnds(E) = TpRowEnds(list, n - 1) /\ TpCount(E) = Over(c, 1..(n - 1))
    BY <1>8
  <2> HIDE DEF E
  <2>3. /\ TpApart(u[n])
        /\ TpEnds(u[n]) = TpEnds(E) \cup (IF r.from = r.to THEN {} ELSE {r.from, r.to})
        /\ TpCount(u[n]) = TpCount(E) + TopologyC!Calls(r)
    BY <2>1, TpWithRowIs
  <2>4. 1..n = (1..(n - 1)) \cup {n} /\ n \notin 1..(n - 1) /\ 1..(n - 1) \in SUBSET (1..N)
    BY <1>1
  <2>5. TpRowEnds(list, n)
          = TpRowEnds(list, n - 1) \cup (IF r.from = r.to THEN {} ELSE {r.from, r.to})
    BY <2>4 DEF TpRowEnds
  <2>6. c[n] = TopologyC!Calls(r)
    BY <1>1
  <2>7. Over(c, 1..n) = c[n] + Over(c, 1..(n - 1)) /\ Over(c, 1..(n - 1)) \in Int /\ c[n] \in Int
    <3> HIDE DEF c
    <3> QED BY <1>5, <1>6, <2>4
  <2>8. TpCount(u[n]) = Over(c, 1..n)
    <3> HIDE DEF c, r
    <3> QED BY <2>2, <2>3, <2>6, <2>7
  <2>9. TpEnds(u[n]) = TpRowEnds(list, n)
    BY <2>2, <2>3, <2>5
  <2>10. n \in 0..N
    BY <1>1
  <2> HIDE DEF c
  <2> QED BY <2>3, <2>8, <2>9, <2>10, Zenon
<1>9. N \in G
  <2> HIDE DEF G
  <2>1. \A n \in 0..N : n \in G
    BY <1>1, <1>7, <1>8, UpToInduction
  <2> QED BY <1>1, <2>1
<1>10. TopologyC!TotalOf(list) = SumOf(c)
  BY TpListsAre DEF TopologyC!TotalOf
<1> HIDE DEF c
<1> QED BY <1>3, <1>6, <1>9, <1>10

-----------------------------------------------------------------------------
(* The map of calls: what its nodes sum up.                                *)

TpAt(h, E) == {e \in E : h \in {e.from, e.to}}
TpCalls(h, E) == SumOf([e \in TpAt(h, E) |-> e.count])

LEMMA TpEndsFinite ==
  ASSUME NEW E, TpApart(E)
  PROVE  IsFiniteSet(TpEnds(E))
<1> DEFINE f == [e \in E |-> e.from]
           g == [e \in E |-> e.to]
<1>1. IsFiniteSet({f[e] : e \in E}) /\ IsFiniteSet({g[e] : e \in E})
  <2>1. DOMAIN f = E /\ DOMAIN g = E /\ IsFiniteSet(E)
    BY DEF TpApart
  <2> HIDE DEF f, g
  <2> QED BY <2>1, ImageFinite
<1>2. IsFiniteSet({f[e] : e \in E} \cup {g[e] : e \in E})
  BY <1>1, FS_Union
<1>3. TpEnds(E) = {f[e] : e \in E} \cup {g[e] : e \in E}
  BY DEF TpEnds
<1> QED BY <1>2, <1>3

\* Every edge counts at both its ends.
LEMMA TpBothEnds ==
  ASSUME NEW E, TpApart(E)
  PROVE  /\ \A h \in TpEnds(E) : TpCalls(h, E) \in Int
         /\ SumOf([h \in TpEnds(E) |-> TpCalls(h, E)]) = 2 * TpCount(E)
<1> DEFINE H == TpEnds(E)
           m == [h \in H |-> [e \in E |-> IF h \in {e.from, e.to} THEN e.count ELSE 0]]
           f == [e \in E |-> e.count]
           r == [h \in H |-> TpCalls(h, E)]
           c == [e \in E |-> e.count + e.count]
<1>1. IsFiniteSet(H) /\ IsFiniteSet(E)
  BY TpEndsFinite DEF TpApart
<1>2. \A e \in E : e.count \in Nat /\ e.from # e.to /\ e.from \in H /\ e.to \in H
  BY DEF TpApart, TpEnds, TpRowSet
<1>3. f \in [E -> Int] /\ c \in [E -> Int] /\ \A e \in E : c[e] = f[e] + f[e]
  BY <1>2
<1>4. Grid(m, H, E)
  BY <1>2 DEF Grid
<1>5. ASSUME NEW h \in H PROVE TpCalls(h, E) \in Int /\ TpCalls(h, E) = SumOf(m[h])
  <2> DEFINE d == [e \in E |-> IF h \in {e.from, e.to} THEN e.count ELSE 0]
             C == TpAt(h, E)
  <2>1. m[h] = d
    OBVIOUS
  <2>2. d \in [E -> Int] /\ C \in SUBSET E /\ \A e \in E \ C : d[e] = 0
    BY <1>2 DEF TpAt
  <2>3. [e \in C |-> d[e]] = [e \in C |-> e.count]
    BY DEF TpAt
  <2>4. TpCalls(h, E) = Over(d, C)
    BY <2>3 DEF TpCalls, Over
  <2> HIDE DEF d, C
  <2>5. SumOf(d) = Over(d, C)
    BY <1>1, <2>2, SumPartOf
  <2>6. SumOf(d) \in Int
    BY <1>1, <2>2, OverIs, SMT
  <2> HIDE DEF m
  <2> QED BY <2>1, <2>4, <2>5, <2>6
<1>6. AcrossIs(r, m, H)
  <2>1. r \in [H -> Int] /\ \A h \in H : r[h] = TpCalls(h, E)
    BY <1>5
  <2> HIDE DEF r, m
  <2> QED BY <1>5, <2>1 DEF AcrossIs
<1>7. ASSUME NEW e \in E PROVE c[e] = Column(m, H, e)
  <2> DEFINE d == [h \in H |-> IF h \in {e.from, e.to} THEN e.count ELSE 0]
             C == {e.from, e.to}
  <2>1. [h \in H |-> m[h][e]] = d
    BY <1>7
  <2>2. d \in [H -> Int] /\ C \in SUBSET H /\ \A h \in H \ C : d[h] = 0
    BY <1>2, <1>7
  <2>3. d[e.from] = e.count /\ d[e.to] = e.count /\ e.count \in Nat
    BY <1>2, <1>7
  <2>4. e.from \in H /\ e.to \in H /\ e.from # e.to
    BY <1>2, <1>7
  <2> HIDE DEF d, H
  <2>5. SumOf(d) = Over(d, C)
    <3> HIDE DEF C
    <3> QED BY <1>1, <2>2, SumPartOf
  <2>6. Over(d, {}) = 0 /\ \A T \in SUBSET H : \A x \in H \ T : Over(d, T \cup {x}) = d[x] + Over(d, T)
    BY <1>1, <2>2, OverIs, SMT
  <2>7. Over(d, {e.from}) = d[e.from] + 0
    <3>1. {} \in SUBSET H /\ e.from \in H \ {} /\ {} \cup {e.from} = {e.from}
      BY <2>4
    <3> QED BY <2>6, <3>1
  <2>8. Over(d, C) = d[e.to] + Over(d, {e.from})
    <3>1. {e.from} \in SUBSET H /\ e.to \in H \ {e.from} /\ {e.from} \cup {e.to} = C
      BY <2>4
    <3> QED BY <2>6, <3>1
  <2>9. Column(m, H, e) = SumOf(d)
    BY <2>1 DEF Column
  <2>10. c[e] = e.count + e.count
    BY <1>7
  <2> HIDE DEF c, m
  <2> QED BY <2>3, <2>5, <2>7, <2>8, <2>9, <2>10
<1>8. DownIs(c, m, H, E)
  <2> HIDE DEF m, c
  <2> QED BY <1>3, <1>7 DEF DownIs
<1>9. SumOf(r) = SumOf(c)
  <2> HIDE DEF m, c, r, H
  <2> QED BY <1>1, <1>4, <1>6, <1>8, SumSwap
<1>10. SumOf(c) = SumOf(f) + SumOf(f) /\ SumOf(f) \in Int
  <2> HIDE DEF c, f
  <2>1. SumOf(f) \in Int
    BY <1>1, <1>3, OverIs, SMT
  <2> QED BY <1>1, <1>3, <2>1, SumPlus
<1>11. SumOf(f) = TpCount(E)
  BY DEF TpCount
<1>12. \A h \in TpEnds(E) : TpCalls(h, E) \in Int
  BY <1>5
<1> HIDE DEF c, f, r, m
<1>13. SumOf(r) = 2 * TpCount(E)
  BY <1>9, <1>10, <1>11
<1> QED BY <1>12, <1>13 DEF r

LEMMA TpNodeIs ==
  ASSUME NEW h, NEW E, NEW known
  PROVE  LET n == TopologyC!Node(h, E, known)
         IN  /\ n.hash = h /\ n.layer = TopologyC!LayerOf(h, known)
             /\ n.calls = TpCalls(h, E)
<1> DEFINE at == {e \in E : h \in {e.from, e.to}}
<1>1. TopologyC!SumOf([e \in at |-> e.count]) = TpCalls(h, E)
  BY TpListsAre DEF TpCalls, TpAt
<1>2. TopologyC!Node(h, E, known)
        = [hash |-> h, layer |-> TopologyC!LayerOf(h, known),
           calls |-> TopologyC!SumOf([e \in at |-> e.count]),
           errors |-> TopologyC!SumOf([e \in at |-> e.errors]),
           elapsed |-> TopologyC!SumOf([e \in at |-> e.elapsed])]
  BY DEF TopologyC!Node
<1> HIDE DEF at
<1> QED BY <1>1, <1>2

\* The nodes stand for the objects one to one, and their calls are those of both ends.
LEMMA TpNodesAre ==
  ASSUME NEW E, TpApart(E), NEW known
  PROVE  LET N == TopologyC!Nodes(E, known)
         IN  /\ IsFiniteSet(N) /\ {n.hash : n \in N} = TpEnds(E)
             /\ \A n \in N : n.calls \in Int /\ n.layer = TopologyC!LayerOf(n.hash, known)
             /\ \A a, b \in N : a.hash = b.hash => a = b
             /\ SumOf([n \in N |-> n.calls]) = 2 * TpCount(E)
<1> DEFINE N == TopologyC!Nodes(E, known)
           H == TpEnds(E)
           b == [h \in H |-> TopologyC!Node(h, E, known)]
           f == [n \in N |-> n.calls]
           r == [h \in H |-> TpCalls(h, E)]
<1>1. N = {b[h] : h \in H} /\ b \in [H -> N]
  BY DEF TopologyC!Nodes, TpEnds
<1>2. ASSUME NEW h \in H
      PROVE  /\ b[h].hash = h /\ b[h].layer = TopologyC!LayerOf(h, known)
             /\ b[h].calls = TpCalls(h, E) /\ TpCalls(h, E) \in Int
  <2>1. b[h] = TopologyC!Node(h, E, known)
    OBVIOUS
  <2> QED BY <2>1, TpNodeIs, TpBothEnds
<1>3. IsFiniteSet(H)
  BY TpEndsFinite
<1> HIDE DEF b, H, N
<1>4. /\ {n.hash : n \in N} = H
      /\ \A n \in N : n.calls \in Int /\ n.layer = TopologyC!LayerOf(n.hash, known)
      /\ \A a, c \in N : a.hash = c.hash => a = c
  BY <1>1, <1>2
<1>5. f \in [N -> Int] /\ \A h \in H : f[b[h]] = TpCalls(h, E)
  BY <1>1, <1>2, <1>4
<1>6. \A x, y \in H : b[x] = b[y] => x = y
  BY <1>2
<1>7. \A n \in N : \E h \in H : b[h] = n
  BY <1>1
<1>8. IsFiniteSet(N) /\ SumOf([h \in H |-> f[b[h]]]) = SumOf(f)
  <2> HIDE DEF f
  <2> QED BY <1>1, <1>3, <1>5, <1>6, <1>7, SumMoved, SMT
<1>9. [h \in H |-> f[b[h]]] = r
  BY <1>5
<1>10. SumOf(r) = 2 * TpCount(E)
  BY TpBothEnds DEF H
<1> HIDE DEF r
<1>11. SumOf(f) = 2 * TpCount(E)
  BY <1>8, <1>9, <1>10
<1> QED BY <1>4, <1>8, <1>11 DEF H, N

-----------------------------------------------------------------------------
(* The map of calls: what is drawn.                                        *)

TpLayers == {"inbound", "agent", "resource"}

LEMMA TpColumnIs ==
  ASSUME NEW E, TpApart(E), NEW known, NEW layer
  PROVE  LET N == TopologyC!Nodes(E, known)
             t == TopologyC!Column(layer, N)
         IN  Entries(t) = {n \in N : n.layer = layer} /\ Distinct(t)
<1> DEFINE N == TopologyC!Nodes(E, known)
           S == {n \in N : n.layer = layer}
           up == TopologyC!Busier(N)
<1>1. IsFiniteSet(S) /\ \A n \in S : n \in N /\ n.calls \in Int
  <2>1. IsFiniteSet(N) /\ \A n \in N : n.calls \in Int
    BY TpNodesAre
  <2>2. S \in SUBSET N
    OBVIOUS
  <2> HIDE DEF N, S
  <2> QED BY <2>1, <2>2, FS_Subset
<1>2. \A x, y \in N : <<x, y>> \in up <=> x.calls > y.calls
  BY DEF TopologyC!Busier
<1>3. TopologyC!Column(layer, N) = SortedSet(S, up)
  BY TpListsAre DEF TopologyC!Column
<1> HIDE DEF N, S, up
<1>4. Compares(S, up)
  <2> SUFFICES ASSUME NEW x \in S, NEW y \in S, NEW z \in S
               PROVE  /\ <<x, y>> \in up => <<y, x>> \notin up
                      /\ <<x, z>> \in up => <<x, y>> \in up \/ <<y, z>> \in up
    BY Zenon DEF Compares
  <2>1. x.calls \in Int /\ y.calls \in Int /\ z.calls \in Int /\ x \in N /\ y \in N /\ z \in N
    BY <1>1
  <2>2. /\ <<x, y>> \in up <=> x.calls > y.calls
        /\ <<y, x>> \in up <=> y.calls > x.calls
        /\ <<x, z>> \in up <=> x.calls > z.calls
        /\ <<y, z>> \in up <=> y.calls > z.calls
    BY <1>2, <2>1, Zenon
  <2> QED BY <2>1, <2>2
<1>5. Entries(SortedSet(S, up)) = S /\ Distinct(SortedSet(S, up))
  BY <1>1, <1>4, SortedSetIs
<1> QED BY <1>3, <1>5 DEF N, S

\* Each object of the rows stands in the map once, in a place of its own.
LEMMA TpDrawIs ==
  ASSUME NEW list \in Seq(TpRowSet), NEW known
  PROVE  LET D == TopologyC!Draw(list, known)
             N == TopologyC!Nodes(TopologyC!Edges(list), known)
         IN  /\ {box.node : box \in D} = N
             /\ \A a, b \in D : a # b => /\ a.node.hash # b.node.hash
                                         /\ a.node.layer = b.node.layer => a.place # b.place
<1> DEFINE D == TopologyC!Draw(list, known)
           E == TopologyC!Edges(list)
           N == TopologyC!Nodes(E, known)
           t(layer) == TopologyC!Column(layer, N)
<1>1. TpApart(E)
  BY TpEdgesAre
<1>2. D = UNION {TopologyC!Boxes(layer, N) : layer \in TpLayers}
  BY DEF TopologyC!Draw, TpLayers
<1> HIDE DEF E
<1>3. /\ \A n \in N : n.layer \in TpLayers
      /\ \A n, m \in N : n.hash = m.hash => n = m
  <2>1. \A h : TopologyC!LayerOf(h, known) \in TpLayers
    BY DEF TopologyC!LayerOf, TpLayers
  <2>2. /\ \A n \in N : n.layer = TopologyC!LayerOf(n.hash, known)
        /\ \A n, m \in N : n.hash = m.hash => n = m
    BY <1>1, TpNodesAre
  <2> HIDE DEF N
  <2> QED BY <2>1, <2>2
<1>4. \A layer \in TpLayers :
        Entries(t(layer)) = {n \in N : n.layer = layer} /\ Distinct(t(layer))
  BY <1>1, TpColumnIs
<1>5. \A layer : TopologyC!Boxes(layer, N)
                   = {[node |-> t(layer)[i], place |-> i] : i \in DOMAIN t(layer)}
  BY DEF TopologyC!Boxes
<1> HIDE DEF D, N
<1>6. ASSUME NEW box \in D
      PROVE  \E layer \in TpLayers : \E i \in DOMAIN t(layer) :
               /\ box = [node |-> t(layer)[i], place |-> i]
               /\ box.node = t(layer)[i] /\ box.place = i
               /\ box.node \in N /\ box.node.layer = layer
  <2>1. PICK layer \in TpLayers : box \in TopologyC!Boxes(layer, N)
    BY <1>2
  <2>2. PICK i \in DOMAIN t(layer) : box = [node |-> t(layer)[i], place |-> i]
    BY <1>5, <2>1
  <2>3. t(layer)[i] \in Entries(t(layer))
    BY <2>2 DEF Entries
  <2>4. t(layer)[i] \in N /\ t(layer)[i].layer = layer
    BY <1>4, <2>1, <2>3
  <2>5. box.node = t(layer)[i] /\ box.place = i
    BY <2>2
  <2> HIDE DEF t
  <2> QED BY <2>1, <2>2, <2>4, <2>5
<1>7. ASSUME NEW n \in N PROVE \E box \in D : box.node = n
  <2> DEFINE layer == n.layer
  <2>1. layer \in TpLayers /\ n \in Entries(t(layer))
    BY <1>3, <1>4
  <2>2. PICK i \in DOMAIN t(layer) : t(layer)[i] = n
    BY <2>1 DEF Entries
  <2>3. [node |-> t(layer)[i], place |-> i] \in D
    BY <1>2, <1>5, <2>1, <2>2
  <2> QED BY <2>2, <2>3
<1>8. ASSUME NEW a \in D, NEW b \in D, a.node = b.node PROVE a = b
  <2>1. PICK la \in TpLayers : \E i \in DOMAIN t(la) :
          a = [node |-> t(la)[i], place |-> i] /\ a.node = t(la)[i] /\ a.node.layer = la
    BY <1>6
  <2>2. PICK lb \in TpLayers : \E j \in DOMAIN t(lb) :
          b = [node |-> t(lb)[j], place |-> j] /\ b.node = t(lb)[j] /\ b.node.layer = lb
    BY <1>6
  <2>3. la = lb
    BY <1>8, <2>1, <2>2
  <2>4. PICK i \in DOMAIN t(la) : a = [node |-> t(la)[i], place |-> i] /\ a.node = t(la)[i]
    BY <2>1
  <2>5. PICK j \in DOMAIN t(la) : b = [node |-> t(la)[j], place |-> j] /\ b.node = t(la)[j]
    BY <2>2, <2>3
  <2> HIDE DEF t
  <2>6. i = j
    BY <1>4, <1>8, <2>4, <2>5 DEF Distinct
  <2> QED BY <2>4, <2>5, <2>6
<1>9. ASSUME NEW a \in D, NEW b \in D, a.node.layer = b.node.layer, a.place = b.place
      PROVE  a = b
  <2>1. PICK la \in TpLayers : \E i \in DOMAIN t(la) :
          a = [node |-> t(la)[i], place |-> i] /\ a.place = i /\ a.node.layer = la
    BY <1>6
  <2>2. PICK lb \in TpLayers : \E j \in DOMAIN t(lb) :
          b = [node |-> t(lb)[j], place |-> j] /\ b.place = j /\ b.node.layer = lb
    BY <1>6
  <2> QED BY <1>9, <2>1, <2>2
<1>10. {box.node : box \in D} = N
  BY <1>6, <1>7
<1>11. ASSUME NEW a \in D, NEW b \in D, a # b
       PROVE  a.node.hash # b.node.hash /\ (a.node.layer = b.node.layer => a.place # b.place)
  <2>1. a.node \in N /\ b.node \in N
    BY <1>10
  <2> QED BY <1>3, <1>8, <1>9, <1>11, <2>1
<1> QED BY <1>10, <1>11 DEF D, N, E

\* The map tells of what was answered last and of the agents there are now.
TpInv ==
  /\ tp_rows \in Seq(TpRowSet) /\ tp_open \in BOOLEAN /\ tp_error \in BOOLEAN
  /\ tp_open /\ ~tp_error => tp_layout = TopologyC!Draw(tp_rows, tp_agents)

LEMMA TpInvSays == TpInv => TopologyC!GraphTrue
<1> SUFFICES ASSUME TpInv, TopologyC!Visible PROVE TopologyC!GraphTrue
  BY DEF TopologyC!GraphTrue
<1> DEFINE E == TopologyC!Edges(tp_rows)
           N == TopologyC!Nodes(E, tp_agents)
           D == TopologyC!Draw(tp_rows, tp_agents)
<1>1. tp_layout = D /\ tp_rows \in Seq(TpRowSet)
  BY DEF TpInv, TopologyC!Visible
<1>2. /\ TopologyC!Drawn = N
      /\ \A a, b \in tp_layout : a # b => /\ a.node.hash # b.node.hash
                                          /\ a.node.layer = b.node.layer => a.place # b.place
  <2>1. /\ {box.node : box \in D} = N
        /\ \A a, b \in D : a # b => /\ a.node.hash # b.node.hash
                                    /\ a.node.layer = b.node.layer => a.place # b.place
    BY <1>1, TpDrawIs
  <2> HIDE DEF D, N
  <2> QED BY <1>1, <2>1 DEF TopologyC!Drawn
<1>3. /\ TpApart(E) /\ TpEnds(E) = TpRowEnds(tp_rows, Len(tp_rows))
      /\ TpCount(E) = TopologyC!TotalOf(tp_rows)
  BY <1>1, TpEdgesAre
<1> HIDE DEF E
<1>4. /\ {n.hash : n \in N} = TpEnds(E)
      /\ \A n \in N : n.layer = TopologyC!LayerOf(n.hash, tp_agents)
      /\ SumOf([n \in N |-> n.calls]) = 2 * TpCount(E)
  BY <1>3, TpNodesAre
<1> HIDE DEF N
<1>5. TpRowEnds(tp_rows, Len(tp_rows))
        = UNION {{r.from, r.to} : r \in {x \in TopologyC!Range(tp_rows) : x.from # x.to}}
  <2>1. DOMAIN tp_rows = 1..Len(tp_rows)
    BY <1>1
  <2>2. TopologyC!Range(tp_rows) = {tp_rows[i] : i \in 1..Len(tp_rows)}
    BY <2>1 DEF TopologyC!Range
  <2> QED BY <2>2 DEF TpRowEnds
<1>6. /\ TopologyC!SumOf([n \in N |-> n.calls]) = 2 * TopologyC!TotalOf(tp_rows)
      /\ TopologyC!SumOf([e \in E |-> e.count]) = TopologyC!TotalOf(tp_rows)
  BY <1>3, <1>4, TpListsAre DEF TpCount
<1>7. \A n \in N : n.layer = "agent" <=> n.hash \in tp_agents
  BY <1>4 DEF TopologyC!LayerOf
<1> QED BY <1>2, <1>3, <1>4, <1>5, <1>6, <1>7 DEF TopologyC!GraphTrue, E

LEMMA TpDrawsKeeps ==
  ASSUME NEW isOpen \in BOOLEAN, NEW list, NEW hidden \in BOOLEAN, NEW known,
         TopologyC!Draws(isOpen, list, hidden, known)
  PROVE  isOpen /\ ~hidden => tp_layout' = TopologyC!Draw(list, known)
BY DEF TopologyC!Draws

LEMMA TpNextKeeps ==
  ASSUME TpInv, TopologyC!Next
  PROVE  TpInv'
<1> USE DEF TpInv
<1>1. CASE TopologyC!Toggle
  <2>1. tp_open' \in BOOLEAN /\ UNCHANGED <<tp_rows, tp_error, tp_agents>>
    BY <1>1 DEF TopologyC!Toggle
  <2>2. TopologyC!Draws(tp_open', tp_rows, tp_error, tp_agents)
    BY <1>1 DEF TopologyC!Toggle
  <2>3. tp_open' /\ ~tp_error => tp_layout' = TopologyC!Draw(tp_rows, tp_agents)
    BY <2>1, <2>2, TpDrawsKeeps
  <2> QED BY <2>1, <2>3
<1>2. CASE TopologyC!Poll \/ TopologyC!Leave \/ TopologyC!LoadFails
  <2>1. UNCHANGED <<tp_open, tp_rows, tp_agents, tp_layout>>
    BY <1>2 DEF TopologyC!Poll, TopologyC!Leave, TopologyC!LoadFails
  <2>2. tp_error' = tp_error \/ tp_error' = TRUE
    BY <1>2 DEF TopologyC!Poll, TopologyC!Leave, TopologyC!LoadFails
  <2> QED BY <2>1, <2>2
<1>3. CASE \E list \in TpAnswers : TopologyC!RowsCome(list)
  <2>1. PICK list \in TpAnswers : TopologyC!RowsCome(list)
    BY <1>3
  <2>2. list \in Seq(TpRowSet)
    BY WindowChartsAssumption DEF TpRowSet
  <2>3. tp_rows' = list /\ tp_error' = FALSE /\ UNCHANGED <<tp_open, tp_agents>>
    BY <2>1 DEF TopologyC!RowsCome
  <2>4. TopologyC!Draws(tp_open, list, FALSE, tp_agents)
    BY <2>1 DEF TopologyC!RowsCome
  <2>5. tp_open => tp_layout' = TopologyC!Draw(list, tp_agents)
    BY <2>4, TpDrawsKeeps
  <2> QED BY <2>2, <2>3, <2>5
<1>4. CASE \E known \in TpAgentSets : TopologyC!AgentsChange(known)
  <2>1. PICK known \in TpAgentSets : TopologyC!AgentsChange(known)
    BY <1>4
  <2>2. tp_agents' = known /\ UNCHANGED <<tp_open, tp_rows, tp_error>>
    BY <2>1 DEF TopologyC!AgentsChange
  <2>3. TopologyC!Draws(tp_open, tp_rows, tp_error, known)
    BY <2>1 DEF TopologyC!AgentsChange
  <2>4. tp_open /\ ~tp_error => tp_layout' = TopologyC!Draw(tp_rows, known)
    BY <2>3, TpDrawsKeeps
  <2> QED BY <2>2, <2>4
<1>5. CASE \E box \in tp_layout : TopologyC!HandleMove(box) \/ TopologyC!HandleClick(box)
  BY <1>5 DEF TopologyC!HandleMove, TopologyC!HandleClick
<1> QED BY <1>1, <1>2, <1>3, <1>4, <1>5 DEF TopologyC!Next

LEMMA TopologyInit == Init => (which = "Topology" => TpInv)
<1> SUFFICES ASSUME Init, which = "Topology" PROVE TpInv
  OBVIOUS
<1>1. TopologyC!Init
  BY DEF Init
<1>2. tp_rows = <<>> /\ tp_open = FALSE /\ tp_error = FALSE
  BY <1>1 DEF TopologyC!Init
<1>3. tp_rows \in Seq(TpRowSet)
  BY <1>2, NoEntries
<1> QED BY <1>2, <1>3 DEF TpInv

LEMMA TopologyStep ==
  (which = "Topology" => TpInv) /\ [Next]_allVars => (which = "Topology" => TpInv)'
<1> SUFFICES ASSUME which = "Topology" => TpInv, [Next]_allVars
             PROVE  (which = "Topology" => TpInv)'
  OBVIOUS
<1>1. CASE Next
  <2> SUFFICES ASSUME which' = "Topology" PROVE TpInv'
    OBVIOUS
  <2>1. which = "Topology" /\ TopologyC!Next
    BY <1>1, Turns
  <2> QED BY <2>1, TpNextKeeps
<1>2. CASE UNCHANGED allVars
  BY <1>2 DEF allVars, TopologyVars, TpInv
<1> QED BY <1>1, <1>2

\* The map of calls, while it is seen, shows each object of the answer once, in a place
\* of its own, with all its calls, whatever is answered, in whatever order answers,
\* failures and changes of the agents come (topologyGraph.ts, TopologyPanel.tsx).
THEOREM EveryCallIsDrawn == Spec => []TopologyTrue
<1>1. (which = "Topology" => TpInv) => TopologyTrue
  BY TpInvSays DEF TopologyTrue
<1> QED BY TopologyInit, TopologyStep, <1>1, PTL DEF Spec

-----------------------------------------------------------------------------
(* The table of transactions: the rows that are kept and shown.            *)

LEMMA TxListsAre ==
  /\ \A f : TxTableC!SumOf(f) = SumOf(f)
  /\ \A S, up : TxTableC!SortedSet(S, up) = SortedSet(S, up)
  /\ \A s, K : TxTableC!Only(s, K) = Only(s, K)
  /\ \A s : TxTableC!Range(s) = Entries(s) /\ TxTableC!ToSet(s) = Entries(s)
  /\ \A S : TxTableC!Cardinality(S) = Cardinality(S)
<1>1. ASSUME NEW f PROVE TxTableC!SumOf(f) = SumOf(f)
  BY DEF TxTableC!SumOf, SumOf
<1>2. \A S : TxTableC!Cardinality(S) = Cardinality(S)
  BY DEF TxTableC!Cardinality, Cardinality
<1>3. ASSUME NEW S PROVE TxTableC!Enumerated(S) = Enumerated(S)
  BY <1>2 DEF TxTableC!Enumerated, Enumerated
<1>4. ASSUME NEW s, NEW up PROVE TxTableC!Ordered(s, up) = Ordered(s, up)
  <2> DEFINE Upto(i) == {j \in DOMAIN s : <<j, i>> \in up \/ (<<i, j>> \notin up /\ j <= i)}
             there == [i \in DOMAIN s |-> TxTableC!Cardinality(Upto(i))]
             place == [i \in DOMAIN s |-> Cardinality(Upto(i))]
  <2>1. there = place
    <3> HIDE DEF Upto
    <3> QED BY <1>2
  <2>2. TxTableC!Ordered(s, up) = [k \in DOMAIN s |-> s[CHOOSE i \in DOMAIN s : there[i] = k]]
    BY DEF TxTableC!Ordered
  <2>3. Ordered(s, up) = [k \in DOMAIN s |-> s[CHOOSE i \in DOMAIN s : place[i] = k]]
    BY DEF Ordered
  <2> HIDE DEF there, place
  <2> QED BY <2>1, <2>2, <2>3
<1>5. ASSUME NEW S, NEW up PROVE TxTableC!SortedSet(S, up) = SortedSet(S, up)
  <2> DEFINE s == Enumerated(S)
             upto == {p \in (DOMAIN s) \X (DOMAIN s) : <<s[p[1]], s[p[2]]>> \in up}
  <2>1. TxTableC!SortedSet(S, up) = TxTableC!Ordered(s, upto)
    BY <1>3, Zenon DEF TxTableC!SortedSet
  <2>2. SortedSet(S, up) = Ordered(s, upto)
    BY Zenon DEF SortedSet
  <2> HIDE DEF s, upto
  <2> QED BY <1>4, <2>1, <2>2
<1>6. ASSUME NEW s, NEW K PROVE TxTableC!Only(s, K) = Only(s, K)
  BY DEF TxTableC!Only, Only
<1>7. ASSUME NEW s PROVE TxTableC!Range(s) = Entries(s) /\ TxTableC!ToSet(s) = Entries(s)
  BY DEF TxTableC!Range, TxTableC!ToSet, Entries
<1> QED BY <1>1, <1>2, <1>5, <1>6, <1>7

LEMMA TxLeast ==
  ASSUME NEW a \in Int, NEW b \in Int
  PROVE  /\ TxTableC!Min({a, b}) = IF a <= b THEN a ELSE b
         /\ TxTableC!Max({a, b}) = IF a <= b THEN b ELSE a
<1> DEFINE m == IF a <= b THEN a ELSE b
           n == IF a <= b THEN b ELSE a
<1>1. /\ m \in {a, b} /\ \A y \in {a, b} : m <= y
      /\ n \in {a, b} /\ \A y \in {a, b} : n >= y
  OBVIOUS
<1>2. /\ \A x \in {a, b} : (\A y \in {a, b} : x <= y) => x = m
      /\ \A x \in {a, b} : (\A y \in {a, b} : x >= y) => x = n
  OBVIOUS
<1> QED BY <1>1, <1>2 DEF TxTableC!Min, TxTableC!Max

\* The slowest of a set, no more than the limit.
TxCut(B, R) ==
  /\ R \in SUBSET B /\ Cardinality(R) = TxTableC!Min({TxLimit, Cardinality(B)})
  /\ \A x \in B \ R, y \in R : x.elapsed <= y.elapsed

LEMMA TxTxsAre ==
  ASSUME NEW B \in SUBSET TxTxs
  PROVE  /\ IsFiniteSet(B) /\ Cardinality(B) \in Nat
         /\ \A x \in B : x.time \in Nat /\ x.elapsed \in Nat
BY WindowChartsAssumption, FS_Subset, FS_CardinalityType

LEMMA TxRowsAre ==
  ASSUME NEW xlogs \in SUBSET TxTxs, NEW hits
  PROVE  LET B == TxTableC!Base(xlogs, hits)
             P == TxTableC!PickTableRows(xlogs, hits)
         IN  B \in SUBSET TxTxs /\ P.matched = Cardinality(B) /\ TxCut(B, P.rows)
<1> DEFINE B == TxTableC!Base(xlogs, hits)
           up == {p \in B \X B : p[1].elapsed > p[2].elapsed}
           s == SortedSet(B, up)
           n == TxTableC!Min({TxLimit, Cardinality(B)})
           R == Entries(SubSeq(s, 1, n))
<1>1. B \in SUBSET TxTxs
  BY DEF TxTableC!Base
<1>2. /\ TxTableC!PickTableRows(xlogs, hits).matched = Cardinality(B)
      /\ TxTableC!PickTableRows(xlogs, hits).rows = R
  <2>1. TxTableC!FirstOf(B, up, TxLimit) = R
    BY TxListsAre DEF TxTableC!FirstOf
  <2>2. TxTableC!PickTableRows(xlogs, hits)
          = [matched |-> TxTableC!Cardinality(B), rows |-> TxTableC!FirstOf(B, up, TxLimit)]
    BY Zenon DEF TxTableC!PickTableRows
  <2> HIDE DEF B, up, R
  <2> QED BY <2>1, <2>2, TxListsAre
<1> HIDE DEF B
<1>3. /\ IsFiniteSet(B) /\ Cardinality(B) \in Nat
      /\ \A x \in B : x.time \in Nat /\ x.elapsed \in Nat
  BY <1>1, TxTxsAre
<1>4. Compares(B, up)
  <2> SUFFICES ASSUME NEW x \in B, NEW y \in B, NEW z \in B
               PROVE  /\ <<x, y>> \in up => <<y, x>> \notin up
                      /\ <<x, z>> \in up => <<x, y>> \in up \/ <<y, z>> \in up
    BY Zenon DEF Compares
  <2> QED BY <1>3
<1>5. /\ s \in Seq(B) /\ Len(s) = Cardinality(B) /\ Entries(s) = B /\ Distinct(s)
      /\ \A k, l \in DOMAIN s : k < l => <<s[l], s[k]>> \notin up
  <2> HIDE DEF up
  <2> QED BY <1>3, <1>4, SortedSetIs
<1>6. \A x, y \in B : <<x, y>> \notin up => x.elapsed <= y.elapsed
  BY <1>3
<1> HIDE DEF up, s
<1>7. n \in 0..Len(s) /\ n = IF TxLimit <= Cardinality(B) THEN TxLimit ELSE Cardinality(B)
  BY <1>3, <1>5, TxLeast, WindowChartsAssumption
<1> HIDE DEF n
<1>8. /\ SubSeq(s, 1, n) \in Seq(B) /\ Len(SubSeq(s, 1, n)) = n
      /\ \A i \in 1..n : SubSeq(s, 1, n)[i] = s[i]
      /\ DOMAIN SubSeq(s, 1, n) = 1..n /\ DOMAIN s = 1..Len(s)
  BY <1>5, <1>7
<1>9. R = {s[i] : i \in 1..n}
  BY <1>8 DEF Entries
<1>10. Cardinality(R) = n /\ R \in SUBSET B
  <2>1. Distinct(SubSeq(s, 1, n))
    <3>1. \A i \in 1..n : i \in DOMAIN s
      BY <1>5, <1>7, <1>8
    <3> QED BY <1>5, <1>8, <3>1 DEF Distinct
  <2>2. Cardinality(R) = n
    BY <1>8, <2>1, CountDistinct
  <2>3. R \in SUBSET B
    BY <1>5, <1>7, <1>8, <1>9
  <2> QED BY <2>2, <2>3
<1>11. ASSUME NEW x \in B \ R, NEW y \in R PROVE x.elapsed <= y.elapsed
  <2>1. PICK l \in DOMAIN s : s[l] = x
    BY <1>5 DEF Entries
  <2>2. PICK k \in 1..n : s[k] = y
    BY <1>9
  <2>3. l \notin 1..n
    BY <1>9, <2>1
  <2>4. k \in DOMAIN s /\ k < l
    BY <1>5, <1>7, <1>8, <2>1, <2>2, <2>3
  <2>5. <<x, y>> \notin up
    BY <1>5, <2>1, <2>2, <2>4
  <2> QED BY <1>6, <1>10, <2>5
<1> HIDE DEF R
<1> QED BY <1>1, <1>2, <1>10, <1>11 DEF TxCut, B, n

TxSorts == tx_sort.key \in {"time", "elapsed"}

LEMMA TxShownIs ==
  ASSUME tx_selectedXLogs \in SUBSET TxTxs, TxSorts
  PROVE  LET B == TxTableC!Base(tx_selectedXLogs, tx_searchHits)
         IN  TxCut(B, Entries(TxTableC!Shown)) /\ Len(TxTableC!Shown) = Cardinality(Entries(TxTableC!Shown))
<1> DEFINE B == TxTableC!Base(tx_selectedXLogs, tx_searchHits)
           R == TxTableC!PickTableRows(tx_selectedXLogs, tx_searchHits).rows
           up == {p \in R \X R : TxTableC!Before(p[1], p[2])}
           t == SortedSet(R, up)
           key == tx_sort.key
<1>1. B \in SUBSET TxTxs /\ TxCut(B, R)
  BY TxRowsAre
<1>2. TxTableC!Shown = t
  BY TxListsAre DEF TxTableC!Shown
<1> HIDE DEF B, R
<1>3. R \in SUBSET TxTxs
  BY <1>1 DEF TxCut
<1>4. /\ IsFiniteSet(R)
      /\ \A x \in R : x.time \in Nat /\ x[key] \in Nat
  <2>1. /\ IsFiniteSet(R) /\ \A x \in R : x.time \in Nat /\ x.elapsed \in Nat
    BY <1>3, TxTxsAre
  <2>2. CASE key = "time"
    BY <2>1, <2>2
  <2>3. CASE key = "elapsed"
    BY <2>1, <2>3
  <2> QED BY <2>2, <2>3 DEF TxSorts
<1>5. \A x, y \in R : <<x, y>> \in up <=>
        IF x[key] = y[key] THEN x.time > y.time
        ELSE IF tx_sort.dir = "asc" THEN x[key] < y[key] ELSE x[key] > y[key]
  BY DEF TxTableC!Before
<1> HIDE DEF up, key
<1>6. Compares(R, up)
  <2> SUFFICES ASSUME NEW x \in R, NEW y \in R, NEW z \in R
               PROVE  /\ <<x, y>> \in up => <<y, x>> \notin up
                      /\ <<x, z>> \in up => <<x, y>> \in up \/ <<y, z>> \in up
    BY Zenon DEF Compares
  <2> QED BY <1>4, <1>5
<1>7. Len(t) = Cardinality(R) /\ Entries(t) = R
  BY <1>4, <1>6, SortedSetIs
<1> HIDE DEF t
<1> QED BY <1>1, <1>2, <1>7 DEF B

\* What is said of the list that is shown.
LEMMA TxListIsTrue ==
  ASSUME tx_selectedXLogs \in SUBSET TxTxs, TxSorts
  PROVE  LET B == TxTableC!Base(tx_selectedXLogs, tx_searchHits)
             T == TxTableC!Shown
         IN  /\ \A x \in B \ TxTableC!Range(T), y \in TxTableC!Range(T) : x.elapsed <= y.elapsed
             /\ Len(T) = TxTableC!Min({TxLimit, TxTableC!Cardinality(B)})
             /\ TxTableC!CutShown > 0 <=> TxTableC!Range(T) # B
<1> DEFINE B == TxTableC!Base(tx_selectedXLogs, tx_searchHits)
           T == TxTableC!Shown
           R == Entries(T)
           P == TxTableC!PickTableRows(tx_selectedXLogs, tx_searchHits)
<1>1. TxCut(B, R) /\ Len(T) = Cardinality(R)
  BY TxShownIs
<1>2. B \in SUBSET TxTxs /\ P.matched = Cardinality(B)
  BY TxRowsAre
<1>3. TxTableC!CutShown = IF Cardinality(B) > TxLimit THEN Cardinality(B) ELSE 0
  BY <1>2, Zenon DEF TxTableC!CutShown
<1>4. TxTableC!Range(T) = R /\ TxTableC!Cardinality(B) = Cardinality(B)
  BY TxListsAre
<1> HIDE DEF B, T, P
<1>5. IsFiniteSet(B) /\ Cardinality(B) \in Nat /\ TxLimit \in Nat
  BY <1>2, TxTxsAre, WindowChartsAssumption
<1>6. Cardinality(R) = IF TxLimit <= Cardinality(B) THEN TxLimit ELSE Cardinality(B)
  BY <1>1, <1>5, TxLeast DEF TxCut
<1>7. R \in SUBSET B /\ IsFiniteSet(R) /\ (R # B => Cardinality(R) < Cardinality(B))
  BY <1>1, <1>5, FS_Subset DEF TxCut
<1> HIDE DEF R
<1>8. TxTableC!CutShown > 0 <=> R # B
  BY <1>3, <1>5, <1>6, <1>7
<1> QED BY <1>1, <1>4, <1>8 DEF TxCut, B, T

LEMMA GreatestOf ==
  ASSUME NEW S, IsFiniteSet(S), S # {}, S \in SUBSET Int
  PROVE  \E m \in S : \A y \in S : m >= y
<1> DEFINE G == {T \in SUBSET S : T = {} \/ \E m \in T : \A y \in T : m >= y}
<1>1. {} \in G
  OBVIOUS
<1>2. ASSUME NEW T \in SUBSET S, NEW x \in S \ T, T \in G PROVE T \cup {x} \in G
  <2>1. CASE T = {}
    BY <2>1
  <2>2. CASE T # {}
    <3>1. PICK m \in T : \A y \in T : m >= y
      BY <1>2, <2>2
    <3>2. CASE m >= x
      BY <3>1, <3>2
    <3>3. CASE x > m
      <4>1. \A y \in T \cup {x} : x >= y
        BY <3>1, <3>3
      <4> QED BY <4>1
    <3> QED BY <3>1, <3>2, <3>3
  <2> QED BY <2>1, <2>2
<1>3. S \in G
  <2> HIDE DEF G
  <2> QED BY <1>1, <1>2, SetInduction
<1> QED BY <1>3

LEMMA TxMaxIs ==
  ASSUME tx_selectedXLogs \in SUBSET TxTxs, NEW x \in tx_selectedXLogs
  PROVE  TxTableC!SelectionStats.max >= x.elapsed
<1> DEFINE S == {y.elapsed : y \in tx_selectedXLogs}
           f == [y \in tx_selectedXLogs |-> y.elapsed]
<1>1. /\ IsFiniteSet(tx_selectedXLogs)
      /\ \A y \in tx_selectedXLogs : y.elapsed \in Nat
  BY TxTxsAre
<1>2. S = {f[y] : y \in tx_selectedXLogs} /\ DOMAIN f = tx_selectedXLogs
  OBVIOUS
<1>3. IsFiniteSet(S) /\ S \in SUBSET Int /\ x.elapsed \in S
  <2>1. IsFiniteSet({f[y] : y \in tx_selectedXLogs})
    <3> HIDE DEF f
    <3> QED BY <1>1, <1>2, ImageFinite
  <2> QED BY <1>1, <1>2, <2>1
<1>4. TxTableC!SelectionStats.max = TxTableC!Max(S)
  <2>1. TxTableC!Cardinality(tx_selectedXLogs) # 0
    BY <1>1, TxListsAre, FS_EmptySet
  <2> HIDE DEF S
  <2> QED BY <2>1 DEF TxTableC!SelectionStats, S
<1> HIDE DEF S
<1>5. \E m \in S : \A y \in S : m >= y
  BY <1>3, GreatestOf
<1>6. \A y \in S : TxTableC!Max(S) >= y
  BY <1>5 DEF TxTableC!Max
<1> QED BY <1>3, <1>4, <1>6

-----------------------------------------------------------------------------
(* The table of transactions: names, kept filters and columns.             *)

TxServices == {x.service : x \in tx_picked.xlogs}

\* What is listed does not depend on names the selection does not have.
LEMMA TxSameList ==
  ASSUME NEW p, NEW f, NEW K, NEW L, \A x \in p.xlogs : x.service \in K /\ x.service \in L
  PROVE  TxTableC!Filtered(p, f, K) = TxTableC!Filtered(p, f, L)
<1>1. ASSUME NEW x \in p.xlogs, NEW field
      PROVE  TxTableC!ValueOf(x, field, K) = TxTableC!ValueOf(x, field, L)
  BY DEF TxTableC!ValueOf
<1>2. ASSUME NEW x \in p.xlogs, NEW rules
      PROVE  TxTableC!PassesPatterns(x, rules, K) = TxTableC!PassesPatterns(x, rules, L)
  BY <1>1 DEF TxTableC!PassesPatterns
<1>3. ASSUME NEW x \in p.xlogs
      PROVE  TxTableC!PassesFilter(x, f, K) = TxTableC!PassesFilter(x, f, L)
  BY <1>2 DEF TxTableC!PassesFilter
<1> QED BY <1>3 DEF TxTableC!Filtered

LEMMA TxPartOf ==
  ASSUME NEW p, NEW f, NEW K, p.xlogs \in SUBSET TxTxs
  PROVE  TxTableC!Filtered(p, f, K) \in SUBSET TxTxs
BY DEF TxTableC!Filtered

\* When all names came, the list is what passes the filter.
TxListed ==
  /\ tx_selectedXLogs \in SUBSET TxTxs /\ tx_picked.xlogs \in SUBSET TxTxs
  /\ ~tx_resolving /\ tx_missed = {}
       => /\ tx_selectedXLogs = TxTableC!Filtered(tx_picked, tx_filter, tx_known)
          /\ TxServices \in SUBSET tx_known

\* A list of kept filters with a name of its own for each.
TxNamed(list) ==
  /\ list \in Seq(Entries(list))
  /\ \A i, j \in DOMAIN list : list[i].name = list[j].name => i = j

LEMMA TxUpsertIs ==
  ASSUME NEW list, TxNamed(list), NEW e
  PROVE  TxNamed(TxTableC!Upsert(list, e))
<1> DEFINE at == {i \in DOMAIN list : list[i].name = e.name}
           S == Entries(list) \cup {e}
           t == TxTableC!Upsert(list, e)
<1>1. list \in Seq(S) /\ DOMAIN list = 1..Len(list) /\ Len(list) \in Nat
  BY DEF TxNamed
<1>2. CASE at = {}
  <2>1. t = Append(list, e)
    BY <1>2 DEF TxTableC!Upsert
  <2> HIDE DEF t, S
  <2>2. /\ t \in Seq(S) /\ DOMAIN t = 1..(Len(list) + 1) /\ t[Len(list) + 1] = e
        /\ \A i \in 1..Len(list) : t[i] = list[i]
    BY <1>1, <2>1 DEF S
  <2>3. t \in Seq(Entries(t))
    BY <2>2 DEF Entries
  <2>4. \A i \in 1..Len(list) : list[i].name # e.name
    BY <1>1, <1>2
  <2>5. \A i \in DOMAIN t : i \in 1..Len(list) \/ i = Len(list) + 1
    BY <1>1, <2>2
  <2>6. \A i, j \in DOMAIN t : t[i].name = t[j].name => i = j
    BY <1>1, <2>2, <2>4, <2>5 DEF TxNamed
  <2> QED BY <2>3, <2>6 DEF TxNamed, t
<1>3. CASE at # {}
  <2> DEFINE m == TxTableC!Min(at)
  <2>1. m \in at
    <3>1. at \in SUBSET Nat
      BY <1>1
    <3>2. \E n \in at : \A y \in at : n <= y
      <4> HIDE DEF at
      <4> QED BY <1>3, <3>1, LeastOf
    <3> QED BY <3>2 DEF TxTableC!Min
  <2>2. t = [list EXCEPT ![m] = e]
    BY <1>3 DEF TxTableC!Upsert
  <2> HIDE DEF t, S, m
  <2>3. m \in DOMAIN list /\ list[m].name = e.name
    BY <2>1
  <2>4. /\ t \in Seq(S) /\ DOMAIN t = DOMAIN list /\ t[m] = e
        /\ \A i \in DOMAIN list : i # m => t[i] = list[i]
    BY <1>1, <2>2, <2>3 DEF S
  <2>5. t \in Seq(Entries(t))
    BY <2>4 DEF Entries
  <2>6. \A i \in DOMAIN list : t[i].name = list[i].name
    BY <2>3, <2>4
  <2> QED BY <2>4, <2>5, <2>6 DEF TxNamed, t
<1> QED BY <1>2, <1>3

LEMMA TxWithoutIs ==
  ASSUME NEW list, TxNamed(list), NEW name
  PROVE  TxNamed(TxTableC!Without(list, name))
<1> DEFINE K == {f \in TxTableC!Range(list) : f.name # name}
           t == Only(list, K)
           S == Entries(list)
<1>1. TxTableC!Without(list, name) = t
  BY TxListsAre DEF TxTableC!Without
<1>2. list \in Seq(S) /\ Distinct(list)
  BY DEF TxNamed, Distinct
<1> HIDE DEF K
<1>3. t \in Seq(S) /\ Entries(t) = Entries(list) \cap K /\ Distinct(t)
  <2> HIDE DEF S
  <2> QED BY <1>2, OnlyIs
<1> HIDE DEF t
<1>4. t \in Seq(Entries(t))
  BY <1>3 DEF Entries
<1>5. ASSUME NEW i \in DOMAIN t, NEW j \in DOMAIN t, t[i].name = t[j].name PROVE i = j
  <2>1. t[i] \in S /\ t[j] \in S
    BY <1>3 DEF Entries
  <2>2. t[i] = t[j]
    BY <1>5, <2>1 DEF TxNamed, Entries
  <2> QED BY <1>3, <2>2 DEF Distinct
<1> QED BY <1>1, <1>4, <1>5 DEF TxNamed

\* No column is narrower than the least width.
TxCols == {"time", "elapsed", "y"}
TxWide(w) ==
  /\ DOMAIN w \in SUBSET TxCols
  /\ \A c \in DOMAIN w : w[c] \in Nat /\ w[c] >= TxMinCol

LEMMA TxTargetIs ==
  ASSUME NEW b \in 1..(Len(TxTableC!VisibleCols) - 1)
  PROVE  LET D == TxTableC!Range(TxTableC!VisibleCols) \ {"url"}
         IN  /\ TxTableC!TargetOf(b) \in D /\ D \in SUBSET TxCols /\ IsFiniteSet(D)
<1> DEFINE V == TxTableC!VisibleCols
           D == TxTableC!Range(V) \ {"url"}
<1>1. D \in SUBSET TxCols => IsFiniteSet(D)
  <2>1. IsFiniteSet(TxCols)
    <3>1. IsFiniteSet({"time"})
      BY FS_Singleton
    <3>2. IsFiniteSet({"time"} \cup {"elapsed"})
      BY <3>1, FS_AddElement
    <3>3. IsFiniteSet(({"time"} \cup {"elapsed"}) \cup {"y"})
      BY <3>2, FS_AddElement
    <3>4. TxCols = ({"time"} \cup {"elapsed"}) \cup {"y"}
      BY DEF TxCols
    <3> QED BY <3>3, <3>4
  <2> QED BY <2>1, FS_Subset
<1>2. CASE tx_showY
  <2>1. V = <<"time", "url", "elapsed", "y">>
    BY <1>2 DEF TxTableC!VisibleCols
  <2>2. D = {"time", "elapsed", "y"} /\ b \in {1, 2, 3}
    BY <2>1 DEF TxTableC!Range
  <2>3. TxTableC!TargetOf(b) \in D
    BY <2>1, <2>2 DEF TxTableC!TargetOf
  <2> QED BY <1>1, <2>2, <2>3 DEF TxCols
<1>3. CASE ~tx_showY
  <2>1. V = <<"time", "url", "elapsed">>
    BY <1>3 DEF TxTableC!VisibleCols
  <2>2. D = {"time", "elapsed"} /\ b \in {1, 2}
    BY <2>1 DEF TxTableC!Range
  <2>3. TxTableC!TargetOf(b) \in D
    BY <2>1, <2>2 DEF TxTableC!TargetOf
  <2> QED BY <1>1, <2>2, <2>3 DEF TxCols
<1> QED BY <1>2, <1>3

-----------------------------------------------------------------------------
(* The table of transactions: the steps.                                   *)

TxInv == TxListed /\ TxSorts /\ TxNamed(tx_saved) /\ TxWide(tx_widths)

LEMMA TxInvSays == TxInv => TxTableC!TableTrue
<1> SUFFICES ASSUME TxInv PROVE TxTableC!TableTrue
  OBVIOUS
<1>1. tx_selectedXLogs \in SUBSET TxTxs /\ TxSorts
  BY DEF TxInv, TxListed
<1>2. ~tx_resolving /\ tx_missed = {}
        => tx_selectedXLogs = TxTableC!Filtered(tx_picked, tx_filter, tx_known)
  BY DEF TxInv, TxListed
<1>3. \A x \in tx_selectedXLogs : TxTableC!SelectionStats.max >= x.elapsed
  BY <1>1, TxMaxIs
<1>4. \A i, j \in DOMAIN tx_saved : tx_saved[i].name = tx_saved[j].name => i = j
  BY DEF TxInv, TxNamed
<1>5. LET B == TxTableC!Base(tx_selectedXLogs, tx_searchHits)
          T == TxTableC!Shown
      IN  /\ \A x \in B \ TxTableC!Range(T), y \in TxTableC!Range(T) : x.elapsed <= y.elapsed
          /\ Len(T) = TxTableC!Min({TxLimit, TxTableC!Cardinality(B)})
          /\ TxTableC!CutShown > 0 <=> TxTableC!Range(T) # B
  BY <1>1, TxListIsTrue
<1> QED BY <1>2, <1>3, <1>4, <1>5, Zenon DEF TxTableC!TableTrue

LEMMA TxFilterKeeps ==
  ASSUME TxInv, NEW f, NEW draft, TxTableC!FilterBecomes(f, draft)
  PROVE  TxInv'
<1>1. /\ tx_filter' = f /\ tx_selectedXLogs' = TxTableC!Filtered(tx_picked, f, tx_known)
      /\ UNCHANGED <<tx_known, tx_picked, tx_resolving, tx_missed, tx_sort, tx_widths, tx_saved>>
  BY DEF TxTableC!FilterBecomes, TxTableC!kept
<1>2. TxTableC!Filtered(tx_picked, f, tx_known) \in SUBSET TxTxs
  BY TxPartOf DEF TxInv, TxListed
<1>3. TxListed'
  BY <1>1, <1>2 DEF TxInv, TxListed, TxServices
<1> QED BY <1>1, <1>3 DEF TxInv, TxSorts, TxNamed, TxWide, Entries

LEMMA TxPickKeeps ==
  ASSUME TxInv, NEW p, p.xlogs \in SUBSET TxTxs, TxTableC!PickBecomes(p)
  PROVE  TxInv'
<1>1. /\ tx_picked' = p /\ tx_selectedXLogs' = TxTableC!Filtered(p, tx_filter, tx_known)
      /\ tx_resolving' = (p.xlogs # {}) /\ tx_missed' = {}
      /\ UNCHANGED <<tx_filter, tx_known, tx_sort, tx_widths, tx_saved>>
  BY DEF TxTableC!PickBecomes, TxTableC!kept
<1>2. TxTableC!Filtered(p, tx_filter, tx_known) \in SUBSET TxTxs
  BY TxPartOf
<1>3. TxListed'
  BY <1>1, <1>2 DEF TxListed, TxServices
<1> QED BY <1>1, <1>3 DEF TxInv, TxSorts, TxNamed, TxWide, Entries

LEMMA TxResolvedKeeps ==
  ASSUME TxInv, TxTableC!Resolved
  PROVE  TxInv'
<1>1. PICK got \in SUBSET {x.service : x \in tx_picked.xlogs} :
        /\ tx_known' = tx_known \cup got
        /\ tx_missed' = {x.service : x \in tx_picked.xlogs} \ tx_known'
        /\ tx_selectedXLogs' = TxTableC!Filtered(tx_picked, tx_filter, tx_known')
        /\ UNCHANGED <<tx_filter, tx_picked, tx_sort, tx_widths, tx_saved>>
  BY DEF TxTableC!Resolved, TxTableC!kept
<1>2. TxTableC!Filtered(tx_picked, tx_filter, tx_known') \in SUBSET TxTxs
  BY TxPartOf DEF TxInv, TxListed
<1>3. TxListed'
  BY <1>1, <1>2 DEF TxInv, TxListed, TxServices
<1> QED BY <1>1, <1>3 DEF TxInv, TxSorts, TxNamed, TxWide, Entries

LEMMA TxNameKeeps ==
  ASSUME TxInv, NEW n, TxTableC!NameComes(n)
  PROVE  TxInv'
<1>1. /\ tx_known' = tx_known \cup {n}
      /\ UNCHANGED <<tx_filter, tx_picked, tx_resolving, tx_missed, tx_selectedXLogs, tx_sort,
                     tx_widths, tx_saved>>
  BY DEF TxTableC!NameComes, TxTableC!table, TxTableC!kept
<1>2. TxServices \in SUBSET tx_known
        => TxTableC!Filtered(tx_picked, tx_filter, tx_known)
             = TxTableC!Filtered(tx_picked, tx_filter, tx_known')
  BY <1>1, TxSameList DEF TxServices
<1>3. TxListed'
  BY <1>1, <1>2 DEF TxInv, TxListed, TxServices
<1> QED BY <1>1, <1>3 DEF TxInv, TxSorts, TxNamed, TxWide, Entries

LEMMA SumChanged ==
  ASSUME NEW D, IsFiniteSet(D), NEW f \in [D -> Int], NEW t \in D, NEW n \in Int
  PROVE  SumOf([c \in D |-> IF c = t THEN n ELSE f[c]]) = SumOf(f) - f[t] + n
<1> DEFINE g == [c \in D |-> IF c = t THEN n ELSE f[c]]
           r == [c \in D \ {t} |-> f[c]]
           q == [c \in D \ {t} |-> g[c]]
<1>0. q = r
  OBVIOUS
<1>1. g \in [D -> Int] /\ g[t] = n
  OBVIOUS
<1>2. r \in [D \ {t} -> Int] /\ IsFiniteSet(D \ {t})
  BY FS_RemoveElement
<1>3. SumOf(r) \in Int
  <2> HIDE DEF r
  <2> QED BY <1>2, SumOut
<1>4. SumOf(f) = f[t] + SumOf(r)
  BY SumOut
<1> HIDE DEF g
<1>5. SumOf(g) = g[t] + SumOf(q)
  <2>1. \A x \in D : SumOf(g) = g[x] + SumOf([y \in D \ {x} |-> g[y]])
    BY <1>1, SumOut
  <2> QED BY <2>1
<1> HIDE DEF q, r
<1>6. SumOf(g) = n + SumOf(r)
  BY <1>0, <1>1, <1>5
<1> QED BY <1>3, <1>4, <1>6 DEF g

\* What a drag makes of the widths: of one column, and no more than the url can give.
LEMMA TxResizeIs ==
  ASSUME TxInv, NEW b \in 1..(Len(TxTableC!VisibleCols) - 1), NEW d \in Int,
         TxTableC!ResizeAt(b, d)
  PROVE  /\ TxWide(tx_widths')
         /\ TxTableC!UrlWidth' >= TxMinUrl \/ TxTableC!UrlWidth' >= TxTableC!UrlWidth
<1> DEFINE V == TxTableC!VisibleCols
           D == TxTableC!Range(V) \ {"url"}
           t == TxTableC!TargetOf(b)
           grow == IF b < 2 THEN d ELSE -d
           room == TxTableC!Max({0, TxTableC!UrlWidth - TxMinUrl})
           next == TxTableC!Max({TxTableC!WidthOf(t) + TxTableC!Min({grow, room}), TxMinCol})
           f == [c \in D |-> TxTableC!WidthOf(c)]
           g == [c \in D |-> IF c = t THEN next ELSE f[c]]
<1>1. t \in D /\ D \in SUBSET TxCols /\ IsFiniteSet(D)
  BY TxTargetIs
<1>2. /\ tx_widths' = [c \in DOMAIN tx_widths \cup {t} |-> IF c = t THEN next ELSE tx_widths[c]]
      /\ tx_showY' = tx_showY
  BY DEF TxTableC!ResizeAt
<1>3. V' = V /\ D' = D
  BY <1>2 DEF TxTableC!VisibleCols, TxTableC!Range
<1>4. \A c : TxTableC!WidthOf(c) \in Nat /\ TxTableC!WidthOf(c) >= TxMinCol
  BY WindowChartsAssumption DEF TxInv, TxWide, TxTableC!WidthOf
<1>5. TxTableC!UrlWidth = TxTotal - SumOf(f)
  BY TxListsAre DEF TxTableC!UrlWidth
<1> HIDE DEF t, next
<1>6. [c \in D |-> (TxTableC!WidthOf(c))'] = g
  <2>1. \A c : (TxTableC!WidthOf(c))' = IF c = t THEN next ELSE TxTableC!WidthOf(c)
    BY <1>2 DEF TxTableC!WidthOf
  <2> QED BY <2>1
<1>7. TxTableC!UrlWidth' = TxTotal - SumOf(g)
  <2>1. TxTableC!UrlWidth' = TxTotal - TxTableC!SumOf([c \in D' |-> (TxTableC!WidthOf(c))'])
    BY DEF TxTableC!UrlWidth
  <2> QED BY <1>3, <1>6, <2>1, TxListsAre
<1> HIDE DEF D, V
<1>8. f \in [D -> Int] /\ f[t] = TxTableC!WidthOf(t)
  BY <1>1, <1>4
<1>9. SumOf(f) \in Int /\ TxTableC!UrlWidth \in Int
  <2>1. SumOf(f) \in Int
    <3> HIDE DEF f
    <3> QED BY <1>1, <1>8, SumOut
  <2> QED BY <1>5, <2>1, WindowChartsAssumption
<1>10. grow \in Int /\ room \in Nat /\ room = IF TxTableC!UrlWidth >= TxMinUrl
                                             THEN TxTableC!UrlWidth - TxMinUrl ELSE 0
  <2>1. 0 \in Int /\ TxTableC!UrlWidth - TxMinUrl \in Int /\ TxMinUrl \in Nat
    BY <1>9, WindowChartsAssumption
  <2>2. room = IF 0 <= TxTableC!UrlWidth - TxMinUrl THEN TxTableC!UrlWidth - TxMinUrl ELSE 0
    BY <2>1, TxLeast
  <2> HIDE DEF room
  <2> QED BY <1>9, <2>1, <2>2
<1> HIDE DEF grow, room
<1> DEFINE less == TxTableC!Min({grow, room})
           w == TxTableC!WidthOf(t)
<1>11. less \in Int /\ less <= room
  <2>1. less = IF grow <= room THEN grow ELSE room
    BY <1>10, TxLeast
  <2> HIDE DEF less
  <2> QED BY <1>10, <2>1
<1>12. /\ next = IF w + less <= TxMinCol THEN TxMinCol ELSE w + less
       /\ w \in Nat /\ w >= TxMinCol /\ TxMinCol \in Nat
  <2>1. w \in Nat /\ w >= TxMinCol /\ TxMinCol \in Nat
    BY <1>4, WindowChartsAssumption
  <2> HIDE DEF less, w
  <2>2. w + less \in Int /\ TxMinCol \in Int
    BY <1>11, <2>1
  <2>3. next = TxTableC!Max({w + less, TxMinCol})
    BY DEF next, less, w, grow, room
  <2> QED BY <2>1, <2>2, <2>3, TxLeast
<1> HIDE DEF less, w
<1>13. next \in Nat /\ next >= TxMinCol /\ (next <= w \/ next - w <= room)
  BY <1>10, <1>11, <1>12
<1>14. TxWide(tx_widths')
  <2>1. DOMAIN tx_widths' = DOMAIN tx_widths \cup {t}
    BY <1>2
  <2>2. \A c \in DOMAIN tx_widths' : tx_widths'[c] = IF c = t THEN next ELSE tx_widths[c]
    BY <1>2
  <2> QED BY <1>1, <1>13, <2>1, <2>2 DEF TxInv, TxWide
<1>15. SumOf(g) = SumOf(f) - w + next
  <2>1. next \in Int
    BY <1>13
  <2>2. SumOf(g) = SumOf(f) - f[t] + next
    <3> HIDE DEF f
    <3> QED BY <1>1, <1>8, <2>1, SumChanged
  <2> QED BY <1>8, <2>2 DEF w
<1> HIDE DEF f, g
<1>16. TxTableC!UrlWidth' = TxTableC!UrlWidth - (next - w)
  BY <1>5, <1>7, <1>9, <1>12, <1>13, <1>15, WindowChartsAssumption
<1>17. TxTableC!UrlWidth' >= TxMinUrl \/ TxTableC!UrlWidth' >= TxTableC!UrlWidth
  <2>1. TxMinUrl \in Nat
    BY WindowChartsAssumption
  <2> QED BY <1>9, <1>10, <1>12, <1>13, <1>16, <2>1
<1> QED BY <1>14, <1>17

LEMMA TxChangeKeeps ==
  ASSUME TxInv, NEW f, TxTableC!Change(f)
  PROVE  TxInv'
BY TxFilterKeeps DEF TxTableC!Change

LEMMA TxNextKeeps ==
  ASSUME TxInv, TxTableC!Next
  PROVE  TxInv'
<1>1. ASSUME NEW field \in TxTableC!Fields, NEW ex \in BOOLEAN, TxTableC!AddRule(field, ex)
      PROVE  TxInv'
  BY <1>1, TxChangeKeeps DEF TxTableC!AddRule
<1>2. ASSUME NEW field \in TxTableC!Fields, NEW next, TxTableC!TextCond(field, next)
      PROVE  TxInv'
  BY <1>2, TxFilterKeeps DEF TxTableC!TextCond
<1>3. ASSUME NEW i, TxTableC!RemoveRule(i) PROVE TxInv'
  BY <1>3, TxChangeKeeps DEF TxTableC!RemoveRule
<1>4. ASSUME NEW i, NEW rule, TxTableC!UpdateRule(i, rule) PROVE TxInv'
  BY <1>4, TxChangeKeeps DEF TxTableC!UpdateRule
<1>5. CASE TxTableC!ClearRules
  BY <1>5, TxChangeKeeps DEF TxTableC!ClearRules
<1>6. CASE TxTableC!EditNumbers
  BY <1>6, TxChangeKeeps DEF TxTableC!EditNumbers
<1>7. ASSUME NEW xs \in SUBSET TxTxs, TxTableC!Drag(xs) \/ TxTableC!Bring(xs) PROVE TxInv'
  <2>1. PICK refilter \in BOOLEAN : TxTableC!PickBecomes([xlogs |-> xs, refilter |-> refilter])
    BY <1>7 DEF TxTableC!Drag, TxTableC!Bring
  <2> QED BY <2>1, TxPickKeeps
<1>8. ASSUME NEW hits, TxTableC!Searched(hits) PROVE TxInv'
  BY <1>8 DEF TxTableC!Searched, TxTableC!kept, TxInv, TxListed, TxServices, TxSorts, TxNamed,
              TxWide, Entries
<1>9. CASE TxTableC!ClearSelection
  <2>1. TxTableC!PickBecomes([xlogs |-> {}, refilter |-> FALSE])
    BY <1>9 DEF TxTableC!ClearSelection
  <2> QED BY <2>1, TxPickKeeps
<1>10. CASE TxTableC!Resolved
  BY <1>10, TxResolvedKeeps
<1>11. ASSUME NEW n, TxTableC!NameComes(n) PROVE TxInv'
  BY <1>11, TxNameKeeps
<1>12. ASSUME NEW key \in {"time", "elapsed"}, TxTableC!SortBy(key) PROVE TxInv'
  <2>1. tx_sort'.key \in {"time", "elapsed"}
    <3>1. tx_sort' = TxTableC!NextSort(key)
      BY <1>12 DEF TxTableC!SortBy
    <3>2. CASE tx_sort.key = key
      <4>1. \E dir : tx_sort' = [tx_sort EXCEPT !.dir = dir]
        BY <3>1, <3>2 DEF TxTableC!NextSort
      <4> QED BY <4>1, <3>2 DEF TxInv, TxSorts
    <3>3. CASE tx_sort.key # key
      BY <3>1, <3>3 DEF TxTableC!NextSort
    <3> QED BY <3>2, <3>3
  <2>2. TxListed' /\ TxNamed(tx_saved)' /\ TxWide(tx_widths)'
    BY <1>12 DEF TxTableC!SortBy, TxTableC!table, TxTableC!kept, TxInv, TxListed, TxServices,
                 TxNamed, TxWide, Entries
  <2> QED BY <2>1, <2>2 DEF TxInv, TxSorts
<1>13. ASSUME NEW b \in 1..(Len(TxTableC!VisibleCols) - 1), TxTableC!ResetAt(b) PROVE TxInv'
  <2>1. tx_widths' = [c \in DOMAIN tx_widths \ {TxTableC!TargetOf(b)} |-> tx_widths[c]]
    BY <1>13 DEF TxTableC!ResetAt
  <2>2. TxWide(tx_widths)'
    BY <2>1 DEF TxInv, TxWide
  <2>3. TxListed' /\ TxNamed(tx_saved)' /\ TxSorts'
    BY <1>13 DEF TxTableC!ResetAt, TxTableC!table, TxTableC!kept, TxInv, TxListed, TxServices,
                 TxNamed, TxSorts, Entries
  <2> QED BY <2>2, <2>3 DEF TxInv
<1>14. ASSUME NEW b \in 1..(Len(TxTableC!VisibleCols) - 1), NEW d \in Int, TxTableC!ResizeAt(b, d)
       PROVE  TxInv'
  <2>1. TxWide(tx_widths)'
    BY <1>14, TxResizeIs
  <2>2. UNCHANGED <<tx_filter, tx_known, tx_picked, tx_resolving, tx_missed, tx_selectedXLogs,
                    tx_sort, tx_saved>>
    BY <1>14 DEF TxTableC!ResizeAt, TxTableC!table, TxTableC!kept
  <2>3. TxListed' /\ TxNamed(tx_saved)' /\ TxSorts'
    BY <2>2 DEF TxInv, TxListed, TxServices, TxNamed, TxSorts, Entries
  <2> QED BY <2>1, <2>3 DEF TxInv
<1>15. CASE TxTableC!SetYAxis
  BY <1>15 DEF TxTableC!SetYAxis, TxTableC!table, TxTableC!kept, TxInv, TxListed, TxServices,
               TxSorts, TxNamed, TxWide, Entries
<1>16. ASSUME NEW list, TxNamed(list), TxTableC!Persist(list) PROVE TxInv'
  <2>1. /\ tx_saved' = list
        /\ UNCHANGED <<tx_filter, tx_known, tx_picked, tx_resolving, tx_missed, tx_selectedXLogs,
                       tx_sort, tx_widths>>
    BY <1>16 DEF TxTableC!Persist, TxTableC!table
  <2> QED BY <1>16, <2>1 DEF TxInv, TxListed, TxServices, TxSorts, TxNamed, TxWide, Entries
<1>17. ASSUME NEW n, TxTableC!SaveFilter(n) \/ TxTableC!DeleteFilter(n) PROVE TxInv'
  <2>1. PICK list : TxNamed(list) /\ TxTableC!Persist(list)
    BY <1>17, TxUpsertIs, TxWithoutIs DEF TxTableC!SaveFilter, TxTableC!DeleteFilter, TxInv
  <2> QED BY <1>16, <2>1
<1>18. ASSUME NEW i, TxTableC!PersistStep(i) PROVE TxInv'
  <2>1. UNCHANGED <<tx_filter, tx_known, tx_picked, tx_resolving, tx_missed, tx_selectedXLogs,
                    tx_sort, tx_widths, tx_saved>>
    BY <1>18 DEF TxTableC!PersistStep, TxTableC!table
  <2> QED BY <2>1 DEF TxInv, TxListed, TxServices, TxSorts, TxNamed, TxWide, Entries
<1>19. ASSUME NEW f, TxTableC!ApplySaved(f) PROVE TxInv'
  BY <1>19, TxChangeKeeps DEF TxTableC!ApplySaved
<1>20. CASE \E field \in TxTableC!Fields :
             \/ \E ex \in BOOLEAN : TxTableC!AddRule(field, ex)
             \/ \E w \in TxWords, ex \in BOOLEAN :
                  TxTableC!TextCond(field, [text |-> w, exclude |-> ex])
  BY <1>1, <1>2, <1>20
<1>21. CASE \E i \in DOMAIN tx_filter.patterns :
             \/ TxTableC!RemoveRule(i)
             \/ \E w \in TxWords : TxTableC!UpdateRule(i, [tx_filter.patterns[i] EXCEPT !.text = w])
             \/ TxTableC!UpdateRule(i, [tx_filter.patterns[i] EXCEPT !.exclude = ~@])
  BY <1>3, <1>4, <1>21
<1>22. CASE \E xs \in SUBSET TxTxs : TxTableC!Drag(xs) \/ TxTableC!Bring(xs) \/ TxTableC!Searched(xs)
  BY <1>7, <1>8, <1>22
<1>23. CASE \E b \in 1..(Len(TxTableC!VisibleCols) - 1) :
             TxTableC!ResetAt(b) \/ \E d \in {-1, 1, 3} : TxTableC!ResizeAt(b, d)
  BY <1>13, <1>14, <1>23
<1>24. CASE \/ \E x \in TxTxs : TxTableC!NameComes(x.service)
            \/ \E key \in {"time", "elapsed"} : TxTableC!SortBy(key)
            \/ \E n \in TxNames : TxTableC!SaveFilter(n) \/ TxTableC!DeleteFilter(n)
            \/ \E i \in DOMAIN tx_saving : TxTableC!PersistStep(i)
            \/ \E f \in TxTableC!Range(tx_saved) : TxTableC!ApplySaved(f)
  BY <1>11, <1>12, <1>17, <1>18, <1>19, <1>24
<1> QED
  BY <1>5, <1>6, <1>9, <1>10, <1>15, <1>20, <1>21, <1>22, <1>23, <1>24, Zenon DEF TxTableC!Next

\* The drag of a column is the only step that makes one wider or keeps all there were.
LEMMA TxDragSays ==
  ASSUME TxInv, TxTableC!Next
  PROVE  TxTableC!DragStep
<1> SUFFICES ASSUME TxTableC!Drags
             PROVE  TxTableC!UrlWidth' >= TxMinUrl \/ TxTableC!UrlWidth' >= TxTableC!UrlWidth
  BY DEF TxTableC!DragStep
<1>1. tx_widths' # tx_widths /\ DOMAIN tx_widths \in SUBSET DOMAIN tx_widths'
  BY DEF TxTableC!Drags
<1>2. \/ \E b \in 1..(Len(TxTableC!VisibleCols) - 1) :
           TxTableC!ResetAt(b) \/ \E d \in {-1, 1, 3} : TxTableC!ResizeAt(b, d)
      \/ UNCHANGED tx_widths
  BY DEF TxTableC!Next, TxTableC!AddRule, TxTableC!TextCond, TxTableC!RemoveRule,
         TxTableC!UpdateRule, TxTableC!ClearRules, TxTableC!EditNumbers, TxTableC!Change,
         TxTableC!FilterBecomes, TxTableC!Drag, TxTableC!Bring, TxTableC!Searched,
         TxTableC!ClearSelection, TxTableC!PickBecomes, TxTableC!Resolved, TxTableC!NameComes,
         TxTableC!SortBy, TxTableC!SetYAxis, TxTableC!SaveFilter, TxTableC!DeleteFilter,
         TxTableC!Persist, TxTableC!PersistStep, TxTableC!ApplySaved
<1>3. PICK b \in 1..(Len(TxTableC!VisibleCols) - 1) :
        TxTableC!ResetAt(b) \/ \E d \in {-1, 1, 3} : TxTableC!ResizeAt(b, d)
  BY <1>1, <1>2
<1>4. ~TxTableC!ResetAt(b)
  BY <1>1 DEF TxTableC!ResetAt
<1>5. PICK d \in {-1, 1, 3} : TxTableC!ResizeAt(b, d)
  BY <1>3, <1>4
<1> QED BY <1>5, TxResizeIs

LEMMA TxTableInit == Init => (which = "TxTable" => TxInv)
<1> SUFFICES ASSUME Init, which = "TxTable" PROVE TxInv
  OBVIOUS
<1>1. TxTableC!Init
  BY DEF Init
<1>2. /\ tx_picked = [xlogs |-> {}, refilter |-> FALSE] /\ tx_selectedXLogs = {}
      /\ tx_sort = [key |-> "time", dir |-> "desc"] /\ tx_widths = <<>> /\ tx_saved = <<>>
  BY <1>1 DEF TxTableC!Init
<1>3. TxListed
  BY <1>2 DEF TxListed, TxServices, TxTableC!Filtered
<1>4. TxNamed(tx_saved)
  BY <1>2, NoEntries DEF TxNamed
<1>5. DOMAIN tx_widths = {}
  BY <1>2
<1> QED BY <1>2, <1>3, <1>4, <1>5 DEF TxInv, TxSorts, TxWide

LEMMA TxTableStep ==
  (which = "TxTable" => TxInv) /\ [Next]_allVars => (which = "TxTable" => TxInv)'
<1> SUFFICES ASSUME which = "TxTable" => TxInv, [Next]_allVars
             PROVE  (which = "TxTable" => TxInv)'
  OBVIOUS
<1>1. CASE Next
  <2> SUFFICES ASSUME which' = "TxTable" PROVE TxInv'
    OBVIOUS
  <2>1. which = "TxTable" /\ TxTableC!Next
    BY <1>1, Turns
  <2> QED BY <2>1, TxNextKeeps
<1>2. CASE UNCHANGED allVars
  BY <1>2 DEF allVars, TxTableVars, TxInv, TxListed, TxServices, TxSorts, TxNamed, TxWide, Entries
<1> QED BY <1>1, <1>2

LEMMA TxTableDrags ==
  (which = "TxTable" => TxInv) /\ [Next]_allVars
    => [which = "TxTable" => TxTableC!DragStep]_allVars
<1> SUFFICES ASSUME which = "TxTable" => TxInv, [Next]_allVars, which = "TxTable"
             PROVE  TxTableC!DragStep \/ UNCHANGED allVars
  OBVIOUS
<1>1. CASE Next
  BY <1>1, Turns, TxDragSays
<1> QED BY <1>1

\* The table lists what passes the filter as soon as the names are known, cuts off none
\* that is slower than one it shows, counts what it stands for and keeps each filter under
\* a name of its own; a drag leaves the url its room (XLogTable.tsx, xlogFilter.ts).
THEOREM ListedIsTrue == Spec => TableListTrue
<1>1. (which = "TxTable" => TxInv) => (which = "TxTable" => TxTableC!TableTrue)
  BY TxInvSays
<1> QED BY TxTableInit, TxTableStep, TxTableDrags, <1>1, PTL DEF Spec, TableListTrue

-----------------------------------------------------------------------------
(* The counters: strip, grid and charts of one stream.                     *)

LEMMA GaListsAre ==
  /\ \A f : GaugesC!SumOf(f) = SumOf(f)
  /\ \A S, up : GaugesC!SortedSet(S, up) = SortedSet(S, up)
  /\ \A S : GaugesC!Enumerated(S) = Enumerated(S) /\ GaugesC!Cardinality(S) = Cardinality(S)
  /\ \A s : GaugesC!Range(s) = Entries(s)
  /\ \A f, S : GaugesC!Restrict(f, S) = [x \in S |-> f[x]]
<1>1. ASSUME NEW f PROVE GaugesC!SumOf(f) = SumOf(f)
  BY DEF GaugesC!SumOf, SumOf
<1>2. \A S : GaugesC!Cardinality(S) = Cardinality(S)
  BY DEF GaugesC!Cardinality, Cardinality
<1>3. ASSUME NEW S PROVE GaugesC!Enumerated(S) = Enumerated(S)
  BY <1>2 DEF GaugesC!Enumerated, Enumerated
<1>4. ASSUME NEW s, NEW up PROVE GaugesC!Ordered(s, up) = Ordered(s, up)
  <2> DEFINE Upto(i) == {j \in DOMAIN s : <<j, i>> \in up \/ (<<i, j>> \notin up /\ j <= i)}
             there == [i \in DOMAIN s |-> GaugesC!Cardinality(Upto(i))]
             place == [i \in DOMAIN s |-> Cardinality(Upto(i))]
  <2>1. there = place
    <3> HIDE DEF Upto
    <3> QED BY <1>2
  <2>2. GaugesC!Ordered(s, up) = [k \in DOMAIN s |-> s[CHOOSE i \in DOMAIN s : there[i] = k]]
    BY DEF GaugesC!Ordered
  <2>3. Ordered(s, up) = [k \in DOMAIN s |-> s[CHOOSE i \in DOMAIN s : place[i] = k]]
    BY DEF Ordered
  <2> HIDE DEF there, place
  <2> QED BY <2>1, <2>2, <2>3
<1>5. ASSUME NEW S, NEW up PROVE GaugesC!SortedSet(S, up) = SortedSet(S, up)
  <2> DEFINE s == Enumerated(S)
             upto == {p \in (DOMAIN s) \X (DOMAIN s) : <<s[p[1]], s[p[2]]>> \in up}
  <2>1. GaugesC!SortedSet(S, up) = GaugesC!Ordered(s, upto)
    BY <1>3, Zenon DEF GaugesC!SortedSet
  <2>2. SortedSet(S, up) = Ordered(s, upto)
    BY Zenon DEF SortedSet
  <2> HIDE DEF s, upto
  <2> QED BY <1>4, <2>1, <2>2
<1>6. ASSUME NEW s PROVE GaugesC!Range(s) = Entries(s)
  BY DEF GaugesC!Range, Entries
<1>7. ASSUME NEW f, NEW S PROVE GaugesC!Restrict(f, S) = [x \in S |-> f[x]]
  BY DEF GaugesC!Restrict
<1> QED BY <1>1, <1>2, <1>3, <1>5, <1>6, <1>7

GaShort(S) == {s \in Seq(S) : Len(s) <= GaCap}
GaUpdates == UNION {[os -> GaValues] : os \in SUBSET GaObjs}
GaStrips == [GaKpis -> [value : Int, samples : GaShort(Int)]]
GaCells == [obj : GaObjs, kpi : GaKpis, value : GaValues]

LEMMA GaAppendedIs ==
  ASSUME NEW S, NEW s \in GaShort(S), NEW x \in S
  PROVE  GaugesC!Appended(s, x) \in GaShort(S)
<1> DEFINE t == Append(s, x)
<1>1. t \in Seq(S) /\ Len(t) = Len(s) + 1 /\ Len(s) \in Nat /\ Len(s) <= GaCap
  BY DEF GaShort
<1>2. t # <<>> => Tail(t) \in Seq(S) /\ Len(Tail(t)) = Len(t) - 1
  BY <1>1
<1>3. GaugesC!Appended(s, x) = IF Len(t) > GaCap THEN Tail(t) ELSE t
  BY DEF GaugesC!Appended
<1> QED BY <1>1, <1>2, <1>3, WindowChartsAssumption DEF GaShort

LEMMA GaSumIs ==
  ASSUME NEW D \in SUBSET GaObjs, NEW f \in [D -> GaValues]
  PROVE  IsFiniteSet(D) /\ f \in [D -> Int] /\ SumOf(f) \in Int
<1>1. IsFiniteSet(GaObjs) /\ GaValues \in SUBSET Int
  BY WindowChartsAssumption
<1>2. IsFiniteSet(D)
  BY <1>1, FS_Subset
<1>3. f \in [D -> Int]
  BY <1>1
<1> QED BY <1>2, <1>3, SumOut

LEMMA GaAggregateIs ==
  ASSUME NEW kpi, NEW D \in SUBSET GaObjs, NEW f \in [D -> GaValues]
  PROVE  /\ GaugesC!Aggregate(kpi, f) \in Int
         /\ D # {} /\ kpi \notin GaAveraged => GaugesC!Aggregate(kpi, f) = SumOf(f)
<1>1. IsFiniteSet(D) /\ SumOf(f) \in Int /\ DOMAIN f = D
  BY GaSumIs
<1>2. Cardinality(D) \in Nat /\ (D # {} => Cardinality(D) # 0)
  BY <1>1, FS_CardinalityType, FS_EmptySet
<1>3. GaugesC!Aggregate(kpi, f)
        = IF D = {} THEN -1
          ELSE IF kpi \in GaAveraged THEN SumOf(f) \div Cardinality(D) ELSE SumOf(f)
  BY <1>1, GaListsAre DEF GaugesC!Aggregate, GaugesC!Never
<1> QED BY <1>1, <1>2, <1>3

LEMMA GaStripHearsIs ==
  ASSUME NEW st \in GaStrips, NEW kpi \in GaKpis, NEW vals \in GaUpdates, NEW picked
  PROVE  GaugesC!StripHears(st, kpi, vals, picked) \in GaStrips
<1> DEFINE of == picked \cap DOMAIN vals
           f == [x \in of |-> vals[x]]
           v == GaugesC!Aggregate(kpi, f)
<1>1. of \in SUBSET GaObjs /\ f \in [of -> GaValues]
  BY DEF GaUpdates
<1>2. v \in Int
  BY <1>1, GaAggregateIs
<1>3. GaugesC!StripHears(st, kpi, vals, picked)
        = IF v = -1 THEN st
          ELSE [st EXCEPT ![kpi] = [value |-> v, samples |-> GaugesC!Appended(@.samples, v)]]
  BY GaListsAre DEF GaugesC!StripHears, GaugesC!Never
<1> HIDE DEF v
<1>4. GaugesC!Appended(st[kpi].samples, v) \in GaShort(Int)
  BY <1>2, GaAppendedIs DEF GaStrips
<1> QED BY <1>2, <1>3, <1>4 DEF GaStrips

LEMMA GaStripAfterIs ==
  ASSUME NEW st \in GaStrips, NEW kpi \in GaKpis, NEW vals \in GaUpdates,
         NEW hear, IsFiniteSet(hear)
  PROVE  GaugesC!StripAfter(st, kpi, vals, hear) \in GaStrips
<1> DEFINE each == Enumerated(hear)
           N == Len(each)
           g == [n \in 1..N |-> [x \in GaStrips |-> GaugesC!StripHears(x, kpi, vals, each[n])]]
           Is(u) == u = [n \in 0..N |-> IF n = 0 THEN st
                                        ELSE GaugesC!StripHears(u[n - 1], kpi, vals, each[n])]
           u == CHOOSE u : Is(u)
<1>1. N \in Nat
  BY EnumeratedIs
<1>2. GaugesC!StripAfter(st, kpi, vals, hear) = u[N]
  BY GaListsAre DEF GaugesC!StripAfter
<1> HIDE DEF N
<1>3. \A n \in 1..N : \A x \in GaStrips :
        g[n][x] = GaugesC!StripHears(x, kpi, vals, each[n]) /\ g[n][x] \in GaStrips
  BY GaStripHearsIs
<1> HIDE DEF g, each
<1>4. PICK f : Loop(f, st, g, N)
  BY <1>1, LoopExists
<1>5. \A n \in 0..N : f[n] \in GaStrips
  BY <1>1, <1>3, <1>4, LoopKeeps
<1>6. \A n \in 0..N : n # 0 => n \in 1..N /\ n - 1 \in 0..N
  BY <1>1
<1>7. Is(f)
  <2>1. f = [n \in 0..N |-> IF n = 0 THEN st ELSE g[n][f[n - 1]]]
    BY <1>4 DEF Loop
  <2>2. \A n \in 0..N : (IF n = 0 THEN st ELSE g[n][f[n - 1]])
          = (IF n = 0 THEN st ELSE GaugesC!StripHears(f[n - 1], kpi, vals, each[n]))
    BY <1>3, <1>5, <1>6
  <2> QED BY <2>1, <2>2
<1>8. Is(u)
  BY <1>7
<1> HIDE DEF u
<1> DEFINE G == {n \in 0..N : u[n] \in GaStrips}
<1>9. u[0] = st /\ \A n \in 1..N : u[n] = GaugesC!StripHears(u[n - 1], kpi, vals, each[n])
  <2>1. 0 \in 0..N /\ \A n \in 1..N : n \in 0..N /\ n # 0
    BY <1>1
  <2> QED BY <1>8, <2>1
<1>10. \A n \in 0..N : n \in G
  <2>1. 0 \in G
    BY <1>1, <1>9
  <2>2. \A n \in 1..N : n - 1 \in G => n \in G
    BY <1>1, <1>9, GaStripHearsIs
  <2> HIDE DEF G
  <2> QED BY <1>1, <2>1, <2>2, UpToInduction
<1> QED BY <1>1, <1>2, <1>10

LEMMA GaLeast ==
  ASSUME NEW a \in Int, NEW b \in Int
  PROVE  GaugesC!Min({a, b}) = IF a <= b THEN a ELSE b
<1> DEFINE m == IF a <= b THEN a ELSE b
<1>1. m \in {a, b} /\ \A y \in {a, b} : m <= y
  OBVIOUS
<1>2. \A x \in {a, b} : (\A y \in {a, b} : x <= y) => x = m
  OBVIOUS
<1> QED BY <1>1, <1>2 DEF GaugesC!Min

\* The end of the scale of a gauge with a threshold lies beyond it.
LEMMA GaScaleIs ==
  ASSUME NEW k \in GaKpis, GaThresholds[k].on
  PROVE  GaugesC!GaugeScale(k) \in Nat /\ GaugesC!GaugeScale(k) > GaThresholds[k].danger
<1> DEFINE d == GaThresholds[k].danger
           v == (3 * d + 1) \div 2
           N == {n \in GaNice : n >= v}
           S == GaugesC!GaugeScale(k)
<1>1. d \in Int /\ \E n \in GaNice : n >= v
  BY WindowChartsAssumption
<1>2. v \in Int /\ (v <= 0 => d < 1) /\ (v > 0 => d < v)
  BY <1>1
<1>3. S = IF v <= 0 THEN 1 ELSE GaugesC!Min(N)
  BY DEF GaugesC!GaugeScale, GaugesC!NiceMax
<1>4. CASE v <= 0
  BY <1>2, <1>3, <1>4
<1>5. CASE v > 0
  <2>1. N \in SUBSET Nat /\ N # {}
    <3>1. GaNice \in SUBSET Int
      BY WindowChartsAssumption
    <3>2. ASSUME NEW n \in N PROVE n \in Nat
      <4>1. n \in Int /\ n >= v
        BY <3>1
      <4> HIDE DEF v, N
      <4> QED BY <1>2, <1>5, <4>1
    <3>3. N # {}
      BY <1>1
    <3> QED BY <3>2, <3>3
  <2>2. \E m \in N : \A y \in N : m <= y
    <3> HIDE DEF N
    <3> QED BY <2>1, LeastOf
  <2>3. GaugesC!Min(N) \in N
    BY <2>2 DEF GaugesC!Min
  <2>4. GaugesC!Min(N) \in Nat /\ GaugesC!Min(N) >= v
    BY <2>1, <2>3
  <2> QED BY <1>1, <1>2, <1>3, <1>5, <2>4
<1> QED BY <1>2, <1>4, <1>5

\* The needle stands in the zone of the grade, also when the value is beyond the scale.
LEMMA GaZoneIs ==
  ASSUME NEW k \in GaKpis, ga_strip[k].value \in Int, ga_strip[k].value # -1
  PROVE  /\ GaugesC!Zone(k, GaugesC!Needle(k)) = GaugesC!Grade(k, ga_strip[k].value)
         /\ GaugesC!GaugeScale(k) # GaugesC!Never /\ ga_strip[k].value > GaugesC!GaugeScale(k)
              => GaugesC!Zone(k, GaugesC!Needle(k)) \in {"danger", "none"}
<1> DEFINE th == GaThresholds[k]
           v == ga_strip[k].value
           S == GaugesC!GaugeScale(k)
           at == GaugesC!Needle(k)
<1>1. GaugesC!Zone(k, at) = IF ~th.on THEN "none" ELSE IF th.danger <= at /\ th.danger < S THEN "danger"
                             ELSE IF th.warn <= at /\ th.warn < S THEN "warn" ELSE "ok"
  BY DEF GaugesC!Zone
<1>2. GaugesC!Grade(k, v) = IF ~th.on THEN "none" ELSE IF v >= th.danger THEN "danger"
                             ELSE IF v >= th.warn THEN "warn" ELSE "ok"
  BY DEF GaugesC!Grade, GaugesC!Never
<1>3. CASE ~th.on
  BY <1>1, <1>2, <1>3
<1>4. CASE th.on
  <2>1. S \in Nat /\ S > th.danger
    BY <1>4, GaScaleIs
  <2>2. th.danger \in Int /\ th.warn \in Int
    BY WindowChartsAssumption
  <2>3. at = GaugesC!Min({v, S})
    BY DEF GaugesC!Needle
  <2> HIDE DEF th, S, at, v
  <2>4. v \in Int
    BY DEF v
  <2>5. at = IF v <= S THEN v ELSE S
    BY <2>1, <2>3, <2>4, GaLeast
  <2>6. GaugesC!Zone(k, at) = GaugesC!Grade(k, v)
    BY <1>1, <1>2, <1>4, <2>1, <2>2, <2>4, <2>5
  <2>7. v > S => GaugesC!Zone(k, at) = "danger"
    BY <1>1, <1>4, <2>1, <2>2, <2>4, <2>5
  <2> QED BY <2>6, <2>7 DEF v, S, at
<1> QED BY <1>3, <1>4

\* How bad a cell is: its grade, and within the grade its pressure.
GaR(c) == GaugesC!Rank(GaugesC!Grade(c.kpi, c.value))

LEMMA GaWorseIs ==
  ASSUME NEW c \in GaCells, NEW d \in GaCells
  PROVE  /\ GaR(c) \in Int /\ GaugesC!Pressure(c) \in Int
         /\ GaugesC!Worse(c, d)
              <=> GaR(c) > GaR(d) \/ (GaR(c) = GaR(d) /\ GaugesC!Pressure(c) > GaugesC!Pressure(d))
<1> DEFINE grades == {"none", "ok", "warn", "danger"}
           g(x) == GaugesC!Grade(x.kpi, x.value)
<1>1. \A x : g(x) \in grades
  BY DEF GaugesC!Grade
<1>2. /\ \A h \in grades : GaugesC!Rank(h) \in Int
      /\ \A h, i \in grades : GaugesC!Rank(h) = GaugesC!Rank(i) => h = i
  <2>1. /\ GaugesC!Rank("none") = 0 /\ GaugesC!Rank("ok") = 1
        /\ GaugesC!Rank("warn") = 2 /\ GaugesC!Rank("danger") = 3
    BY DEF GaugesC!Rank
  <2> QED BY <2>1
<1>3. GaR(c) \in Int /\ (GaR(c) = GaR(d) <=> g(c) = g(d))
  <2> HIDE DEF grades
  <2> QED BY <1>1, <1>2 DEF GaR
<1>4. GaugesC!Pressure(c) \in Int
  <2> DEFINE th == GaThresholds[c.kpi]
  <2>1. c.kpi \in GaKpis /\ c.value \in Int
    <3>1. c.kpi \in GaKpis /\ c.value \in GaValues
      BY DEF GaCells
    <3>2. GaValues \in SUBSET Int
      BY WindowChartsAssumption
    <3> QED BY <3>1, <3>2
  <2>2. th.warn \in Int
    BY <2>1, WindowChartsAssumption
  <2>3. GaugesC!Pressure(c) = IF ~th.on THEN -1
          ELSE IF th.warn > 0 THEN (100 * c.value) \div th.warn ELSE 100 * c.value
    BY DEF GaugesC!Pressure
  <2> HIDE DEF th
  <2>4. th.warn > 0 => (100 * c.value) \div th.warn \in Int
    BY <2>1, <2>2
  <2> QED BY <2>1, <2>3, <2>4
<1>5. GaugesC!Worse(c, d)
        <=> GaR(c) > GaR(d) \/ (g(c) = g(d) /\ GaugesC!Pressure(c) > GaugesC!Pressure(d))
  BY DEF GaugesC!Worse, GaR
<1> QED BY <1>3, <1>4, <1>5

\* Of finitely many cells one is such that none is worse.
LEMMA GaWorstExists ==
  ASSUME NEW C \in SUBSET GaCells, IsFiniteSet(C), C # {}
  PROVE  \E c \in C : \A d \in C : ~GaugesC!Worse(d, c)
<1> DEFINE G == {T \in SUBSET C : T = {} \/ \E c \in T : \A d \in T : ~GaugesC!Worse(d, c)}
<1>1. {} \in G
  OBVIOUS
<1>2. ASSUME NEW T \in SUBSET C, NEW x \in C \ T, T \in G PROVE T \cup {x} \in G
  <2>1. x \in GaCells /\ T \in SUBSET GaCells
    OBVIOUS
  <2>2. ~GaugesC!Worse(x, x)
    BY <2>1, GaWorseIs
  <2>3. CASE T = {}
    BY <2>2, <2>3
  <2>4. CASE T # {}
    <3>1. PICK c \in T : \A d \in T : ~GaugesC!Worse(d, c)
      BY <1>2, <2>4
    <3>2. CASE GaugesC!Worse(x, c)
      <4>1. \A d \in T : ~GaugesC!Worse(d, x)
        BY <2>1, <3>1, <3>2, GaWorseIs
      <4> QED BY <2>2, <4>1
    <3>3. CASE ~GaugesC!Worse(x, c)
      BY <3>1, <3>3
    <3> QED BY <3>2, <3>3
  <2> QED BY <2>3, <2>4
<1>3. C \in G
  <2> HIDE DEF G
  <2> QED BY <1>1, <1>2, SetInduction
<1> QED BY <1>3

LEMMA GaWorstIs ==
  ASSUME ga_grid \in SUBSET GaCells, IsFiniteSet(ga_grid), NEW c \in ga_grid
  PROVE  /\ GaR(c) <= GaugesC!Rank(GaugesC!GradeOf(c.obj))
         /\ GaugesC!Rank(GaugesC!GradeOf(c.obj)) \in Int
<1> DEFINE C == GaugesC!Cells(c.obj)
           w == GaugesC!WorstOf(c.obj)
<1>1. C \in SUBSET GaCells /\ IsFiniteSet(C) /\ c \in C
  BY FS_Subset DEF GaugesC!Cells
<1>2. w \in C /\ \A d \in C : ~GaugesC!Worse(d, w)
  <2>1. \E x \in C : \A d \in C : ~GaugesC!Worse(d, x)
    BY <1>1, GaWorstExists
  <2> QED BY <2>1 DEF GaugesC!WorstOf
<1>3. GaugesC!Rank(GaugesC!GradeOf(c.obj)) = GaR(w)
  BY DEF GaugesC!GradeOf, GaR
<1>4. ~GaugesC!Worse(c, w) /\ c \in GaCells /\ w \in GaCells
  BY <1>1, <1>2
<1> HIDE DEF C, w
<1> QED BY <1>3, <1>4, GaWorseIs

\* The first server of the grid is one of the worst.
LEMMA GaFirstIs ==
  ASSUME ga_grid \in SUBSET GaCells, IsFiniteSet(ga_grid), NEW c \in ga_grid
  PROVE  GaR(c) <= GaugesC!Rank(GaugesC!GradeOf(GaugesC!BuildRows[1]))
<1> DEFINE q(o) == GaugesC!Rank(GaugesC!GradeOf(o))
           of == {d.obj : d \in ga_grid}
           up == {p \in of \X of : q(p[1]) > q(p[2])}
           s == SortedSet(of, up)
<1>1. GaugesC!BuildRows = s
  BY GaListsAre DEF GaugesC!BuildRows
<1>2. IsFiniteSet(of)
  <2> DEFINE f == [d \in ga_grid |-> d.obj]
  <2>1. IsFiniteSet({f[d] : d \in ga_grid})
    BY ImageFinite
  <2>2. {f[d] : d \in ga_grid} = of
    OBVIOUS
  <2> QED BY <2>1, <2>2
<1>3. \A o \in of : q(o) \in Int
  BY GaWorstIs
<1>4. GaR(c) <= q(c.obj) /\ c.obj \in of /\ GaR(c) \in Int
  BY GaWorstIs, GaWorseIs
<1> HIDE DEF q
<1>5. \A x, y \in of : <<x, y>> \in up <=> q(x) > q(y)
  OBVIOUS
<1> HIDE DEF of, up
<1>6. Compares(of, up)
  <2>1. ASSUME NEW x \in of, NEW y \in of, NEW z \in of
        PROVE  /\ <<x, y>> \in up => <<y, x>> \notin up
               /\ <<x, z>> \in up => <<x, y>> \in up \/ <<y, z>> \in up
    <3>1. q(x) \in Int /\ q(y) \in Int /\ q(z) \in Int
      BY <1>3
    <3>2. /\ <<x, y>> \in up <=> q(x) > q(y)
          /\ <<y, x>> \in up <=> q(y) > q(x)
          /\ <<x, z>> \in up <=> q(x) > q(z)
          /\ <<y, z>> \in up <=> q(y) > q(z)
      BY <1>5
    <3> QED BY <3>1, <3>2
  <2> QED BY <2>1 DEF Compares
<1>7. /\ s \in Seq(of) /\ Entries(s) = of
      /\ \A k, l \in DOMAIN s : k < l => <<s[l], s[k]>> \notin up
  BY <1>2, <1>6, SortedSetIs
<1> HIDE DEF s
<1>8. PICK l \in DOMAIN s : s[l] = c.obj
  BY <1>4, <1>7 DEF Entries
<1>9. l \in Nat /\ l >= 1 /\ 1 \in DOMAIN s /\ s[1] \in of
  BY <1>7, <1>8
<1>10. q(c.obj) <= q(s[1])
  <2>1. l # 1 => <<c.obj, s[1]>> \notin up
    <3> SUFFICES ASSUME l # 1 PROVE <<c.obj, s[1]>> \notin up
      OBVIOUS
    <3>1. 1 < l
      BY <1>9
    <3>2. <<s[l], s[1]>> \notin up
      BY <1>7, <1>8, <1>9, <3>1
    <3> QED BY <1>8, <3>2
  <2>2. q(c.obj) \in Int /\ q(s[1]) \in Int
    BY <1>3, <1>4, <1>9
  <2>3. <<c.obj, s[1]>> \in up <=> q(c.obj) > q(s[1])
    BY <1>4, <1>5, <1>9
  <2>4. l = 1 => q(c.obj) = q(s[1])
    BY <1>8
  <2> QED BY <2>1, <2>2, <2>3, <2>4
<1> QED BY <1>1, <1>3, <1>4, <1>9, <1>10 DEF q

\* The lines of a chart, however folded, add up to what the picked servers sent.
LEMMA GaSeriesIs ==
  ASSUME NEW k \in GaCapable \ GaAveraged, NEW u \in GaUpdates
  PROVE  GaugesC!SumOf(GaugesC!FoldSeries(k, u))
           = GaugesC!SumOf(GaugesC!Restrict(u, DOMAIN u \cap ga_visible))
<1> DEFINE D == DOMAIN u \cap ga_visible
           f == [o \in D |-> u[o]]
           b == [o \in D |-> GaugesC!KeyOf(o, ga_fold)]
           E == {b[o] : o \in D}
           part(y) == {o \in D : GaugesC!KeyOf(o, ga_fold) = y}
           c == [y \in E |-> GaugesC!Aggregate(k, [o \in part(y) |-> u[o]])]
<1>1. D \in SUBSET GaObjs /\ f \in [D -> GaValues]
  BY DEF GaUpdates
<1>2. IsFiniteSet(D) /\ f \in [D -> Int]
  BY <1>1, GaSumIs
<1>3. IsFiniteSet(E) /\ b \in [D -> E]
  <2>1. DOMAIN b = D
    OBVIOUS
  <2>2. IsFiniteSet(E)
    <3> HIDE DEF D, b
    <3> QED BY <1>2, <2>1, ImageFinite
  <2>3. b \in [D -> E]
    OBVIOUS
  <2> QED BY <2>2, <2>3
<1>4. \A y : part(y) = OfKey(D, b, y)
  BY DEF OfKey
<1>5. ASSUME NEW y \in E
      PROVE  c[y] \in Int /\ c[y] = Over(f, OfKey(D, b, y))
  <2> DEFINE r == [o \in part(y) |-> u[o]]
  <2>1. part(y) \in SUBSET GaObjs /\ r \in [part(y) -> GaValues] /\ part(y) # {}
    BY <1>1
  <2>2. GaugesC!Aggregate(k, r) = SumOf(r) /\ GaugesC!Aggregate(k, r) \in Int
    <3> HIDE DEF r, part
    <3> QED BY <2>1, GaAggregateIs
  <2>3. r = [o \in OfKey(D, b, y) |-> f[o]]
    BY <1>4 DEF OfKey
  <2>4. c[y] = GaugesC!Aggregate(k, r)
    OBVIOUS
  <2> QED BY <2>2, <2>3, <2>4 DEF Over
<1>6. GaugesC!FoldSeries(k, u) = c
  <2>1. GaugesC!FoldSeries(k, u)
          = [y \in {GaugesC!KeyOf(o, ga_fold) : o \in D} |->
               GaugesC!Aggregate(k, GaugesC!Restrict(u, part(y)))]
    BY DEF GaugesC!FoldSeries
  <2>2. {GaugesC!KeyOf(o, ga_fold) : o \in D} = E
    OBVIOUS
  <2>3. \A y : GaugesC!Restrict(u, part(y)) = [o \in part(y) |-> u[o]]
    BY GaListsAre
  <2> HIDE DEF D, E, part
  <2> QED BY <2>1, <2>2, <2>3
<1>7. c \in [E -> Int]
  <2>1. DOMAIN c = E /\ \A y \in E : c[y] \in Int
    BY <1>5
  <2> QED BY <2>1
<1>8. SumOf(f) = SumOf(c)
  <2>1. \A y \in E : c[y] = Over(f, OfKey(D, b, y))
    BY <1>5
  <2> HIDE DEF D, E, f, b, c
  <2> QED BY <1>2, <1>3, <1>7, <2>1, SumByKey
<1>9. GaugesC!Restrict(u, D) = f
  BY GaListsAre
<1> HIDE DEF D, f, c
<1> QED BY <1>6, <1>8, <1>9, GaListsAre DEF D

\* What the strip, the grid and the charts have at every moment.
GaTyped ==
  /\ ga_visible \in SUBSET GaObjs /\ ga_late \in SUBSET SUBSET GaObjs
  /\ ga_enabled \in BOOLEAN /\ ga_crossed \in BOOLEAN
  /\ ga_strip \in GaStrips /\ ga_updates \in [GaKpis -> GaShort(GaUpdates)]
  /\ ga_grid \in SUBSET GaCells /\ IsFiniteSet(ga_grid)
GaSent == {s \in ga_sent : s.obj \in ga_visible}
GaInv == GaTyped /\ (~ga_crossed => ga_grid \subseteq GaSent)

LEMMA GaInvSays == GaInv => GaugesC!GaugesTrue
<1> SUFFICES ASSUME GaInv PROVE GaugesC!GaugesTrue
  OBVIOUS
<1>1. ~ga_crossed => ga_grid \subseteq {s \in ga_sent : s.obj \in ga_visible}
  BY DEF GaInv, GaSent
<1>2. ASSUME NEW k \in GaKpis
      PROVE  Len(ga_strip[k].samples) <= GaCap /\ Len(ga_updates[k]) <= GaCap
  BY DEF GaInv, GaTyped, GaStrips, GaShort
<1>3. ASSUME NEW k \in GaKpis, k \in GaCapable \ GaAveraged,
             NEW u \in GaugesC!Range(ga_updates[k])
      PROVE  GaugesC!SumOf(GaugesC!FoldSeries(k, u))
               = GaugesC!SumOf(GaugesC!Restrict(u, DOMAIN u \cap ga_visible))
  <2>1. ga_updates[k] \in Seq(GaUpdates) /\ u \in Entries(ga_updates[k])
    BY <1>3, GaListsAre DEF GaInv, GaTyped, GaShort
  <2>2. u \in GaUpdates
    BY <2>1 DEF Entries
  <2> QED BY <1>3, <2>2, GaSeriesIs
<1>4. ASSUME NEW k \in GaKpis, ga_strip[k].value # GaugesC!Never
      PROVE  /\ GaugesC!Zone(k, GaugesC!Needle(k)) = GaugesC!Grade(k, ga_strip[k].value)
             /\ GaugesC!GaugeScale(k) # GaugesC!Never /\ ga_strip[k].value > GaugesC!GaugeScale(k)
                  => GaugesC!Zone(k, GaugesC!Needle(k)) \in {"danger", "none"}
  <2>1. ga_strip[k].value \in Int /\ ga_strip[k].value # -1
    BY <1>4 DEF GaInv, GaTyped, GaStrips, GaugesC!Never
  <2> QED BY <2>1, GaZoneIs
<1>5. ASSUME NEW c \in ga_grid
      PROVE  GaugesC!Rank(GaugesC!Grade(c.kpi, c.value))
               <= GaugesC!Rank(GaugesC!GradeOf(GaugesC!BuildRows[1]))
  BY GaFirstIs DEF GaInv, GaTyped, GaR
<1> QED BY <1>1, <1>2, <1>3, <1>4, <1>5, Zenon DEF GaugesC!GaugesTrue

LEMMA GaGridHearsIs ==
  ASSUME NEW g \in SUBSET GaCells, IsFiniteSet(g), NEW k \in GaKpis, NEW vals \in GaUpdates,
         NEW picked
  PROVE  LET h == GaugesC!GridHears(g, k, vals, picked)
         IN  h \in SUBSET GaCells /\ IsFiniteSet(h)
<1> DEFINE of == picked \cap DOMAIN vals
           kept == {c \in g : c.kpi # k \/ c.obj \notin of}
           cell == [o \in of |-> [obj |-> o, kpi |-> k, value |-> vals[o]]]
           new == {[obj |-> o, kpi |-> k, value |-> vals[o]] : o \in of}
<1>1. GaugesC!GridHears(g, k, vals, picked) = kept \cup new
  BY DEF GaugesC!GridHears
<1>2. kept \in SUBSET GaCells /\ IsFiniteSet(kept)
  BY FS_Subset
<1>3. of \in SUBSET GaObjs /\ \A o \in of : vals[o] \in GaValues
  BY DEF GaUpdates
<1>4. new \in SUBSET GaCells
  BY <1>3 DEF GaCells
<1>5. IsFiniteSet(new)
  <2>1. IsFiniteSet(of) /\ DOMAIN cell = of
    BY <1>3, FS_Subset, WindowChartsAssumption
  <2>2. IsFiniteSet({cell[o] : o \in of})
    <3> HIDE DEF of, cell
    <3> QED BY <2>1, ImageFinite
  <2>3. {cell[o] : o \in of} = new
    OBVIOUS
  <2> QED BY <2>2, <2>3
<1>6. IsFiniteSet(kept \cup new)
  <2> HIDE DEF kept, new
  <2> QED BY <1>2, <1>5, FS_Union
<1> QED BY <1>1, <1>2, <1>4, <1>6

\* An update that only the listeners of the picked servers hear.
LEMMA GaGridTells ==
  ASSUME NEW k, NEW vals, ga_grid \subseteq GaSent
  PROVE  GaugesC!GridHears(ga_grid, k, vals, ga_visible)
           \subseteq {s \in {s \in ga_sent : s.kpi # k \/ s.obj \notin DOMAIN vals}
                              \cup {[obj |-> o, kpi |-> k, value |-> vals[o]] : o \in DOMAIN vals}
                        : s.obj \in ga_visible}
BY DEF GaugesC!GridHears, GaSent

LEMMA GaDataKeeps ==
  ASSUME GaInv, NEW k \in GaKpis, NEW vals \in GaUpdates, GaugesC!CounterData(k, vals)
  PROVE  GaInv'
<1> DEFINE hear == (IF ga_enabled THEN {ga_visible} ELSE {}) \cup ga_late
<1>1. /\ ga_enabled \/ ga_late # {}
      /\ ga_strip' = GaugesC!StripAfter(ga_strip, k, vals, hear)
      /\ ga_grid' = GaugesC!GridHears(ga_grid, k, vals, UNION hear)
      /\ ga_updates' = IF ga_enabled THEN [ga_updates EXCEPT ![k] = GaugesC!Appended(@, vals)]
                       ELSE ga_updates
      /\ ga_crossed' = (ga_crossed \/ ga_late # {})
      /\ ga_sent' = {s \in ga_sent : s.kpi # k \/ s.obj \notin DOMAIN vals}
                    \cup {[obj |-> o, kpi |-> k, value |-> vals[o]] : o \in DOMAIN vals}
      /\ UNCHANGED <<ga_enabled, ga_visible, ga_late>>
  BY DEF GaugesC!CounterData
<1>2. IsFiniteSet(hear)
  <2>1. IsFiniteSet(SUBSET GaObjs) /\ hear \in SUBSET SUBSET GaObjs
    BY FS_SUBSET, WindowChartsAssumption DEF GaInv, GaTyped
  <2> HIDE DEF hear
  <2> QED BY <2>1, FS_Subset
<1>3. ga_strip' \in GaStrips
  <2> HIDE DEF hear
  <2> QED BY <1>1, <1>2, GaStripAfterIs DEF GaInv, GaTyped
<1>4. ga_grid' \in SUBSET GaCells /\ IsFiniteSet(ga_grid')
  <2> HIDE DEF hear
  <2> QED BY <1>1, GaGridHearsIs DEF GaInv, GaTyped
<1>5. ga_updates' \in [GaKpis -> GaShort(GaUpdates)]
  <2>1. GaugesC!Appended(ga_updates[k], vals) \in GaShort(GaUpdates)
    BY GaAppendedIs DEF GaInv, GaTyped
  <2> QED BY <1>1, <2>1 DEF GaInv, GaTyped
<1>6. ga_crossed' \in BOOLEAN /\ GaTyped'
  BY <1>1, <1>3, <1>4, <1>5 DEF GaInv, GaTyped
<1>7. ASSUME ~ga_crossed' PROVE ga_grid' \subseteq GaSent'
  <2>1. ga_late = {} /\ ga_enabled /\ ~ga_crossed
    BY <1>1, <1>7
  <2>2. UNION hear = ga_visible
    BY <2>1
  <2>3. ga_grid \subseteq GaSent
    BY <2>1 DEF GaInv
  <2>4. ga_grid' = GaugesC!GridHears(ga_grid, k, vals, ga_visible)
    BY <1>1, <2>2
  <2> HIDE DEF hear
  <2> QED BY <1>1, <2>3, <2>4, GaGridTells DEF GaSent
<1> QED BY <1>6, <1>7 DEF GaInv

LEMMA GaNoStripIs ==
  GaugesC!NoStrip \in GaStrips /\ [k \in GaKpis |-> <<>>] \in [GaKpis -> GaShort(GaUpdates)]
<1>1. \A S : <<>> \in GaShort(S)
  BY NoEntries, WindowChartsAssumption DEF GaShort
<1> QED BY <1>1 DEF GaugesC!NoStrip, GaugesC!Never, GaStrips

LEMMA GaNextKeeps ==
  ASSUME GaInv, GaugesC!Next
  PROVE  GaInv'
<1>1. CASE \E k \in GaKpis, vals \in GaugesC!Updates : GaugesC!CounterData(k, vals)
  BY <1>1, GaDataKeeps DEF GaugesC!Updates, GaUpdates
<1>2. CASE \E ps \in SUBSET GaObjs \ {{}} : GaugesC!Pick(ps)
  <2>1. PICK ps \in SUBSET GaObjs : GaugesC!Pick(ps)
    BY <1>2
  <2>2. /\ ga_visible' = ps /\ ga_grid' = {c \in ga_grid : c.obj \in ps}
        /\ ga_late' \in {ga_late, ga_late \cup {ga_visible}}
        /\ UNCHANGED <<ga_enabled, ga_strip, ga_updates, ga_sent, ga_crossed>>
    BY <2>1 DEF GaugesC!Pick
  <2>3. ga_grid' \in SUBSET GaCells /\ IsFiniteSet(ga_grid')
    BY <2>2, FS_Subset DEF GaInv, GaTyped
  <2>4. ga_late' \in SUBSET SUBSET GaObjs
    BY <2>2 DEF GaInv, GaTyped
  <2>5. GaTyped'
    BY <2>2, <2>3, <2>4 DEF GaInv, GaTyped
  <2>6. ~ga_crossed' => ga_grid' \subseteq GaSent'
    BY <2>2 DEF GaInv, GaSent
  <2> QED BY <2>5, <2>6 DEF GaInv
<1>3. CASE GaugesC!Disable
  <2>1. /\ ga_enabled' = FALSE /\ ga_strip' = GaugesC!NoStrip /\ ga_grid' = {}
        /\ ga_updates' = [k \in GaKpis |-> <<>>] /\ ga_crossed' = FALSE
        /\ ga_late' \in {ga_late, ga_late \cup {ga_visible}} /\ ga_visible' = ga_visible
    BY <1>3 DEF GaugesC!Disable
  <2>2. ga_late' \in SUBSET SUBSET GaObjs /\ IsFiniteSet(ga_grid')
    BY <2>1, FS_EmptySet DEF GaInv, GaTyped
  <2> QED BY <2>1, <2>2, GaNoStripIs DEF GaInv, GaTyped
<1>4. CASE (\E p \in ga_late : GaugesC!TakenOff(p)) \/ GaugesC!Enable
  <2>1. /\ ga_late' \in SUBSET ga_late /\ ga_enabled' \in BOOLEAN
        /\ UNCHANGED <<ga_visible, ga_strip, ga_grid, ga_updates, ga_sent, ga_crossed>>
    BY <1>4 DEF GaugesC!TakenOff, GaugesC!Enable, GaInv, GaTyped
  <2> QED BY <2>1 DEF GaInv, GaTyped, GaSent
<1>5. CASE (\E f \in {"each", "total", "service"} : GaugesC!Fold(f)) \/ GaugesC!Tick
  <2>1. UNCHANGED <<ga_enabled, ga_late, ga_visible, ga_strip, ga_grid, ga_updates, ga_sent,
                    ga_crossed>>
    BY <1>5 DEF GaugesC!Fold, GaugesC!Tick
  <2> QED BY <2>1 DEF GaInv, GaTyped, GaSent
<1> QED BY <1>1, <1>2, <1>3, <1>4, <1>5, Zenon DEF GaugesC!Next

LEMMA GaugesInit == Init => (which = "Gauges" => GaInv)
<1> SUFFICES ASSUME Init, which = "Gauges" PROVE GaInv
  OBVIOUS
<1>1. GaugesC!Init
  BY DEF Init
<1>2. /\ ga_visible = GaObjs /\ ga_late = {} /\ ga_enabled = TRUE /\ ga_crossed = FALSE
      /\ ga_strip = GaugesC!NoStrip /\ ga_grid = {} /\ ga_updates = [k \in GaKpis |-> <<>>]
  BY <1>1 DEF GaugesC!Init
<1> QED BY <1>2, GaNoStripIs, FS_EmptySet DEF GaInv, GaTyped

LEMMA GaugesStep ==
  (which = "Gauges" => GaInv) /\ [Next]_allVars => (which = "Gauges" => GaInv)'
<1> SUFFICES ASSUME which = "Gauges" => GaInv, [Next]_allVars
             PROVE  (which = "Gauges" => GaInv)'
  OBVIOUS
<1>1. CASE Next
  <2> SUFFICES ASSUME which' = "Gauges" PROVE GaInv'
    OBVIOUS
  <2>1. which = "Gauges" /\ GaugesC!Next
    BY <1>1, Turns
  <2> QED BY <2>1, GaNextKeeps
<1>2. CASE UNCHANGED allVars
  BY <1>2 DEF allVars, GaugesVars, GaInv, GaTyped, GaSent
<1> QED BY <1>1, <1>2

\* The grid has, of the picked servers, what the stream sent last, as long as no listener
\* that was given up heard it; the lines of a chart add up to what was sent, however they
\* are folded; a gauge and its tile tell the same grade, also off the scale; and the grid
\* begins with one of the worst (useKpiSamples.ts, useInstanceKpis.ts, instanceRows.ts,
\* counterSeries.ts, gauge.ts).
THEOREM CountersAgree == Spec => []CountersTrue
<1>1. (which = "Gauges" => GaInv) => CountersTrue
  BY GaInvSays DEF CountersTrue
<1> QED BY GaugesInit, GaugesStep, <1>1, PTL DEF Spec

-----------------------------------------------------------------------------
(* The profile of a transaction: hits, summary and the search over many.   *)

LEMMA PvListsAre ==
  /\ \A s, K : ProfileViewC!Only(s, K) = Only(s, K)
  /\ \A f : ProfileViewC!SumOf(f) = SumOf(f)
  /\ \A S, up : ProfileViewC!SortedSet(S, up) = SortedSet(S, up)
  /\ \A S : ProfileViewC!Cardinality(S) = Cardinality(S)
  /\ \A s : ProfileViewC!Range(s) = Entries(s)
<1>0. ASSUME NEW s, NEW K PROVE ProfileViewC!Only(s, K) = Only(s, K)
  BY DEF ProfileViewC!Only, Only
<1>1. ASSUME NEW f PROVE ProfileViewC!SumOf(f) = SumOf(f)
  BY DEF ProfileViewC!SumOf, SumOf
<1>2. \A S : ProfileViewC!Cardinality(S) = Cardinality(S)
  BY DEF ProfileViewC!Cardinality, Cardinality
<1>3. ASSUME NEW S PROVE ProfileViewC!Enumerated(S) = Enumerated(S)
  BY <1>2 DEF ProfileViewC!Enumerated, Enumerated
<1>4. ASSUME NEW s, NEW up PROVE ProfileViewC!Ordered(s, up) = Ordered(s, up)
  <2> DEFINE Upto(i) == {j \in DOMAIN s : <<j, i>> \in up \/ (<<i, j>> \notin up /\ j <= i)}
             there == [i \in DOMAIN s |-> ProfileViewC!Cardinality(Upto(i))]
             place == [i \in DOMAIN s |-> Cardinality(Upto(i))]
  <2>1. there = place
    <3> HIDE DEF Upto
    <3> QED BY <1>2
  <2>2. ProfileViewC!Ordered(s, up) = [k \in DOMAIN s |-> s[CHOOSE i \in DOMAIN s : there[i] = k]]
    BY DEF ProfileViewC!Ordered
  <2>3. Ordered(s, up) = [k \in DOMAIN s |-> s[CHOOSE i \in DOMAIN s : place[i] = k]]
    BY DEF Ordered
  <2> HIDE DEF there, place
  <2> QED BY <2>1, <2>2, <2>3
<1>5. ASSUME NEW S, NEW up PROVE ProfileViewC!SortedSet(S, up) = SortedSet(S, up)
  <2> DEFINE s == Enumerated(S)
             upto == {p \in (DOMAIN s) \X (DOMAIN s) : <<s[p[1]], s[p[2]]>> \in up}
  <2>1. ProfileViewC!SortedSet(S, up) = ProfileViewC!Ordered(s, upto)
    BY <1>3, Zenon DEF ProfileViewC!SortedSet
  <2>2. SortedSet(S, up) = Ordered(s, upto)
    BY Zenon DEF SortedSet
  <2> HIDE DEF s, upto
  <2> QED BY <1>4, <2>1, <2>2
<1>6. ASSUME NEW s PROVE ProfileViewC!Range(s) = Entries(s)
  BY DEF ProfileViewC!Range, Entries
<1> QED BY <1>0, <1>1, <1>2, <1>5, <1>6

PvTabs == PvTxs \cup {"nobody"}

LEMMA PvStepsAre ==
  ASSUME pv_tab \in PvTabs
  PROVE  /\ ProfileViewC!Steps \in Seq(PvSteps)
         /\ ~pv_loaded => ProfileViewC!Steps = <<>>
<1>1. pv_tab # "nobody" => PvProfiles[pv_tab] \in Seq(PvSteps)
  BY ProfilesAssumption DEF PvTabs
<1> QED BY <1>1, NoEntries DEF ProfileViewC!Steps, ProfileViewC!Nobody

\* The hits of a text: some of the steps, in the order of the steps.
LEMMA PvHitsAre ==
  ASSUME NEW steps \in Seq(PvSteps), NEW q
  PROVE  LET hits == ProfileViewC!FindStepHits(steps, q)
         IN  /\ hits \in Seq(Nat \ {0}) /\ Len(hits) \in Nat /\ DOMAIN hits = 1..Len(hits)
             /\ \A n \in DOMAIN hits : hits[n] \in ProfileViewC!Known(steps)
             /\ steps = <<>> => Len(hits) = 0
<1> DEFINE all == [i \in DOMAIN steps |-> i]
           K == {i \in DOMAIN steps : ProfileViewC!Matches(steps[i], q)}
           hits == ProfileViewC!FindStepHits(steps, q)
<1>1. all \in Seq(Nat \ {0}) /\ Len(all) = Len(steps)
  OBVIOUS
<1>2. hits = Only(all, K)
  BY PvListsAre DEF ProfileViewC!FindStepHits
<1>3. hits \in Seq(Nat \ {0}) /\ Len(hits) <= Len(steps) /\ Entries(hits) = Entries(all) \cap K
  <2> HIDE DEF all, K
  <2> QED BY <1>1, <1>2, OnlyIs
<1>4. K \in SUBSET ProfileViewC!Known(steps)
  BY DEF ProfileViewC!Known, ProfileViewC!Matches
<1> HIDE DEF hits
<1>5. \A n \in DOMAIN hits : hits[n] \in K
  BY <1>3 DEF Entries
<1>6. Len(hits) \in Nat /\ DOMAIN hits = 1..Len(hits)
  BY <1>3
<1>7. steps = <<>> => Len(hits) = 0
  BY <1>3, <1>6
<1> QED BY <1>3, <1>4, <1>5, <1>6, <1>7 DEF hits

LEMMA PvLitIs ==
  ASSUME NEW steps \in Seq(PvSteps), NEW q, NEW h,
         NEW p \in ProfileViewC!Known(steps) \cup {0}
  PROVE  ProfileViewC!Lit(ProfileViewC!FindStepHits(steps, q), h, p)
           \in ProfileViewC!Known(steps) \cup {0}
<1> DEFINE hits == ProfileViewC!FindStepHits(steps, q)
<1>1. \A n \in DOMAIN hits : hits[n] \in ProfileViewC!Known(steps)
  BY PvHitsAre
<1> QED BY <1>1 DEF ProfileViewC!Lit, ProfileViewC!NoStep

\* The summary: one row for each kind and name, with its steps counted and summed.
PvOf(steps, k) == {i \in ProfileViewC!Known(steps) : ProfileViewC!KeyOf(steps[i]) = k}
PvSum(steps, k) ==
  SumOf([i \in PvOf(steps, k) |-> IF steps[i].kind = "Message" THEN 0 ELSE steps[i].ms])
PvRow(steps, k) ==
  [key |-> k, count |-> Cardinality(PvOf(steps, k)), sum |-> PvSum(steps, k),
   avg |-> (2 * PvSum(steps, k) + Cardinality(PvOf(steps, k)))
             \div (2 * Cardinality(PvOf(steps, k)))]

LEMMA PvRowIs ==
  ASSUME NEW steps \in Seq(PvSteps), NEW i \in ProfileViewC!Known(steps)
  PROVE  LET k == ProfileViewC!KeyOf(steps[i])
             r == PvRow(steps, k)
         IN  /\ IsFiniteSet(PvOf(steps, k)) /\ i \in PvOf(steps, k)
             /\ r.count = Cardinality(PvOf(steps, k)) /\ r.key = k
             /\ r.count \in Int /\ r.sum \in Int /\ r.avg \in Int
<1> DEFINE k == ProfileViewC!KeyOf(steps[i])
           C == PvOf(steps, k)
           f == [j \in C |-> IF steps[j].kind = "Message" THEN 0 ELSE steps[j].ms]
           n == Cardinality(C)
           s == PvSum(steps, k)
           r == PvRow(steps, k)
<1>1. C \in SUBSET (1..Len(steps)) /\ i \in C /\ Len(steps) \in Nat
  BY DEF PvOf, ProfileViewC!Known
<1>2. IsFiniteSet(C)
  <2>1. IsFiniteSet(1..Len(steps))
    BY <1>1, FS_Interval
  <2> HIDE DEF C
  <2> QED BY <1>1, <2>1, FS_Subset
<1>3. n \in Nat /\ n # 0
  <2> HIDE DEF C
  <2> QED BY <1>1, <1>2, FS_CardinalityType, FS_EmptySet
<1>4. f \in [C -> Int]
  <2>1. \A j \in C : steps[j] \in PvSteps
    BY <1>1
  <2>2. \A j \in C : steps[j].ms \in Nat
    BY <2>1 DEF PvSteps
  <2> HIDE DEF C
  <2> QED BY <2>2
<1>5. s \in Int
  <2>1. SumOf(f) \in Int
    <3> HIDE DEF C, f
    <3> QED BY <1>2, <1>4, SumOut
  <2> QED BY <2>1 DEF PvSum
<1>6. r = [key |-> k, count |-> n, sum |-> s, avg |-> (2 * s + n) \div (2 * n)]
  BY DEF PvRow
<1> HIDE DEF k, C, s, n, r
<1>7. (2 * s + n) \div (2 * n) \in Int
  BY <1>3, <1>5
<1>8. r.key = k /\ r.count = n /\ r.sum = s /\ r.avg \in Int
  BY <1>6, <1>7
<1> QED BY <1>1, <1>2, <1>3, <1>5, <1>8 DEF n, k, r, C

LEMMA PvKnownFinite ==
  ASSUME NEW steps \in Seq(PvSteps)
  PROVE  /\ IsFiniteSet(ProfileViewC!Known(steps)) /\ ProfileViewC!Known(steps) \in SUBSET (Nat \ {0})
         /\ ProfileViewC!Known(steps) \in SUBSET DOMAIN steps
<1>1. ProfileViewC!Known(steps) \in SUBSET (1..Len(steps)) /\ Len(steps) \in Nat
  BY DEF ProfileViewC!Known
<1>2. IsFiniteSet(1..Len(steps))
  BY <1>1, FS_Interval
<1> QED BY <1>1, <1>2, FS_Subset

LEMMA PvSummaryIs ==
  ASSUME NEW steps \in Seq(PvSteps)
  PROVE  LET known == ProfileViewC!Known(steps)
             rows == ProfileViewC!SummarizeSteps(steps)
         IN  /\ rows = {PvRow(steps, ProfileViewC!KeyOf(steps[i])) : i \in known}
             /\ IsFiniteSet(rows)
             /\ ProfileViewC!SumOf([r \in rows |-> r.count]) = ProfileViewC!Cardinality(known)
<1> DEFINE known == ProfileViewC!Known(steps)
           rows == ProfileViewC!SummarizeSteps(steps)
           key(i) == ProfileViewC!KeyOf(steps[i])
           f == [i \in known |-> 1]
           b == [i \in known |-> PvRow(steps, key(i))]
           c == [r \in rows |-> r.count]
<1>1. rows = {PvRow(steps, key(i)) : i \in known}
  <2> DEFINE of(k) == {i \in known : key(i) = k}
             sum(k) == ProfileViewC!SumOf([i \in of(k) |->
                         IF steps[i].kind = "Message" THEN 0 ELSE steps[i].ms])
             row(k) == [key |-> k, count |-> ProfileViewC!Cardinality(of(k)), sum |-> sum(k),
                        avg |-> (2 * sum(k) + ProfileViewC!Cardinality(of(k)))
                                  \div (2 * ProfileViewC!Cardinality(of(k)))]
  <2>1. rows = {row(k) : k \in {key(i) : i \in known}}
    BY Zenon DEF ProfileViewC!SummarizeSteps
  <2>2. \A k : of(k) = PvOf(steps, k)
    BY DEF PvOf
  <2>3. \A k : ProfileViewC!Cardinality(of(k)) = Cardinality(PvOf(steps, k))
    <3> HIDE DEF of
    <3> QED BY <2>2, PvListsAre
  <2>4. ASSUME NEW k PROVE sum(k) = PvSum(steps, k)
    BY PvListsAre DEF PvSum, PvOf
  <2>5. ASSUME NEW k PROVE row(k) = PvRow(steps, k)
    <3> HIDE DEF sum, of
    <3> QED BY <2>3, <2>4, Zenon DEF PvRow
  <2> HIDE DEF row, known, key
  <2> QED BY <2>1, <2>5
<1>2. IsFiniteSet(known)
  BY PvKnownFinite
<1> HIDE DEF known, rows, key
<1>3. IsFiniteSet(rows) /\ b \in [known -> rows]
  <2>1. IsFiniteSet({b[i] : i \in known})
    BY <1>2, ImageFinite
  <2>2. {b[i] : i \in known} = rows
    BY <1>1
  <2> QED BY <2>1, <2>2
<1>4. ASSUME NEW y \in rows
      PROVE  c[y] \in Int /\ c[y] = Over(f, OfKey(known, b, y))
  <2>1. PICK i \in known : y = PvRow(steps, key(i))
    BY <1>1, <1>4
  <2> DEFINE T == PvOf(steps, key(i))
  <2>2. \A j \in known : PvRow(steps, key(j)).key = key(j)
    BY PvRowIs DEF known, key
  <2>3. /\ IsFiniteSet(T) /\ y.count = Cardinality(T) /\ y.count \in Int
    BY <2>1, PvRowIs DEF known, key
  <2>4. OfKey(known, b, y) = {j \in known : PvRow(steps, key(j)) = y}
    BY DEF OfKey
  <2>5. {j \in known : PvRow(steps, key(j)) = y} = {j \in known : key(j) = key(i)}
    BY <2>1, <2>2
  <2>6. {j \in known : key(j) = key(i)} = T
    BY DEF PvOf, known, key
  <2> HIDE DEF T
  <2>7. [x \in T |-> f[x]] = [x \in T |-> 1]
    BY <2>6
  <2>8. SumOf([x \in T |-> 1]) = Cardinality(T)
    BY <2>3, SumOfOnes
  <2>9. Over(f, OfKey(known, b, y)) = SumOf([x \in T |-> f[x]])
    BY <2>4, <2>5, <2>6, Zenon DEF Over
  <2>10. c[y] = y.count
    OBVIOUS
  <2> QED BY <2>3, <2>7, <2>8, <2>9, <2>10
<1>5. f \in [known -> Int] /\ c \in [rows -> Int]
  <2>1. f \in [known -> Int]
    OBVIOUS
  <2>2. DOMAIN c = rows /\ \A y \in rows : c[y] \in Int
    BY <1>4
  <2>3. c = [y \in rows |-> c[y]]
    OBVIOUS
  <2> HIDE DEF c, f
  <2> QED BY <2>1, <2>2, <2>3
<1>6. SumOf(f) = SumOf(c)
  <2>1. \A y \in rows : c[y] = Over(f, OfKey(known, b, y))
    BY <1>4
  <2> HIDE DEF f, c, b
  <2> QED BY <1>2, <1>3, <1>5, <2>1, SumByKey, SMTT(60)
<1>7. SumOf(f) = Cardinality(known)
  BY <1>2, SumOfOnes
<1> HIDE DEF c, f
<1>8. ProfileViewC!SumOf(c) = ProfileViewC!Cardinality(known)
  BY <1>6, <1>7, PvListsAre
<1> QED BY <1>1, <1>3, <1>8 DEF c, known, rows, key

LEMMA PvSortedIs ==
  ASSUME NEW steps \in Seq(PvSteps), pv_sort \in {"sum", "count", "avg"}
  PROVE  LET sorted == ProfileViewC!SortSummary(ProfileViewC!SummarizeSteps(steps))
         IN  \A i, j \in DOMAIN sorted : i < j => sorted[i][pv_sort] >= sorted[j][pv_sort]
<1> DEFINE rows == ProfileViewC!SummarizeSteps(steps)
           v(r) == r[pv_sort]
           up == {p \in rows \X rows : v(p[1]) > v(p[2])}
           sorted == SortedSet(rows, up)
<1>1. ProfileViewC!SortSummary(rows) = sorted
  BY PvListsAre DEF ProfileViewC!SortSummary
<1>2. \A r \in rows : v(r) \in Int
  <2> SUFFICES ASSUME NEW r \in rows PROVE v(r) \in Int
    OBVIOUS
  <2>1. PICK i \in ProfileViewC!Known(steps) : r = PvRow(steps, ProfileViewC!KeyOf(steps[i]))
    BY PvSummaryIs
  <2>2. r.count \in Int /\ r.sum \in Int /\ r.avg \in Int
    BY <2>1, PvRowIs
  <2> QED BY <2>2
<1>3. IsFiniteSet(rows)
  BY PvSummaryIs
<1> HIDE DEF v, rows
<1>4. \A x, y \in rows : <<x, y>> \in up <=> v(x) > v(y)
  OBVIOUS
<1> HIDE DEF up
<1>5. Compares(rows, up)
  <2>1. ASSUME NEW x \in rows, NEW y \in rows, NEW z \in rows
        PROVE  /\ <<x, y>> \in up => <<y, x>> \notin up
               /\ <<x, z>> \in up => <<x, y>> \in up \/ <<y, z>> \in up
    <3>1. v(x) \in Int /\ v(y) \in Int /\ v(z) \in Int
      BY <1>2
    <3>2. /\ <<x, y>> \in up <=> v(x) > v(y)
          /\ <<y, x>> \in up <=> v(y) > v(x)
          /\ <<x, z>> \in up <=> v(x) > v(z)
          /\ <<y, z>> \in up <=> v(y) > v(z)
      BY <1>4
    <3> QED BY <3>1, <3>2
  <2> QED BY <2>1 DEF Compares
<1>6. /\ sorted \in Seq(rows)
      /\ \A k, l \in DOMAIN sorted : k < l => <<sorted[l], sorted[k]>> \notin up
  BY <1>3, <1>5, SortedSetIs
<1> HIDE DEF sorted
<1>7. ASSUME NEW i \in DOMAIN sorted, NEW j \in DOMAIN sorted, i < j
      PROVE  v(sorted[i]) >= v(sorted[j])
  <2>1. sorted[i] \in rows /\ sorted[j] \in rows
    BY <1>6
  <2>2. <<sorted[j], sorted[i]>> \notin up
    BY <1>6, <1>7
  <2>3. ~(v(sorted[j]) > v(sorted[i]))
    BY <1>4, <2>1, <2>2
  <2> QED BY <1>2, <2>1, <2>3
<1> QED BY <1>1, <1>7 DEF v, rows

\* A row of the summary leads to a step of the list.
LEMMA PvFirstIs ==
  ASSUME NEW steps \in Seq(PvSteps), NEW row \in ProfileViewC!SummarizeSteps(steps)
  PROVE  ProfileViewC!FirstStepIndexOf(steps, row.key) \in ProfileViewC!Known(steps)
<1> DEFINE S == {i \in ProfileViewC!Known(steps) : ProfileViewC!KeyOf(steps[i]) = row.key}
<1>1. PICK i \in ProfileViewC!Known(steps) : row = PvRow(steps, ProfileViewC!KeyOf(steps[i]))
  BY PvSummaryIs
<1>2. row.key = ProfileViewC!KeyOf(steps[i])
  BY <1>1, PvRowIs
<1>3. S # {} /\ S \in SUBSET Nat
  BY <1>2, PvKnownFinite
<1>4. \E m \in S : \A y \in S : m <= y
  <2> HIDE DEF S
  <2> QED BY <1>3, LeastOf
<1>5. ProfileViewC!FirstStepIndexOf(steps, row.key) = ProfileViewC!Min(S)
  BY DEF ProfileViewC!FirstStepIndexOf
<1>6. ProfileViewC!Min(S) \in S
  BY <1>4 DEF ProfileViewC!Min
<1> QED BY <1>5, <1>6

\* The panel: the hit the user stands at is one, and what is picked is in the list.
PvTrueOf(steps, q, h, p) ==
  /\ h \in Nat /\ (h = 0 \/ h < Len(ProfileViewC!FindStepHits(steps, q)))
  /\ p \in ProfileViewC!Known(steps) \cup {0}
PvPanel ==
  /\ pv_tab \in PvTabs /\ pv_loaded \in BOOLEAN /\ pv_sort \in {"sum", "count", "avg"}
  /\ PvTrueOf(ProfileViewC!Steps, ProfileViewC!Query, pv_hitIdx, pv_picked)

LEMMA PvRendersIs ==
  ASSUME NEW steps \in Seq(PvSteps), NEW q, NEW h \in Nat, NEW m,
         NEW p \in ProfileViewC!Known(steps) \cup {0},
         q = ProfileViewC!Query => PvTrueOf(steps, q, h, p),
         ProfileViewC!Renders(steps, q, h, p, m)
  PROVE  PvTrueOf(steps, q, pv_hitIdx', pv_picked')
<1> DEFINE fresh == q # ProfileViewC!Query
<1>1. /\ pv_hitIdx' = IF fresh THEN 0 ELSE h
      /\ pv_picked' = IF fresh THEN 0 ELSE p
  BY DEF ProfileViewC!Renders, ProfileViewC!NoStep
<1> QED BY <1>1 DEF PvTrueOf

LEMMA PvPanelSays ==
  ASSUME PvPanel
  PROVE  /\ pv_hitIdx < Len(ProfileViewC!StepHits) \/ pv_hitIdx = 0
         /\ ProfileViewC!Highlight # ProfileViewC!NoStep
              => ProfileViewC!Highlight \in ProfileViewC!Known(ProfileViewC!Steps)
         /\ pv_loaded /\ pv_profileMode = "summary" =>
              LET rows == ProfileViewC!SummarizeSteps(ProfileViewC!Steps)
              IN  /\ ProfileViewC!SumOf([r \in rows |-> r.count])
                       = ProfileViewC!Cardinality(ProfileViewC!Known(ProfileViewC!Steps))
                  /\ \A i, j \in DOMAIN ProfileViewC!SortSummary(rows) :
                       i < j => ProfileViewC!SortSummary(rows)[i][pv_sort]
                                  >= ProfileViewC!SortSummary(rows)[j][pv_sort]
<1>1. ProfileViewC!Steps \in Seq(PvSteps)
  BY PvStepsAre DEF PvPanel
<1>2. pv_hitIdx < Len(ProfileViewC!StepHits) \/ pv_hitIdx = 0
  BY DEF PvPanel, PvTrueOf, ProfileViewC!StepHits
<1>3. ProfileViewC!Highlight \in ProfileViewC!Known(ProfileViewC!Steps) \cup {0}
  BY <1>1, PvLitIs DEF PvPanel, PvTrueOf, ProfileViewC!Highlight, ProfileViewC!StepHits
<1>4. pv_sort \in {"sum", "count", "avg"}
  BY DEF PvPanel
<1> QED BY <1>1, <1>2, <1>3, <1>4, PvSummaryIs, PvSortedIs DEF ProfileViewC!NoStep

\* The dialog of a body: its hit is one of the text and the shape it shows.
PvBody ==
  /\ pv_dialog \in [step : Nat, pretty : BOOLEAN, query : PvTexts, hit : Nat]
  /\ pv_dialog.hit = 0 \/ pv_dialog.hit < ProfileViewC!HitsIn(pv_dialog)

\* The search: what was passed of the list it was asked about is told truly, and one run is
\* of the present search.
PvFound(q, K) == {x \in K : ProfileViewC!FindStepHits(PvProfiles[x], q) # <<>>}
PvUpTo(s, n) == {s[i] : i \in 1..n}
PvLists(s) == s \in Seq(PvTxs) /\ Distinct(s)
PvTells(s, list, out) ==
  /\ s.total = Len(list) /\ s.done <= Len(list)
  /\ out \in SUBSET PvUpTo(list, s.done) /\ s.failed = Cardinality(out)
  /\ s.hits = PvFound(s.query, PvUpTo(list, s.done) \ out)
PvStates == [running : BOOLEAN, hits : SUBSET PvTxs, done : Nat, total : Nat, failed : Nat,
             error : BOOLEAN, query : PvTexts]
PvRun == [gen |-> pv_gen, targets |-> pv_asked, query |-> pv_search.query, at |-> pv_search.done]
PvSearch ==
  /\ pv_gen \in Nat /\ PvLists(pv_chosen) /\ PvLists(pv_asked) /\ pv_search \in PvStates
  /\ pv_search.query = "" => pv_search = ProfileViewC!IDLE
  /\ pv_search.query # "" => PvTells(pv_search, pv_asked, pv_lost)
  /\ pv_search.query # "" /\ ~pv_search.running /\ ~pv_search.error /\ ~pv_cancelled
       => pv_search.done = Len(pv_asked)
  /\ \A r \in pv_onTheWay :
       /\ r.gen \in Nat /\ r.gen <= pv_gen
       /\ r.gen = pv_gen => r = PvRun /\ pv_search.query # "" /\ pv_search.running

LEMMA PvSearchSays == PvSearch => ProfileViewC!SearchExact
<1> SUFFICES ASSUME PvSearch PROVE ProfileViewC!SearchExact
  OBVIOUS
<1>1. /\ pv_asked \in Seq(PvTxs) /\ pv_search \in PvStates
      /\ DOMAIN pv_asked = 1..Len(pv_asked) /\ Len(pv_asked) \in Nat
  <2>1. PvLists(pv_asked) /\ pv_search \in PvStates
    BY Zenon DEF PvSearch
  <2>2. pv_asked \in Seq(PvTxs)
    BY <2>1, Zenon DEF PvLists
  <2> QED BY <2>1, <2>2
<1>2. ProfileViewC!Range(pv_asked) = PvUpTo(pv_asked, Len(pv_asked))
  BY <1>1, PvListsAre DEF Entries, PvUpTo
<1>3. CASE pv_search.query = ""
  <2>1. pv_search = ProfileViewC!IDLE
    BY <1>3, Zenon DEF PvSearch
  <2>2. pv_search.hits = {} /\ pv_search.done = 0 /\ pv_search.total = 0
    BY <2>1 DEF ProfileViewC!IDLE
  <2>3. pv_search.hits \subseteq ProfileViewC!Range(pv_asked) /\ pv_search.done <= pv_search.total
    BY <2>2
  <2> QED BY <1>3, <2>3, Zenon DEF ProfileViewC!SearchExact
<1>4. CASE pv_search.query # ""
  <2>1. PvTells(pv_search, pv_asked, pv_lost)
    BY <1>4 DEF PvSearch
  <2>2. pv_search.done \in Nat /\ pv_search.done <= Len(pv_asked)
    BY <1>1, <2>1 DEF PvStates, PvTells
  <2>3. PvUpTo(pv_asked, pv_search.done) \subseteq PvUpTo(pv_asked, Len(pv_asked))
    BY <1>1, <2>2 DEF PvUpTo
  <2>4. pv_search.hits \subseteq PvUpTo(pv_asked, Len(pv_asked))
    BY <2>1, <2>3 DEF PvTells, PvFound
  <2>5. ASSUME ~pv_search.running, ~pv_search.error, ~pv_cancelled
        PROVE  /\ pv_search.done = Len(pv_asked) /\ pv_search.failed = Cardinality(pv_lost)
               /\ pv_search.hits = PvFound(pv_search.query, PvUpTo(pv_asked, Len(pv_asked)) \ pv_lost)
    <3>1. pv_search.done = Len(pv_asked)
      BY <1>4, <2>5 DEF PvSearch
    <3> QED BY <2>1, <3>1 DEF PvTells
  <2>6. pv_search.done <= pv_search.total
    BY <2>1 DEF PvTells
  <2>7. \A K : PvFound(pv_search.query, K)
                 = {x \in K : ProfileViewC!FindStepHits(PvProfiles[x], pv_search.query) # <<>>}
    BY DEF PvFound
  <2>8. ProfileViewC!Cardinality(pv_lost) = Cardinality(pv_lost)
    BY PvListsAre
  <2> HIDE DEF PvUpTo, PvFound
  <2> QED BY <1>2, <2>4, <2>5, <2>6, <2>7, <2>8, Zenon DEF ProfileViewC!SearchExact
<1> QED BY <1>3, <1>4

LEMMA PvLeast ==
  ASSUME NEW a \in Int, NEW b \in Int
  PROVE  ProfileViewC!Min({a, b}) = IF a <= b THEN a ELSE b
<1> DEFINE m == IF a <= b THEN a ELSE b
<1>1. m \in {a, b} /\ \A y \in {a, b} : m <= y
  OBVIOUS
<1>2. \A x \in {a, b} : (\A y \in {a, b} : x <= y) => x = m
  OBVIOUS
<1> QED BY <1>1, <1>2 DEF ProfileViewC!Min

\* A batch is the next piece of the list.
LEMMA PvBatchIs ==
  ASSUME NEW s \in Seq(PvTxs), NEW at \in Nat, at <= Len(s)
  PROVE  LET batch == SubSeq(s, at + 1, ProfileViewC!Min({at + PvBatch, Len(s)}))
             next == at + Len(batch)
         IN  /\ next \in Nat /\ at <= next /\ next <= Len(s)
             /\ Entries(batch) = {s[i] : i \in (at + 1)..next}
<1> DEFINE m == ProfileViewC!Min({at + PvBatch, Len(s)})
           batch == SubSeq(s, at + 1, m)
<1>1. PvBatch \in Nat /\ Len(s) \in Nat
  <2>1. PvBatch \in Nat
    BY ProfilesAssumption, Zenon
  <2> QED BY <2>1
<1>2. m = IF at + PvBatch <= Len(s) THEN at + PvBatch ELSE Len(s)
  BY <1>1, PvLeast
<1> HIDE DEF m
<1>3. m \in Nat /\ at <= m /\ m <= Len(s)
  BY <1>1, <1>2
<1>4. /\ Len(batch) = m - at /\ DOMAIN batch = 1..(m - at)
      /\ \A i \in 1..(m - at) : batch[i] = s[at + i]
  BY <1>1, <1>3
<1> HIDE DEF batch
<1>5. Entries(batch) = {s[at + i] : i \in 1..(m - at)}
  BY <1>4 DEF Entries
<1>6. {s[at + i] : i \in 1..(m - at)} = {s[i] : i \in (at + 1)..m}
  <2>1. ASSUME NEW i \in 1..(m - at) PROVE at + i \in (at + 1)..m
    BY <1>3
  <2>2. ASSUME NEW i \in (at + 1)..m PROVE i - at \in 1..(m - at) /\ at + (i - at) = i
    BY <1>3
  <2> QED BY <2>1, <2>2
<1>7. at + Len(batch) = m
  BY <1>3, <1>4
<1> QED BY <1>3, <1>5, <1>6, <1>7 DEF m, batch

LEMMA PvUpToFinite ==
  ASSUME NEW list \in Seq(PvTxs), NEW n \in Nat
  PROVE  IsFiniteSet(PvUpTo(list, n))
<1> DEFINE f == [i \in 1..n |-> list[i]]
<1>1. IsFiniteSet(1..n)
  BY FS_Interval
<1>2. IsFiniteSet({f[i] : i \in 1..n})
  <2>1. DOMAIN f = 1..n
    OBVIOUS
  <2> HIDE DEF f
  <2> QED BY <1>1, <2>1, ImageFinite
<1>3. {f[i] : i \in 1..n} = PvUpTo(list, n)
  BY DEF PvUpTo
<1> QED BY <1>2, <1>3

\* What a batch adds is told as truly as what was told before.
LEMMA PvAnswerIs ==
  ASSUME NEW list, PvLists(list), NEW s \in PvStates, NEW lost, PvTells(s, list, lost),
         NEW next \in Nat, s.done <= next, next <= Len(list),
         NEW batch, batch = {list[i] : i \in (s.done + 1)..next}, NEW out \in SUBSET batch,
         NEW t, t.total = s.total, t.query = s.query, t.done = next,
         t.failed = s.failed + Cardinality(out),
         t.hits = s.hits \cup PvFound(s.query, batch \ out)
  PROVE  PvTells(t, list, lost \cup out)
<1> DEFINE P == PvUpTo(list, s.done)
           Q == PvUpTo(list, next)
<1>1. /\ list \in Seq(PvTxs) /\ Distinct(list) /\ s.done \in Nat
      /\ Len(list) \in Nat /\ DOMAIN list = 1..Len(list)
  <2>1. list \in Seq(PvTxs) /\ Distinct(list)
    BY DEF PvLists
  <2>2. s.done \in Nat
    BY DEF PvStates
  <2> QED BY <2>1, <2>2
<1>2. lost \in SUBSET P /\ s.failed = Cardinality(lost) /\ s.total = Len(list)
      /\ s.hits = PvFound(s.query, P \ lost)
  BY DEF PvTells
<1>3. P \cup batch = Q
  BY <1>1 DEF PvUpTo
<1>4. P \cap batch = {}
  <2>1. ASSUME NEW i \in 1..s.done, NEW j \in (s.done + 1)..next PROVE list[i] # list[j]
    <3>1. i \in DOMAIN list /\ j \in DOMAIN list /\ i # j
      BY <1>1
    <3> QED BY <1>1, <3>1 DEF Distinct
  <2> QED BY <2>1 DEF PvUpTo
<1>5. IsFiniteSet(P) /\ IsFiniteSet(Q)
  BY <1>1, PvUpToFinite
<1> HIDE DEF P, Q
<1>6. IsFiniteSet(lost) /\ IsFiniteSet(out) /\ lost \cap out = {}
  <2>1. out \in SUBSET Q
    BY <1>3
  <2> QED BY <1>2, <1>4, <1>5, <2>1, FS_Subset
<1>7. Cardinality(lost \cup out) = Cardinality(lost) + Cardinality(out)
  <2>1. Cardinality(lost \cap out) = 0
    BY <1>6, FS_EmptySet
  <2>2. Cardinality(lost) \in Nat /\ Cardinality(out) \in Nat
    BY <1>6, FS_CardinalityType
  <2>3. Cardinality(lost \cup out) = Cardinality(lost) + Cardinality(out) - Cardinality(lost \cap out)
    BY <1>6, FS_Union
  <2> QED BY <2>1, <2>2, <2>3
<1>8. PvFound(s.query, P \ lost) \cup PvFound(s.query, batch \ out)
        = PvFound(s.query, Q \ (lost \cup out))
  BY <1>2, <1>3, <1>4 DEF PvFound
<1>9. lost \cup out \in SUBSET Q
  BY <1>2, <1>3
<1> QED BY <1>1, <1>2, <1>7, <1>8, <1>9 DEF PvTells, Q

LEMMA PvIdleIs ==
  ProfileViewC!IDLE \in PvStates /\ ProfileViewC!IDLE.query = ""
BY ProfilesAssumption DEF ProfileViewC!IDLE, PvStates

\* A render of the search's making.
LEMMA PvBecomesIs ==
  ASSUME PvPanel, NEW s, ProfileViewC!SearchBecomes(s)
  PROVE  PvPanel' /\ pv_search' = s /\ pv_dialog' = pv_dialog
<1> DEFINE steps == ProfileViewC!Steps
           q == ProfileViewC!QueryOf(pv_panelQuery, s.query)
<1>1. /\ pv_search' = s /\ ProfileViewC!Renders(steps, q, pv_hitIdx, pv_picked, pv_profileMode)
      /\ UNCHANGED <<pv_tab, pv_loaded, pv_panelQuery, pv_sort, pv_dialog>>
  BY DEF ProfileViewC!SearchBecomes
<1>2. steps' = steps /\ ProfileViewC!Query' = q
  BY <1>1 DEF ProfileViewC!Steps, ProfileViewC!Query
<1>3. steps \in Seq(PvSteps)
  BY PvStepsAre DEF PvPanel
<1>4. PvTrueOf(steps, ProfileViewC!Query, pv_hitIdx, pv_picked)
  BY DEF PvPanel
<1>5. pv_hitIdx \in Nat /\ pv_picked \in ProfileViewC!Known(steps) \cup {0}
  BY <1>4 DEF PvTrueOf
<1> HIDE DEF steps, q
<1>6. PvTrueOf(steps, q, pv_hitIdx', pv_picked')
  BY <1>1, <1>3, <1>4, <1>5, PvRendersIs
<1>7. PvTrueOf(steps', ProfileViewC!Query', pv_hitIdx', pv_picked')
  BY <1>2, <1>6
<1> QED BY <1>1, <1>7 DEF PvPanel, steps

\* What the search is left as by all that does not search.
LEMMA PvSearchStays ==
  ASSUME PvSearch,
         UNCHANGED <<pv_search, pv_gen, pv_cancelled, pv_onTheWay, pv_asked, pv_lost>>,
         PvLists(pv_chosen')
  PROVE  PvSearch'
BY DEF PvSearch, PvRun

LEMMA PvPanelStays ==
  ASSUME PvPanel, UNCHANGED <<pv_tab, pv_loaded, pv_panelQuery, pv_hitIdx, pv_picked, pv_search>>,
         pv_sort' \in {"sum", "count", "avg"}
  PROVE  PvPanel'
<1>1. ProfileViewC!Steps' = ProfileViewC!Steps /\ ProfileViewC!Query' = ProfileViewC!Query
  BY DEF ProfileViewC!Steps, ProfileViewC!Query
<1>2. PvTrueOf(ProfileViewC!Steps, ProfileViewC!Query, pv_hitIdx, pv_picked)
  BY DEF PvPanel
<1>3. PvTrueOf(ProfileViewC!Steps', ProfileViewC!Query', pv_hitIdx', pv_picked')
  BY <1>1, <1>2
<1> QED BY <1>3 DEF PvPanel

LEMMA PvAnswerKeeps ==
  ASSUME PvPanel, PvSearch, NEW r \in pv_onTheWay, ProfileViewC!BatchAnswer(r)
  PROVE  PvPanel' /\ PvSearch' /\ pv_dialog' = pv_dialog
<1> DEFINE batch == SubSeq(r.targets, r.at + 1,
                           ProfileViewC!Min({r.at + PvBatch, Len(r.targets)}))
           next == r.at + Len(batch)
           others == pv_onTheWay \ {r}
           found(out) == {x \in ProfileViewC!Range(batch) \ out :
                            ProfileViewC!FindStepHits(PvProfiles[x], r.query) # <<>>}
           goes == next < Len(r.targets) /\ ~pv_cancelled
           more(out) == [pv_search EXCEPT !.running = goes, !.done = next,
                           !.failed = @ + ProfileViewC!Cardinality(out), !.hits = @ \cup found(out)]
           broken == [pv_search EXCEPT !.running = FALSE, !.error = TRUE]
<1>1. /\ UNCHANGED <<pv_chosen, pv_gen, pv_cancelled, pv_asked>>
      /\ IF r.gen # pv_gen
         THEN pv_onTheWay' = others /\ UNCHANGED <<ProfileViewC!panel, pv_search, pv_lost>>
         ELSE \/ \E out \in SUBSET ProfileViewC!Range(batch) :
                   /\ pv_lost' = pv_lost \cup out
                   /\ pv_onTheWay' = IF goes THEN others \cup {[r EXCEPT !.at = next]} ELSE others
                   /\ ProfileViewC!SearchBecomes(more(out))
              \/ /\ ProfileViewC!SearchBecomes(broken)
                 /\ pv_onTheWay' = others /\ UNCHANGED pv_lost
  BY Zenon DEF ProfileViewC!BatchAnswer
<1>2. /\ pv_gen \in Nat /\ pv_search \in PvStates /\ PvLists(pv_chosen) /\ PvLists(pv_asked)
      /\ pv_search.query # "" => PvTells(pv_search, pv_asked, pv_lost)
      /\ \A x \in pv_onTheWay :
           /\ x.gen \in Nat /\ x.gen <= pv_gen
           /\ x.gen = pv_gen => x = PvRun /\ pv_search.query # "" /\ pv_search.running
  BY Zenon DEF PvSearch
<1> HIDE DEF batch, goes
<1>3. CASE r.gen # pv_gen
  <2>1. /\ pv_onTheWay' \in SUBSET pv_onTheWay
        /\ UNCHANGED <<pv_search, pv_lost, pv_tab, pv_loaded, pv_panelQuery, pv_hitIdx, pv_picked,
                       pv_sort, pv_dialog>>
    BY <1>1, <1>3 DEF ProfileViewC!panel
  <2>2. PvPanel'
    BY <2>1, PvPanelStays DEF PvPanel
  <2>3. PvSearch'
    BY <1>1, <2>1 DEF PvSearch, PvRun
  <2> QED BY <2>1, <2>2, <2>3
<1>4. CASE r.gen = pv_gen
  <2>1. r = PvRun /\ pv_search.query # "" /\ pv_search.running
    BY <1>2, <1>4
  <2>2. PvTells(pv_search, pv_asked, pv_lost)
    BY <1>2, <2>1
  <2>3. r.targets = pv_asked /\ r.at = pv_search.done /\ r.query = pv_search.query
    BY <2>1 DEF PvRun
  <2>4. \A x \in others : x.gen \in Nat /\ x.gen <= pv_gen /\ x.gen # pv_gen
    BY <1>2, <2>1
  <2>5. CASE ProfileViewC!SearchBecomes(broken) /\ pv_onTheWay' = others /\ UNCHANGED pv_lost
    <3>1. PvPanel' /\ pv_search' = broken /\ pv_dialog' = pv_dialog
      BY <2>5, PvBecomesIs
    <3>2. /\ broken \in PvStates /\ broken.total = pv_search.total /\ broken.done = pv_search.done
          /\ broken.failed = pv_search.failed /\ broken.hits = pv_search.hits
          /\ broken.query = pv_search.query /\ broken.error = TRUE
      BY <1>2 DEF PvStates
    <3> HIDE DEF broken
    <3>3. PvTells(broken, pv_asked, pv_lost)
      BY <2>2, <3>2 DEF PvTells
    <3>4. PvSearch'
      <4>1. \A x \in pv_onTheWay' : x.gen \in Nat /\ x.gen <= pv_gen' /\ x.gen # pv_gen'
        BY <1>1, <2>4, <2>5
      <4>2. pv_gen' \in Nat /\ PvLists(pv_chosen') /\ PvLists(pv_asked') /\ pv_search' \in PvStates
        BY <1>1, <1>2, <3>1, <3>2
      <4>3. PvTells(pv_search', pv_asked', pv_lost') /\ pv_search'.query # "" /\ pv_search'.error
        BY <1>1, <2>1, <2>5, <3>1, <3>2, <3>3
      <4> QED BY <4>1, <4>2, <4>3, Zenon DEF PvSearch
    <3> QED BY <3>1, <3>4
  <2>6. CASE \E out \in SUBSET ProfileViewC!Range(batch) :
               /\ pv_lost' = pv_lost \cup out
               /\ pv_onTheWay' = IF goes THEN others \cup {[r EXCEPT !.at = next]} ELSE others
               /\ ProfileViewC!SearchBecomes(more(out))
    <3>1. PICK out \in SUBSET ProfileViewC!Range(batch) :
               /\ pv_lost' = pv_lost \cup out
               /\ pv_onTheWay' = IF goes THEN others \cup {[r EXCEPT !.at = next]} ELSE others
               /\ ProfileViewC!SearchBecomes(more(out))
      BY <2>6
    <3> DEFINE t == more(out)
               B == ProfileViewC!Range(batch)
    <3>2. PvPanel' /\ pv_search' = t /\ pv_dialog' = pv_dialog
      BY <3>1, PvBecomesIs
    <3>3. /\ pv_asked \in Seq(PvTxs) /\ Len(pv_asked) \in Nat /\ pv_search.done \in Nat
          /\ pv_search.done <= Len(pv_asked)
      <4>1. pv_asked \in Seq(PvTxs) /\ pv_search.done \in Nat
        BY <1>2 DEF PvLists, PvStates
      <4> QED BY <2>2, <4>1 DEF PvTells
    <3>4. /\ next \in Nat /\ pv_search.done <= next /\ next <= Len(pv_asked)
          /\ B = {pv_asked[i] : i \in (pv_search.done + 1)..next}
      BY <2>3, <3>3, PvBatchIs, PvListsAre DEF batch
    <3>5. found(out) = PvFound(pv_search.query, B \ out)
      BY <2>3 DEF PvFound
    <3>6. ProfileViewC!Cardinality(out) = Cardinality(out) /\ Cardinality(out) \in Nat
      <4>1. B \in SUBSET PvUpTo(pv_asked, next)
        BY <3>3, <3>4 DEF PvUpTo
      <4>2. IsFiniteSet(out)
        BY <3>1, <3>3, <3>4, <4>1, PvUpToFinite, FS_Subset
      <4> QED BY <4>2, PvListsAre, FS_CardinalityType
    <3>7. found(out) \in SUBSET PvTxs
      <4>1. \A i \in (pv_search.done + 1)..next : pv_asked[i] \in PvTxs
        BY <3>3, <3>4
      <4> QED BY <3>4, <4>1
    <3> HIDE DEF next, found, B
    <3>8. /\ t \in PvStates /\ t.total = pv_search.total /\ t.query = pv_search.query
          /\ t.done = next /\ t.failed = pv_search.failed + Cardinality(out)
          /\ t.hits = pv_search.hits \cup PvFound(pv_search.query, B \ out)
          /\ t.running = goes
      <4>1. goes \in BOOLEAN
        BY DEF goes
      <4>2. pv_search.failed \in Nat /\ pv_search.hits \in SUBSET PvTxs
        BY <1>2 DEF PvStates
      <4> DEFINE n == pv_search.failed + Cardinality(out)
                 H == pv_search.hits \cup PvFound(pv_search.query, B \ out)
      <4>3. n \in Nat /\ H \in SUBSET PvTxs
        BY <3>5, <3>6, <3>7, <4>2
      <4>4. t = [pv_search EXCEPT !.running = goes, !.done = next, !.failed = n, !.hits = H]
        BY <3>5, <3>6
      <4> HIDE DEF n, H, t
      <4>5. /\ t \in PvStates /\ t.total = pv_search.total /\ t.query = pv_search.query
            /\ t.done = next /\ t.failed = n /\ t.hits = H /\ t.running = goes
        BY <1>2, <3>4, <4>1, <4>3, <4>4 DEF PvStates
      <4> QED BY <4>5 DEF n, H
    <3> HIDE DEF t
    <3>9. PvTells(t, pv_asked, pv_lost \cup out)
      <4>1. out \in SUBSET B
        BY DEF B
      <4> QED BY <1>2, <2>2, <3>4, <3>8, <4>1, PvAnswerIs
    <3>10. ~t.running /\ ~pv_cancelled => t.done = Len(pv_asked)
      <4> SUFFICES ASSUME ~t.running, ~pv_cancelled PROVE t.done = Len(pv_asked)
        OBVIOUS
      <4>1. ~goes
        BY <3>8
      <4>2. ~(next < Len(pv_asked))
        BY <2>3, <4>1 DEF goes, next
      <4> QED BY <3>3, <3>4, <3>8, <4>2
    <3>11. ASSUME NEW x \in pv_onTheWay'
           PROVE  /\ x.gen \in Nat /\ x.gen <= pv_gen
                  /\ x.gen = pv_gen => x = PvRun' /\ t.running
      <4>1. CASE x \in others
        BY <2>4, <4>1
      <4>2. CASE x \notin others
        <5>1. goes /\ x = [r EXCEPT !.at = next]
          BY <3>1, <3>11, <4>2
        <5>2. x = [gen |-> pv_gen, targets |-> pv_asked, query |-> pv_search.query, at |-> next]
          BY <2>1, <5>1 DEF PvRun
        <5>3. PvRun' = [gen |-> pv_gen, targets |-> pv_asked, query |-> pv_search.query, at |-> next]
          BY <1>1, <3>2, <3>8 DEF PvRun
        <5> QED BY <1>2, <3>8, <5>1, <5>2, <5>3
      <4> QED BY <4>1, <4>2
    <3>12. PvSearch'
      <4>1. /\ pv_gen' \in Nat /\ PvLists(pv_chosen') /\ PvLists(pv_asked') /\ pv_search' \in PvStates
            /\ pv_search'.query # "" /\ PvTells(pv_search', pv_asked', pv_lost')
        BY <1>1, <1>2, <2>1, <3>1, <3>2, <3>8, <3>9
      <4>2. ~pv_search'.running /\ ~pv_cancelled' => pv_search'.done = Len(pv_asked')
        BY <1>1, <3>2, <3>10
      <4>3. \A x \in pv_onTheWay' :
               /\ x.gen \in Nat /\ x.gen <= pv_gen'
               /\ x.gen = pv_gen' => x = PvRun' /\ pv_search'.running
        BY <1>1, <3>2, <3>11
      <4> QED BY <4>1, <4>2, <4>3, Zenon DEF PvSearch
    <3> QED BY <3>2, <3>12
  <2> QED BY <1>1, <1>4, <2>5, <2>6
<1> QED BY <1>3, <1>4

PvInv == PvPanel /\ PvBody /\ PvSearch

LEMMA PvInvSays == PvInv => ProfileViewC!HitsTrue /\ ProfileViewC!SearchExact
<1> SUFFICES ASSUME PvInv PROVE ProfileViewC!HitsTrue /\ ProfileViewC!SearchExact
  OBVIOUS
<1>1. PvPanel /\ PvBody /\ PvSearch
  BY DEF PvInv
<1>2. pv_dialog # ProfileViewC!NoDialog
        => pv_dialog.hit < ProfileViewC!HitsIn(pv_dialog) \/ pv_dialog.hit = 0
  BY <1>1, Zenon DEF PvBody
<1>3. ProfileViewC!HitsTrue
  BY <1>1, <1>2, PvPanelSays, Zenon DEF ProfileViewC!HitsTrue
<1> QED BY <1>1, <1>3, PvSearchSays

\* A render of the user's making, which neither searches nor opens a body.
LEMMA PvUserRenders ==
  ASSUME PvInv, NEW q, NEW h \in Nat, NEW m,
         NEW p \in ProfileViewC!Known(ProfileViewC!Steps) \cup {0},
         q = ProfileViewC!QueryOf(pv_panelQuery', pv_search.query),
         q = ProfileViewC!Query => PvTrueOf(ProfileViewC!Steps, q, h, p),
         ProfileViewC!Renders(ProfileViewC!Steps, q, h, p, m),
         UNCHANGED <<pv_tab, pv_loaded, pv_sort, pv_dialog, pv_chosen, ProfileViewC!finding>>
  PROVE  PvInv'
<1> DEFINE steps == ProfileViewC!Steps
<1>1. PvPanel /\ PvBody /\ PvSearch
  BY DEF PvInv
<1>2. UNCHANGED <<pv_search, pv_gen, pv_cancelled, pv_onTheWay, pv_asked, pv_lost>>
  BY DEF ProfileViewC!finding
<1>3. steps' = steps /\ ProfileViewC!Query' = q
  BY <1>2 DEF ProfileViewC!Steps, ProfileViewC!Query
<1>4. steps \in Seq(PvSteps)
  BY <1>1, PvStepsAre DEF PvPanel
<1>5. PvTrueOf(steps, q, pv_hitIdx', pv_picked')
  <2> HIDE DEF steps
  <2> QED BY <1>4, PvRendersIs DEF steps
<1>6. PvTrueOf(steps', ProfileViewC!Query', pv_hitIdx', pv_picked')
  BY <1>3, <1>5
<1>7. PvPanel'
  BY <1>1, <1>6 DEF PvPanel
<1>8. PvBody'
  BY <1>1 DEF PvBody, ProfileViewC!HitsIn
<1>9. PvSearch'
  <2>1. PvLists(pv_chosen')
    BY <1>1, Zenon DEF PvSearch
  <2> QED BY <1>1, <1>2, <2>1, PvSearchStays
<1> QED BY <1>7, <1>8, <1>9 DEF PvInv

\* Another tab begins with nothing.
LEMMA PvShowKeeps ==
  ASSUME PvInv, NEW x \in PvTabs, ProfileViewC!Show(x)
  PROVE  PvInv'
<1>1. PvPanel /\ PvBody /\ PvSearch
  BY DEF PvInv
<1>2. /\ pv_tab' = x /\ pv_loaded' = FALSE /\ pv_hitIdx' = 0 /\ pv_picked' = 0
      /\ pv_sort' = "sum" /\ pv_dialog' = ProfileViewC!NoDialog /\ pv_chosen' = pv_chosen
      /\ UNCHANGED <<pv_search, pv_gen, pv_cancelled, pv_onTheWay, pv_asked, pv_lost>>
  BY DEF ProfileViewC!Show, ProfileViewC!finding, ProfileViewC!NoStep
<1>3. \A s, q : PvTrueOf(s, q, 0, 0)
  BY DEF PvTrueOf
<1>4. PvTrueOf(ProfileViewC!Steps', ProfileViewC!Query', pv_hitIdx', pv_picked')
  BY <1>2, <1>3
<1>5. PvPanel'
  BY <1>2, <1>4 DEF PvPanel
<1>6. PvBody'
  BY <1>2, ProfilesAssumption DEF PvBody, ProfileViewC!NoDialog, ProfileViewC!NoStep
<1>7. PvSearch'
  <2>1. PvLists(pv_chosen')
    BY <1>1, <1>2, Zenon DEF PvSearch
  <2> QED BY <1>1, <1>2, <2>1, PvSearchStays
<1> QED BY <1>5, <1>6, <1>7 DEF PvInv

\* The profile comes: until then there was no hit to stand at.
LEMMA PvLoadedKeeps ==
  ASSUME PvInv, ProfileViewC!Loaded
  PROVE  PvInv'
<1> DEFINE steps == PvProfiles[pv_tab]
           q == ProfileViewC!Query
<1>1. PvPanel /\ PvBody /\ PvSearch
  BY DEF PvInv
<1>2. /\ pv_tab # "nobody" /\ ~pv_loaded /\ pv_loaded' = TRUE
      /\ ProfileViewC!Renders(steps, q, pv_hitIdx, pv_picked, pv_profileMode)
      /\ UNCHANGED <<pv_tab, pv_panelQuery, pv_sort, pv_dialog, pv_chosen>>
      /\ UNCHANGED <<pv_search, pv_gen, pv_cancelled, pv_onTheWay, pv_asked, pv_lost>>
  BY DEF ProfileViewC!Loaded, ProfileViewC!finding, ProfileViewC!Nobody
<1>3. ProfileViewC!Steps = <<>> /\ ProfileViewC!Steps' = steps /\ ProfileViewC!Query' = q
  BY <1>2 DEF ProfileViewC!Steps, ProfileViewC!Query, ProfileViewC!Nobody
<1>4. steps \in Seq(PvSteps) /\ <<>> \in Seq(PvSteps)
  <2>1. pv_tab \in PvTxs
    BY <1>1, <1>2 DEF PvPanel, PvTabs
  <2> QED BY <2>1, ProfilesAssumption, NoEntries
<1>5. pv_hitIdx = 0 /\ pv_picked = 0
  <2>1. PvTrueOf(<<>>, q, pv_hitIdx, pv_picked)
    BY <1>1, <1>3 DEF PvPanel
  <2>2. Len(ProfileViewC!FindStepHits(<<>>, q)) = 0
    BY <1>4, PvHitsAre
  <2>3. ProfileViewC!Known(<<>>) = {}
    BY DEF ProfileViewC!Known
  <2> QED BY <2>1, <2>2, <2>3 DEF PvTrueOf
<1> HIDE DEF steps, q
<1>6. PvTrueOf(steps, q, pv_hitIdx', pv_picked')
  <2>1. PvTrueOf(steps, q, pv_hitIdx, pv_picked)
    BY <1>5 DEF PvTrueOf
  <2>2. pv_hitIdx \in Nat /\ pv_picked \in ProfileViewC!Known(steps) \cup {0}
    BY <1>5
  <2> QED BY <1>2, <1>4, <2>1, <2>2, PvRendersIs
<1>7. PvPanel'
  <2>1. PvTrueOf(ProfileViewC!Steps', ProfileViewC!Query', pv_hitIdx', pv_picked')
    BY <1>3, <1>6
  <2> QED BY <1>1, <1>2, <2>1 DEF PvPanel
<1>8. PvBody'
  BY <1>1, <1>2 DEF PvBody, ProfileViewC!HitsIn
<1>9. PvSearch'
  <2>1. PvLists(pv_chosen')
    BY <1>1, <1>2, Zenon DEF PvSearch
  <2> QED BY <1>1, <1>2, <2>1, PvSearchStays
<1> QED BY <1>7, <1>8, <1>9 DEF PvInv

LEMMA PvRendersKeep ==
  ASSUME PvInv,
         \/ \E q \in PvTexts : ProfileViewC!Type(q)
         \/ \E d \in {1, -1} : ProfileViewC!MoveHit(d)
         \/ \E m \in {"list", "summary"} : ProfileViewC!SetMode(m)
         \/ \E row \in ProfileViewC!SummarizeSteps(ProfileViewC!Steps) : ProfileViewC!Pick(row)
  PROVE  PvInv'
<1>1. /\ PvTrueOf(ProfileViewC!Steps, ProfileViewC!Query, pv_hitIdx, pv_picked)
      /\ pv_hitIdx \in Nat /\ pv_picked \in ProfileViewC!Known(ProfileViewC!Steps) \cup {0}
  <2>1. PvTrueOf(ProfileViewC!Steps, ProfileViewC!Query, pv_hitIdx, pv_picked)
    BY DEF PvInv, PvPanel
  <2> QED BY <2>1 DEF PvTrueOf
<1>2. ProfileViewC!Steps \in Seq(PvSteps)
  BY PvStepsAre DEF PvInv, PvPanel
<1>3. CASE \E q \in PvTexts : ProfileViewC!Type(q)
  <2>1. PICK q \in PvTexts : ProfileViewC!Type(q)
    BY <1>3
  <2> DEFINE now == ProfileViewC!QueryOf(q, pv_search.query)
  <2>2. /\ pv_panelQuery' = q
        /\ ProfileViewC!Renders(ProfileViewC!Steps, now, pv_hitIdx, pv_picked, pv_profileMode)
        /\ UNCHANGED <<pv_tab, pv_loaded, pv_sort, pv_dialog, pv_chosen, ProfileViewC!finding>>
    BY <2>1 DEF ProfileViewC!Type
  <2>3. now = ProfileViewC!QueryOf(pv_panelQuery', pv_search.query)
    BY <2>2
  <2> HIDE DEF now
  <2>4. now = ProfileViewC!Query => PvTrueOf(ProfileViewC!Steps, now, pv_hitIdx, pv_picked)
    BY <1>1
  <2> QED BY <1>1, <2>2, <2>3, <2>4, PvUserRenders
<1>4. CASE \E d \in {1, -1} : ProfileViewC!MoveHit(d)
  <2>1. PICK d \in {1, -1} : ProfileViewC!MoveHit(d)
    BY <1>4
  <2> DEFINE L == Len(ProfileViewC!StepHits)
             h == (pv_hitIdx + d + L) % L
  <2>2. /\ ProfileViewC!StepHits # <<>> /\ pv_panelQuery' = pv_panelQuery
        /\ ProfileViewC!Renders(ProfileViewC!Steps, ProfileViewC!Query, h, pv_picked, pv_profileMode)
        /\ UNCHANGED <<pv_tab, pv_loaded, pv_sort, pv_dialog, pv_chosen, ProfileViewC!finding>>
    BY <2>1 DEF ProfileViewC!MoveHit
  <2>3. L \in Nat /\ L # 0
    <3>1. ProfileViewC!StepHits \in Seq(Nat \ {0})
      BY <1>2, PvHitsAre DEF ProfileViewC!StepHits
    <3> QED BY <2>2, <3>1
  <2>4. h \in Nat /\ h < L
    <3> HIDE DEF L
    <3> QED BY <1>1, <2>3
  <2>5. ProfileViewC!Query = ProfileViewC!QueryOf(pv_panelQuery', pv_search.query)
    BY <2>2 DEF ProfileViewC!Query
  <2> HIDE DEF h
  <2>6. PvTrueOf(ProfileViewC!Steps, ProfileViewC!Query, h, pv_picked)
    BY <1>1, <2>4 DEF PvTrueOf, ProfileViewC!StepHits
  <2> HIDE DEF L
  <2> QED BY <1>1, <2>2, <2>4, <2>5, <2>6, PvUserRenders
<1>5. CASE \E m \in {"list", "summary"} : ProfileViewC!SetMode(m)
  <2>1. PICK m : ProfileViewC!SetMode(m)
    BY <1>5
  <2>2. /\ pv_panelQuery' = pv_panelQuery
        /\ ProfileViewC!Renders(ProfileViewC!Steps, ProfileViewC!Query, pv_hitIdx, pv_picked, m)
        /\ UNCHANGED <<pv_tab, pv_loaded, pv_sort, pv_dialog, pv_chosen, ProfileViewC!finding>>
    BY <2>1 DEF ProfileViewC!SetMode
  <2>3. ProfileViewC!Query = ProfileViewC!QueryOf(pv_panelQuery', pv_search.query)
    BY <2>2 DEF ProfileViewC!Query
  <2> QED BY <1>1, <2>2, <2>3, PvUserRenders
<1>6. CASE \E row \in ProfileViewC!SummarizeSteps(ProfileViewC!Steps) : ProfileViewC!Pick(row)
  <2>1. PICK row \in ProfileViewC!SummarizeSteps(ProfileViewC!Steps) : ProfileViewC!Pick(row)
    BY <1>6
  <2> DEFINE p == ProfileViewC!FirstStepIndexOf(ProfileViewC!Steps, row.key)
  <2>2. /\ pv_panelQuery' = pv_panelQuery
        /\ ProfileViewC!Renders(ProfileViewC!Steps, ProfileViewC!Query, pv_hitIdx, p, "list")
        /\ UNCHANGED <<pv_tab, pv_loaded, pv_sort, pv_dialog, pv_chosen, ProfileViewC!finding>>
    BY <2>1 DEF ProfileViewC!Pick
  <2>3. p \in ProfileViewC!Known(ProfileViewC!Steps) \cup {0}
    BY <1>2, <2>1, PvFirstIs
  <2>4. ProfileViewC!Query = ProfileViewC!QueryOf(pv_panelQuery', pv_search.query)
    BY <2>2 DEF ProfileViewC!Query
  <2> HIDE DEF p
  <2>5. PvTrueOf(ProfileViewC!Steps, ProfileViewC!Query, pv_hitIdx, p)
    BY <1>1, <2>3 DEF PvTrueOf
  <2> QED BY <1>1, <2>2, <2>3, <2>4, <2>5, PvUserRenders
<1> QED BY <1>3, <1>4, <1>5, <1>6

\* What changes neither the query nor the steps.
LEMMA PvStaysKeeps ==
  ASSUME PvInv, PvBody',
         UNCHANGED <<pv_tab, pv_loaded, pv_panelQuery, pv_hitIdx, pv_picked, pv_search, pv_gen,
                     pv_onTheWay, pv_asked, pv_lost>>,
         pv_sort' \in {"sum", "count", "avg"},
         pv_cancelled' = pv_cancelled \/ pv_cancelled' = TRUE, PvLists(pv_chosen')
  PROVE  PvInv'
<1>1. PvPanel'
  BY PvPanelStays DEF PvInv
<1>2. PvSearch'
  BY DEF PvInv, PvSearch, PvRun
<1> QED BY <1>1, <1>2 DEF PvInv

LEMMA PvBodyKeeps ==
  ASSUME PvBody, ProfileViewC!InDialog
  PROVE  PvBody'
<1> DEFINE Bodies == [step : Nat, pretty : BOOLEAN, query : PvTexts, hit : Nat]
<1>1. pv_dialog \in Bodies /\ "" \in PvTexts
  BY ProfilesAssumption, Zenon DEF PvBody
<1>2. \A d \in Bodies : ProfileViewC!HitsIn(d) \in Nat
  <2>1. \A q \in PvTexts \ {""}, pretty \in BOOLEAN : PvBodyHits[q][pretty] \in Nat
    BY ProfilesAssumption, Zenon
  <2> QED BY <2>1 DEF ProfileViewC!HitsIn
<1>3. CASE \E q \in PvTexts : pv_dialog' = [pv_dialog EXCEPT !.query = q, !.hit = 0]
  <2>1. PICK q \in PvTexts : pv_dialog' = [pv_dialog EXCEPT !.query = q, !.hit = 0]
    BY <1>3
  <2>2. pv_dialog' \in Bodies /\ pv_dialog'.hit = 0
    BY <1>1, <2>1
  <2> QED BY <2>2 DEF PvBody
<1>4. CASE pv_dialog' = [pv_dialog EXCEPT !.pretty = ~@, !.hit = 0]
  <2> DEFINE b == ~pv_dialog.pretty
  <2>1. b \in BOOLEAN
    OBVIOUS
  <2>2. pv_dialog' = [pv_dialog EXCEPT !.pretty = b, !.hit = 0]
    BY <1>4
  <2> HIDE DEF b
  <2>3. pv_dialog' \in Bodies /\ pv_dialog'.hit = 0
    BY <1>1, <2>1, <2>2
  <2> QED BY <2>3 DEF PvBody
<1>5. CASE \E d \in {1, -1} :
             /\ ProfileViewC!HitsIn(pv_dialog) > 0
             /\ pv_dialog' = [pv_dialog EXCEPT !.hit = (@ + d + ProfileViewC!HitsIn(pv_dialog))
                                                        % ProfileViewC!HitsIn(pv_dialog)]
  <2> DEFINE n == ProfileViewC!HitsIn(pv_dialog)
  <2>1. PICK d \in {1, -1} : n > 0 /\ pv_dialog' = [pv_dialog EXCEPT !.hit = (@ + d + n) % n]
    BY <1>5
  <2> DEFINE h == (pv_dialog.hit + d + n) % n
  <2>2. n \in Nat /\ pv_dialog.hit \in Nat
    BY <1>1, <1>2
  <2>3. h \in Nat /\ h < n
    <3> HIDE DEF n
    <3> QED BY <2>1, <2>2
  <2>4. pv_dialog' = [pv_dialog EXCEPT !.hit = h]
    BY <2>1
  <2> HIDE DEF h
  <2>5. pv_dialog' \in Bodies /\ pv_dialog'.hit = h
        /\ pv_dialog'.query = pv_dialog.query /\ pv_dialog'.pretty = pv_dialog.pretty
    BY <1>1, <2>3, <2>4
  <2>6. ProfileViewC!HitsIn(pv_dialog') = n
    BY <2>5 DEF ProfileViewC!HitsIn
  <2> QED BY <2>3, <2>5, <2>6 DEF PvBody
<1>6. CASE pv_dialog' = ProfileViewC!NoDialog
  BY <1>1, <1>6 DEF PvBody, ProfileViewC!NoDialog, ProfileViewC!NoStep
<1> QED BY <1>3, <1>4, <1>5, <1>6, Zenon DEF ProfileViewC!InDialog

\* A new run: nothing is passed yet, and what still comes of older ones is not its.
LEMMA PvRunKeeps ==
  ASSUME PvInv, NEW q \in PvTexts, ProfileViewC!Run(q)
  PROVE  PvInv'
<1> DEFINE s == [ProfileViewC!IDLE EXCEPT !.running = TRUE, !.total = Len(pv_chosen), !.query = q]
<1>1. PvPanel /\ PvBody /\ PvSearch
  BY DEF PvInv
<1>2. /\ pv_gen \in Nat /\ PvLists(pv_chosen)
      /\ \A r \in pv_onTheWay : r.gen \in Nat /\ r.gen <= pv_gen
  BY <1>1, Zenon DEF PvSearch
<1>3. /\ q # "" /\ pv_gen' = pv_gen + 1 /\ ProfileViewC!SearchBecomes(s)
      /\ pv_onTheWay' = pv_onTheWay
           \cup {[gen |-> pv_gen + 1, targets |-> pv_chosen, query |-> q, at |-> 0]}
      /\ pv_asked' = pv_chosen /\ pv_lost' = {} /\ pv_chosen' = pv_chosen
  BY DEF ProfileViewC!Run
<1>12. pv_gen + 1 \in Nat /\ \A n \in Nat : n <= pv_gen => n <= pv_gen + 1 /\ n # pv_gen + 1
  <2>1. pv_gen \in Nat
    BY <1>2, Zenon
  <2> QED BY <2>1
<1>4. Len(pv_chosen) \in Nat
  BY <1>2 DEF PvLists
<1>5. /\ s \in PvStates /\ s.query = q /\ s.running /\ s.total = Len(pv_chosen)
      /\ s.done = 0 /\ s.failed = 0 /\ s.hits = {}
  BY <1>4 DEF ProfileViewC!IDLE, PvStates
<1> HIDE DEF s
<1>6. PvPanel' /\ pv_search' = s /\ pv_dialog' = pv_dialog
  BY <1>1, <1>3, PvBecomesIs
<1>7. PvBody'
  BY <1>1, <1>6 DEF PvBody, ProfileViewC!HitsIn
<1>8. PvTells(s, pv_chosen, {})
  <2>1. PvUpTo(pv_chosen, 0) = {}
    BY DEF PvUpTo
  <2>2. Cardinality({}) = 0
    BY FS_EmptySet
  <2>3. PvFound(s.query, PvUpTo(pv_chosen, 0) \ {}) = {}
    BY <2>1 DEF PvFound
  <2> QED BY <1>4, <1>5, <2>1, <2>2, <2>3 DEF PvTells
<1>9. PvRun' = [gen |-> pv_gen + 1, targets |-> pv_chosen, query |-> q, at |-> 0]
  BY <1>3, <1>5, <1>6 DEF PvRun
<1>10. \A r \in pv_onTheWay' :
         /\ r.gen \in Nat /\ r.gen <= pv_gen'
         /\ r.gen = pv_gen' => r = PvRun' /\ pv_search'.query # "" /\ pv_search'.running
  <2> SUFFICES ASSUME NEW r \in pv_onTheWay'
               PROVE  /\ r.gen \in Nat /\ r.gen <= pv_gen'
                      /\ r.gen = pv_gen' => r = PvRun' /\ pv_search'.query # "" /\ pv_search'.running
    OBVIOUS
  <2>1. CASE r \in pv_onTheWay
    <3>1. r.gen \in Nat /\ r.gen <= pv_gen
      BY <1>2, <2>1, Zenon
    <3>2. r.gen <= pv_gen + 1 /\ r.gen # pv_gen + 1
      BY <1>12, <3>1
    <3> QED BY <1>3, <3>1, <3>2, Zenon
  <2>2. CASE r = PvRun'
    <3>1. r.gen = pv_gen + 1
      BY <1>9, <2>2
    <3>2. pv_search'.query # "" /\ pv_search'.running
      BY <1>3, <1>5, <1>6, Zenon
    <3>3. pv_gen + 1 <= pv_gen + 1
      BY <1>12
    <3> QED BY <1>3, <1>12, <2>2, <3>1, <3>2, <3>3, Zenon
  <2> QED BY <1>3, <1>9, <2>1, <2>2
<1>11. PvSearch'
  <2>1. pv_gen' \in Nat /\ PvLists(pv_chosen') /\ PvLists(pv_asked') /\ pv_search' \in PvStates
    BY <1>2, <1>3, <1>5, <1>6, <1>12, Zenon
  <2>2. pv_search'.query # "" /\ pv_search'.running /\ PvTells(pv_search', pv_asked', pv_lost')
    BY <1>3, <1>5, <1>6, <1>8
  <2> QED BY <1>10, <2>1, <2>2, Zenon DEF PvSearch
<1> QED BY <1>6, <1>7, <1>11 DEF PvInv

\* A reset disowns what is under way.
LEMMA PvResetKeeps ==
  ASSUME PvInv, ProfileViewC!Reset, PvLists(pv_chosen')
  PROVE  PvInv'
<1>1. PvPanel /\ PvBody /\ PvSearch
  BY DEF PvInv
<1>2. /\ pv_gen' = pv_gen + 1 /\ ProfileViewC!SearchBecomes(ProfileViewC!IDLE)
      /\ UNCHANGED <<pv_onTheWay, pv_asked, pv_lost>>
  BY DEF ProfileViewC!Reset
<1>3. PvPanel' /\ pv_search' = ProfileViewC!IDLE /\ pv_dialog' = pv_dialog
  BY <1>1, <1>2, PvBecomesIs
<1>4. PvBody'
  BY <1>1, <1>3 DEF PvBody, ProfileViewC!HitsIn
<1>5. /\ pv_gen \in Nat /\ PvLists(pv_asked)
      /\ \A r \in pv_onTheWay : r.gen \in Nat /\ r.gen <= pv_gen
  BY <1>1, Zenon DEF PvSearch
<1>6. \A r \in pv_onTheWay' : r.gen \in Nat /\ r.gen <= pv_gen' /\ r.gen # pv_gen'
  BY <1>2, <1>5
<1>7. /\ pv_gen' \in Nat /\ PvLists(pv_asked') /\ pv_search' \in PvStates
      /\ pv_search'.query = ""
  <2>1. pv_gen + 1 \in Nat
    <3>1. pv_gen \in Nat
      BY <1>5, Zenon
    <3> QED BY <3>1
  <2> QED BY <1>2, <1>3, <1>5, <2>1, PvIdleIs, Zenon
<1>8. PvSearch'
  <2>1. pv_search'.query = "" => pv_search' = ProfileViewC!IDLE
    BY <1>3
  <2> QED BY <1>6, <1>7, <2>1, Zenon DEF PvSearch
<1> QED BY <1>3, <1>4, <1>8 DEF PvInv

LEMMA PvSelectKeeps ==
  ASSUME PvInv,
         ProfileViewC!ClearSearch \/ (\E s \in PvSelections : ProfileViewC!Select(s))
  PROVE  PvInv'
<1>1. PvLists(pv_chosen)
  BY Zenon DEF PvInv, PvSearch
<1>2. CASE ProfileViewC!ClearSearch
  BY <1>1, <1>2, PvResetKeeps DEF ProfileViewC!ClearSearch
<1>3. CASE \E s \in PvSelections : ProfileViewC!Select(s)
  <2>1. PICK s \in PvSelections : ProfileViewC!Select(s)
    BY <1>3
  <2>2. PvLists(s)
    BY ProfilesAssumption DEF PvLists, Distinct
  <2> QED BY <2>1, <2>2, PvResetKeeps DEF ProfileViewC!Select
<1> QED BY <1>2, <1>3

\* What the user does beside: no hit, no run and no list is touched by it.
LEMMA PvRestKeeps ==
  ASSUME PvInv,
         \/ ProfileViewC!Cancel \/ ProfileViewC!ClearSelection
         \/ \E by \in {"sum", "count", "avg"} : ProfileViewC!SortBy(by)
         \/ \E i \in DOMAIN ProfileViewC!Steps : ProfileViewC!Toggle(i) \/ ProfileViewC!OpenBody(i)
         \/ ProfileViewC!InDialog \/ ProfileViewC!TextDialog
  PROVE  PvInv'
<1>1. /\ PvPanel /\ PvBody /\ PvLists(pv_chosen) /\ pv_sort \in {"sum", "count", "avg"}
      /\ PvLists(<<>>)
  <2>1. PvPanel /\ PvBody /\ PvSearch
    BY DEF PvInv
  <2>2. PvLists(pv_chosen)
    BY <2>1, Zenon DEF PvSearch
  <2>3. PvLists(<<>>)
    BY NoEntries DEF PvLists, Distinct
  <2> QED BY <2>1, <2>2, <2>3 DEF PvPanel
<1>2. pv_dialog' = pv_dialog => PvBody'
  BY <1>1 DEF PvBody, ProfileViewC!HitsIn
<1>3. CASE ProfileViewC!Cancel \/ ProfileViewC!ClearSelection
  <2>1. /\ UNCHANGED <<pv_tab, pv_loaded, pv_panelQuery, pv_hitIdx, pv_picked, pv_search, pv_gen,
                       pv_onTheWay, pv_asked, pv_lost, pv_sort, pv_dialog>>
        /\ pv_cancelled' = pv_cancelled \/ pv_cancelled' = TRUE
        /\ pv_chosen' = pv_chosen \/ pv_chosen' = <<>>
    BY <1>3 DEF ProfileViewC!Cancel, ProfileViewC!ClearSelection, ProfileViewC!panel,
                ProfileViewC!finding
  <2> QED BY <1>1, <1>2, <2>1, PvStaysKeeps
<1>4. CASE \E by \in {"sum", "count", "avg"} : ProfileViewC!SortBy(by)
  <2>1. /\ UNCHANGED <<pv_tab, pv_loaded, pv_panelQuery, pv_hitIdx, pv_picked, pv_search, pv_gen,
                       pv_onTheWay, pv_asked, pv_lost, pv_cancelled, pv_chosen, pv_dialog>>
        /\ pv_sort' \in {"sum", "count", "avg"}
    BY <1>4 DEF ProfileViewC!SortBy, ProfileViewC!finding
  <2> QED BY <1>1, <1>2, <2>1, PvStaysKeeps
<1>5. CASE (\E i \in DOMAIN ProfileViewC!Steps : ProfileViewC!Toggle(i))
             \/ ProfileViewC!TextDialog
  <2>1. UNCHANGED <<pv_tab, pv_loaded, pv_panelQuery, pv_hitIdx, pv_picked, pv_search, pv_gen,
                    pv_onTheWay, pv_asked, pv_lost, pv_cancelled, pv_chosen, pv_dialog, pv_sort>>
    BY <1>5 DEF ProfileViewC!Toggle, ProfileViewC!TextDialog, ProfileViewC!finding
  <2> QED BY <1>1, <1>2, <2>1, PvStaysKeeps
<1>6. CASE \E i \in DOMAIN ProfileViewC!Steps : ProfileViewC!OpenBody(i)
  <2>1. PICK i \in DOMAIN ProfileViewC!Steps : ProfileViewC!OpenBody(i)
    BY <1>6
  <2>2. /\ UNCHANGED <<pv_tab, pv_loaded, pv_panelQuery, pv_hitIdx, pv_picked, pv_search, pv_gen,
                       pv_onTheWay, pv_asked, pv_lost, pv_cancelled, pv_chosen, pv_sort>>
        /\ pv_dialog' = [ProfileViewC!NoDialog EXCEPT !.step = i, !.pretty = TRUE]
    BY <2>1 DEF ProfileViewC!OpenBody, ProfileViewC!finding
  <2>3. i \in Nat
    <3>1. ProfileViewC!Steps \in Seq(PvSteps)
      BY <1>1, PvStepsAre DEF PvPanel
    <3> QED BY <3>1
  <2>4. PvBody'
    BY <2>2, <2>3, ProfilesAssumption DEF PvBody, ProfileViewC!NoDialog
  <2> QED BY <1>1, <2>2, <2>4, PvStaysKeeps
<1>7. CASE ProfileViewC!InDialog
  <2>1. UNCHANGED <<pv_tab, pv_loaded, pv_panelQuery, pv_hitIdx, pv_picked, pv_search, pv_gen,
                    pv_onTheWay, pv_asked, pv_lost, pv_cancelled, pv_chosen, pv_sort>>
    BY <1>7 DEF ProfileViewC!InDialog, ProfileViewC!finding
  <2>2. PvBody'
    BY <1>1, <1>7, PvBodyKeeps
  <2> QED BY <1>1, <2>1, <2>2, PvStaysKeeps
<1> QED BY <1>3, <1>4, <1>5, <1>6, <1>7

\* A thread a step started is a transaction with a tab of its own, or none.
LEMMA PvThreadKeeps ==
  ASSUME PvInv, NEW row \in ProfileViewC!ListRows, ProfileViewC!OpenThread(row)
  PROVE  PvInv'
<1>1. ProfileViewC!Steps \in Seq(PvSteps)
  BY PvStepsAre DEF PvInv, PvPanel
<1>2. PICK i \in ProfileViewC!Known(ProfileViewC!Steps) : row = ProfileViewC!StepRow(i)
  BY DEF ProfileViewC!ListRows
<1>3. ProfileViewC!Steps[i] \in PvSteps
  BY <1>1, <1>2 DEF ProfileViewC!Known
<1>4. row.thread \in PvTabs
  BY <1>2, <1>3 DEF ProfileViewC!StepRow, PvSteps, PvTabs, ProfileViewC!Nobody
<1> QED BY <1>4, PvShowKeeps DEF ProfileViewC!OpenThread

LEMMA PvNextKeeps ==
  ASSUME PvInv, ProfileViewC!Next
  PROVE  PvInv'
<1>1. CASE \E x \in PvTxs \cup {ProfileViewC!Nobody} : ProfileViewC!Show(x)
  BY <1>1, PvShowKeeps DEF PvTabs, ProfileViewC!Nobody
<1>2. CASE ProfileViewC!Loaded
  BY <1>2, PvLoadedKeeps
<1>3. CASE \E q \in PvTexts : ProfileViewC!Run(q)
  BY <1>3, PvRunKeeps
<1>4. CASE \/ \E q \in PvTexts : ProfileViewC!Type(q)
           \/ \E d \in {1, -1} : ProfileViewC!MoveHit(d)
           \/ \E m \in {"list", "summary"} : ProfileViewC!SetMode(m)
           \/ \E row \in ProfileViewC!SummarizeSteps(ProfileViewC!Steps) : ProfileViewC!Pick(row)
  BY <1>4, PvRendersKeep
<1>5. CASE \/ ProfileViewC!Cancel \/ ProfileViewC!ClearSelection
           \/ \E by \in {"sum", "count", "avg"} : ProfileViewC!SortBy(by)
           \/ \E i \in DOMAIN ProfileViewC!Steps :
                ProfileViewC!Toggle(i) \/ ProfileViewC!OpenBody(i)
           \/ ProfileViewC!InDialog \/ ProfileViewC!TextDialog
  BY <1>5, PvRestKeeps
<1>6. CASE \E row \in ProfileViewC!ListRows : ProfileViewC!OpenThread(row)
  BY <1>6, PvThreadKeeps
<1>7. CASE ProfileViewC!ClearSearch \/ (\E s \in PvSelections : ProfileViewC!Select(s))
  BY <1>7, PvSelectKeeps
<1>8. CASE \E r \in pv_onTheWay : ProfileViewC!BatchAnswer(r)
  <2>1. PvPanel' /\ PvSearch' /\ pv_dialog' = pv_dialog /\ PvBody
    BY <1>8, PvAnswerKeeps DEF PvInv
  <2>2. PvBody'
    BY <2>1 DEF PvBody, ProfileViewC!HitsIn
  <2> QED BY <2>1, <2>2 DEF PvInv
<1> QED BY <1>1, <1>2, <1>3, <1>4, <1>5, <1>6, <1>7, <1>8, Zenon DEF ProfileViewC!Next

LEMMA ProfileViewInit == Init => (which = "ProfileView" => PvInv)
<1> SUFFICES ASSUME Init, which = "ProfileView" PROVE PvInv
  OBVIOUS
<1>1. ProfileViewC!Init
  BY DEF Init
<1>2. /\ pv_tab = "nobody" /\ pv_loaded = FALSE /\ pv_hitIdx = 0 /\ pv_picked = 0
      /\ pv_sort = "sum" /\ pv_dialog = ProfileViewC!NoDialog /\ pv_chosen = <<>>
      /\ pv_search = ProfileViewC!IDLE /\ pv_gen = 0 /\ pv_cancelled = FALSE
      /\ pv_onTheWay = {} /\ pv_asked = <<>>
  BY <1>1 DEF ProfileViewC!Init, ProfileViewC!Nobody, ProfileViewC!NoStep
<1>3. PvPanel
  BY <1>2 DEF PvPanel, PvTabs, PvTrueOf
<1>4. PvBody
  BY <1>2, ProfilesAssumption DEF PvBody, ProfileViewC!NoDialog, ProfileViewC!NoStep
<1>5. PvSearch
  <2>1. PvLists(<<>>)
    BY NoEntries DEF PvLists, Distinct
  <2> QED BY <1>2, <2>1, PvIdleIs DEF PvSearch
<1> QED BY <1>3, <1>4, <1>5 DEF PvInv

LEMMA ProfileViewStep ==
  (which = "ProfileView" => PvInv) /\ [Next]_allVars => (which = "ProfileView" => PvInv)'
<1> SUFFICES ASSUME which = "ProfileView" => PvInv, [Next]_allVars
             PROVE  (which = "ProfileView" => PvInv)'
  OBVIOUS
<1>1. CASE Next
  <2> SUFFICES ASSUME which' = "ProfileView" PROVE PvInv'
    OBVIOUS
  <2>1. which = "ProfileView" /\ ProfileViewC!Next
    BY <1>1, Turns
  <2> QED BY <2>1, PvNextKeeps
<1>2. CASE UNCHANGED allVars
  <2> SUFFICES ASSUME which' = "ProfileView" PROVE PvInv'
    OBVIOUS
  <2>1. which = "ProfileView" /\ UNCHANGED ProfileViewVars
    BY <1>2 DEF allVars
  <2>2. /\ UNCHANGED <<pv_tab, pv_loaded, pv_panelQuery, pv_hitIdx, pv_picked, pv_sort, pv_dialog>>
        /\ UNCHANGED <<pv_chosen, pv_search, pv_gen, pv_cancelled, pv_onTheWay, pv_asked, pv_lost>>
    BY <2>1 DEF ProfileViewVars
  <2>3. PvPanel /\ PvBody /\ PvLists(pv_chosen)
    BY <2>1, Zenon DEF PvInv, PvSearch
  <2>4. PvBody' /\ pv_sort' \in {"sum", "count", "avg"}
    BY <2>2, <2>3 DEF PvBody, ProfileViewC!HitsIn, PvPanel
  <2> QED BY <2>1, <2>2, <2>3, <2>4, PvStaysKeeps
<1> QED BY <1>1, <1>2

\* The counters of the profile tell the truth: "n of m" stands at a hit of the text that is
\* shown, in the panel and in a body; what is lit is a step of the list; the summary counts
\* every step once and is in order; and a search that went to its end has the transactions
\* in which the text is, less those that could not be read, and nothing of an older run
\* (XLogDetailPanel.tsx, stepSearch.ts, profileSummary.ts, StepDetailDialog.tsx,
\* useProfileSearch.ts).
THEOREM HitsAndSearchAreTrue == Spec => []ProfileTrue
<1>1. (which = "ProfileView" => PvInv) => ProfileTrue
  BY PvInvSays DEF ProfileTrue
<1> QED BY ProfileViewInit, ProfileViewStep, <1>1, PTL DEF Spec
=============================================================================
