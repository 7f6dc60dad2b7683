-------------------------- MODULE XLogCacheProofs --------------------------
(***************************************************************************)
(* Theorems about XLogCache, for every value of its constants: its types,  *)
(* the soundness of the cover table and, on top of it, what a query over   *)
(* the cache returns; that the rows of the table stay merged and sealed    *)
(* and only its oldest part is forgotten; and that it implements the set   *)
(* of known instants of PastCover.                                         *)
(***************************************************************************)
EXTENDS XLogCache, MCXLogCacheRefines, TLAPS

\* The type invariant is inductive once the rows of a page in flight are known
\* to be rows of the collector.
ReplyOK == \A c \in Client : reply[c].rows \subseteq collector

ITypeOK == TypeOK /\ ReplyOK

\* Marking keeps xlog_cover a table of cover rows.
LEMMA MarkType ==
  ASSUME cover \subseteq Cover, NEW O \in SUBSET Obj, NEW s \in Int, NEW e \in Int
  PROVE  MarkXlog(O, s, e) \subseteq Cover
<1>1. CASE e < s
  BY <1>1 DEF MarkXlog
<1>2. CASE ~(e < s)
  <2>1. {d.s : d \in cover} \subseteq Int /\ {d.e : d \in cover} \subseteq Int
    BY DEF Cover
  <2>2. [obj : O, s : {s} \cup {d.s : d \in cover}, e : {e} \cup {d.e : d \in cover}]
          \subseteq Cover
    BY <2>1 DEF Cover
  <2> QED BY <1>2, <2>2 DEF MarkXlog
<1> QED BY <1>1, <1>2

\* Trimming keeps xlog_cover a table of cover rows.
LEMMA TrimType ==
  ASSUME cover \subseteq Cover, NEW t \in Int
  PROVE  Trimmed(t) \subseteq Cover
BY DEF Trimmed, Cover, Greatest

\* The least of two instants is an instant.
LEMMA SealedToType ==
  ASSUME TypeOK, NEW c \in Client
  PROVE  SealedTo(c) \in Int /\ Front(c) \in Int
BY DEF TypeOK, SealedTo, Front, Least

\* The initial state has the types.
LEMMA TypeInit == Init => ITypeOK
BY ActorAssumption, DataAssumption, BoundAssumption
DEF Init, ITypeOK, TypeOK, ReplyOK, Actor, NoJob, NoReply

\* No step leaves the types.
LEMMA TypeStep == ITypeOK /\ [Next]_vars => ITypeOK'
<1> SUFFICES ASSUME ITypeOK, [Next]_vars PROVE ITypeOK'
  OBVIOUS
<1> USE ActorAssumption, DataAssumption, BoundAssumption
<1>1. CASE Tick
  BY <1>1 DEF ITypeOK, TypeOK, ReplyOK, Tick, db, client
<1>2. ASSUME NEW x \in Txn, Arrive(x) PROVE ITypeOK'
  BY <1>2 DEF ITypeOK, TypeOK, ReplyOK, Arrive, db, client
<1>3. ASSUME NEW c \in Client, NEW O \in SUBSET Obj, NEW w \in Windows, Start(c, O, w)
      PROVE  ITypeOK'
  <2>1. w.s \in Nat /\ w.e \in Nat
    OBVIOUS
  <2> QED BY <1>3, <2>1 DEF ITypeOK, TypeOK, ReplyOK, Start, db, Within, Actor
<1>4. ASSUME NEW c \in Client, ReadSeal(c) PROVE ITypeOK'
  BY <1>4 DEF ITypeOK, TypeOK, ReplyOK, ReadSeal, db, Actor
<1>5. ASSUME NEW c \in Client, Check(c) PROVE ITypeOK'
  BY <1>5 DEF ITypeOK, TypeOK, ReplyOK, Check, db, Actor
<1>6. ASSUME NEW c \in Client, Serve(c) PROVE ITypeOK'
  <2>1. PICK P \in SUBSET (rows \cap Within(job[c].objs, Front(c), SealedTo(c))),
             t \in {0} \cup {EndOf[x] : x \in rows} :
          \E done \in BOOLEAN :
           /\ got' = [got EXCEPT ![c] = @ \cup P]
           /\ cursor' = [cursor EXCEPT ![c] = IF done THEN @ ELSE CachePage(c, P, t).last]
           /\ pc' = [pc EXCEPT ![c] = IF done THEN "done" ELSE NextPage(c)]
    BY <1>6 DEF Serve, Served
  <2>2. SealedTo(c) \in Int /\ t \in Int
    BY SealedToType DEF ITypeOK, TypeOK
  <2>3. CachePage(c, P, t).last \in Int
    BY <2>2 DEF CachePage
  <2>4. P \subseteq Txn
    BY DEF Within
  <2> QED BY <1>6, <2>1, <2>3, <2>4 DEF ITypeOK, TypeOK, ReplyOK, Serve, db, Actor, NextPage
<1>7. ASSUME NEW c \in Client, Answer(c) PROVE ITypeOK'
  <2> DEFINE S == collector \cap Within(job[c].objs, Front(c), job[c].e)
  <2>1. {EndOf[x] : x \in S} \subseteq Nat
    BY DEF ITypeOK, TypeOK
  <2>2. PICK P \in SUBSET S, more \in BOOLEAN, t \in {0} \cup {EndOf[x] : x \in S} :
           reply' = [reply EXCEPT ![c] = [rows |-> P, more |-> more, last |-> t]]
    BY <1>7 DEF Answer
  <2>3. P \subseteq collector /\ t \in Nat
    BY <2>1
  <2> HIDE DEF S
  <2> QED BY <1>7, <2>2, <2>3 DEF ITypeOK, TypeOK, ReplyOK, Answer, db, Actor
<1>8. ASSUME NEW c \in Client, Put(c) PROVE ITypeOK'
  BY <1>8 DEF ITypeOK, TypeOK, ReplyOK, Put, Actor
<1>9. ASSUME NEW c \in Client, PutFail(c) PROVE ITypeOK'
  BY <1>9 DEF ITypeOK, TypeOK, ReplyOK, PutFail, db, Actor
<1>10. ASSUME NEW a \in Actor, EvictRows(a) PROVE ITypeOK'
  <2>1. cut' \in Nat
    BY <1>10 DEF EvictRows, ITypeOK, TypeOK
  <2> QED BY <1>10, <2>1 DEF ITypeOK, TypeOK, ReplyOK, EvictRows, LoseBelow, Greatest
<1>11. ASSUME NEW a \in Actor, TrimCover(a) PROVE ITypeOK'
  BY <1>11, TrimType DEF ITypeOK, TypeOK, ReplyOK, TrimCover, client
<1>12. ASSUME NEW a \in Actor, EvictEnd(a) PROVE ITypeOK'
  BY <1>12 DEF ITypeOK, TypeOK, ReplyOK, EvictEnd, Release
<1>13. ASSUME NEW c \in Client, Mark(c) PROVE ITypeOK'
  <2>1. cover' \subseteq Cover
    BY <1>13, SealedToType, MarkType DEF Mark, ITypeOK, TypeOK
  <2> QED BY <1>13, <2>1 DEF ITypeOK, TypeOK, ReplyOK, Mark, Actor, Greatest, NoReply
<1>14. ASSUME NEW c \in Client, Turn(c) PROVE ITypeOK'
  BY <1>14 DEF ITypeOK, TypeOK, ReplyOK, Turn, db, Actor, NextPage, NoReply
<1>15. ASSUME NEW c \in Client, Forget(c) PROVE ITypeOK'
  BY <1>15 DEF ITypeOK, TypeOK, ReplyOK, Forget, db, Actor, NoJob
<1>16. ASSUME NEW m \in Limits, SetMax(m) PROVE ITypeOK'
  BY <1>16 DEF ITypeOK, TypeOK, ReplyOK, SetMax, Actor
<1>17. CASE ClearRows
  BY <1>17 DEF ITypeOK, TypeOK, ReplyOK, ClearRows, Actor, LoseBelow, Greatest
<1>18. CASE ClearCover
  BY <1>18 DEF ITypeOK, TypeOK, ReplyOK, ClearCover, Actor
<1>19. CASE Crash
  BY <1>19 DEF ITypeOK, TypeOK, ReplyOK, Crash, Actor, NoJob, NoReply, Greatest
<1>20. ASSUME NEW c \in Client, ServeFail(c) PROVE ITypeOK'
  <2>1. SealedTo(c) \in Int /\ CachePage(c, {}, 0).last \in Int
    BY SealedToType DEF ITypeOK, CachePage
  <2>2. \E done \in BOOLEAN :
           /\ got' = [got EXCEPT ![c] = @ \cup {}]
           /\ cursor' = [cursor EXCEPT ![c] = IF done THEN @ ELSE CachePage(c, {}, 0).last]
           /\ pc' = [pc EXCEPT ![c] = IF done THEN "done" ELSE NextPage(c)]
    BY <1>20 DEF ServeFail, Served
  <2>3. /\ got' \in [Client -> SUBSET Txn] /\ cursor' \in [Client -> Int]
        /\ pc' \in [Actor -> {"idle", "seal", "check", "serve", "ask", "put", "evict",
                             "mark", "done", "clear"}]
        /\ pc'[Settings] = pc[Settings] /\ \A d \in Client : pc'[d] # "clear"
    BY <2>1, <2>2 DEF ITypeOK, TypeOK, Actor, NextPage
  <2>4. job' \in [Client -> [objs : SUBSET Obj, s : Nat, e : Nat, began : Nat, owed : SUBSET Txn]]
    <3>1. job' = [job EXCEPT ![c] = [job[c] EXCEPT !.owed = {}]]
      BY <1>20 DEF ServeFail
    <3> DEFINE Jobs == [objs : SUBSET Obj, s : Nat, e : Nat, began : Nat, owed : SUBSET Txn]
    <3>2. job \in [Client -> Jobs]
      BY DEF ITypeOK, TypeOK
    <3>3. [job[c] EXCEPT !.owed = {}] \in Jobs
      BY <3>2
    <3> HIDE DEF Jobs
    <3>4. job' \in [Client -> Jobs]
      BY <3>1, <3>2, <3>3
    <3> QED BY <3>4 DEF Jobs
  <2> QED BY <1>20, <2>3, <2>4 DEF ITypeOK, TypeOK, ReplyOK, ServeFail, db
<1>21. ASSUME NEW c \in Client, MarkFail(c) PROVE ITypeOK'
  BY <1>21 DEF ITypeOK, TypeOK, ReplyOK, MarkFail, db, Actor, NoReply
<1>22. ASSUME NEW a \in Actor, EvictFail(a) PROVE ITypeOK'
  BY <1>22 DEF ITypeOK, TypeOK, ReplyOK, EvictFail, Release, Greatest
<1>23. CASE UNCHANGED vars
  BY <1>23 DEF ITypeOK, TypeOK, ReplyOK, vars
<1> QED
  BY <1>1, <1>2, <1>3, <1>4, <1>5, <1>6, <1>7, <1>8, <1>9, <1>10, <1>11, <1>12,
     <1>13, <1>14, <1>15, <1>16, <1>17, <1>18, <1>19, <1>20, <1>21, <1>22, <1>23
  DEF Next, Step, Evict, Return, Fail

\* Rows come from the collector, cover rows span integer instants, and every
\* actor is at one of the program's points, in every reachable state.
THEOREM TypeCorrect == Spec => []TypeOK
<1>1. ITypeOK => TypeOK
  BY DEF ITypeOK
<1> QED BY <1>1, TypeInit, TypeStep, PTL DEF Spec

----------------------------------------------------------------------------
(* Time: what is sealed is settled *)

Paging == {"check", "serve", "ask", "put", "evict", "mark"}

\* The clock bounds a query and its seal; nothing can arrive any more below a
\* seal in use or in a covered interval.
Clocks ==
  /\ \A x \in collector : EndOf[x] <= now
  /\ \A c \in Client : Busy(c) => /\ job[c].began <= now /\ now <= job[c].began + Span
                                  /\ 0 < job[c].s
  /\ \A c \in Client : pc[c] \in Paging => /\ seal[c] <= now - SealMs
                                           /\ seal[c] + Lag < job[c].began
  /\ \A c \in Client : pc[c] = "seal" => c \notin Batch
  /\ \A d \in cover : d.e <= now - SealMs /\ d.e + Lag < now

\* A deletion not yet followed by its trimming is under the lock, and a client
\* without a query has no cursor.
Locks ==
  /\ lock = NoOne => cut = 0
  /\ \A c \in Client : pc[c] = "idle" => cursor[c] = 0

\* A merged row ends where an old row or the marked window ends.
LEMMA MarkEnds ==
  ASSUME NEW O, NEW s \in Int, NEW e \in Int, NEW c \in MarkXlog(O, s, e)
  PROVE  \/ c \in cover
         \/ s <= e /\ c.e = e
         \/ s <= e /\ \E d \in cover : c.e = d.e
<1>1. CASE c \in cover
  BY <1>1
<1>2. CASE c \notin cover
  <2>1. s <= e
    BY <1>2 DEF MarkXlog
  <2>2. IsHull(c, s, e)
    BY <1>2 DEF MarkXlog
  <2> QED BY <2>1, <2>2 DEF IsHull, Near
<1> QED BY <1>1, <1>2

\* The clock bounds hold initially.
LEMMA ClocksInit == Init => Clocks /\ Locks
BY DEF Init, Clocks, Locks, Paging, Busy, NoJob, Actor

\* Every step keeps the clock bounds.
LEMMA ClocksStep ==
  ASSUME SealMargin, ITypeOK, Clocks, Locks, [Next]_vars
  PROVE  Clocks' /\ Locks'
<1> USE ActorAssumption, DataAssumption, BoundAssumption
<1>0. TypeOK /\ ReplyOK
  BY DEF ITypeOK
<1>a. \A c \in Client : Lag + Drift(c) < SealMs
  BY DEF SealMargin
<1>1. CASE Tick
  BY <1>1, <1>0 DEF TypeOK, Clocks, Locks, Tick, db, client, Busy, Paging, Cover
<1>2. ASSUME NEW x \in Txn, Arrive(x) PROVE Clocks' /\ Locks'
  BY <1>2, <1>0 DEF TypeOK, Clocks, Locks, Arrive, db, client, Busy, Paging
<1>3. ASSUME NEW c \in Client, NEW O \in SUBSET Obj, NEW w \in Windows, Start(c, O, w)
      PROVE  Clocks' /\ Locks'
  <2>1. 0 < w.s /\ Lag < SealMs
    BY <1>a DEF Drift
  <2> QED BY <1>3, <2>1, <1>0 DEF TypeOK, Clocks, Locks, Start, db, Busy, Paging, Actor
<1>4. ASSUME NEW c \in Client, ReadSeal(c) PROVE Clocks' /\ Locks'
  <2>1. c \notin Batch => now - SealMs + Lag < job[c].began
    <3>1. now <= job[c].began + Span
      BY <1>4 DEF Clocks, Busy, ReadSeal
    <3>2. c \notin Batch => Lag + Span < SealMs
      BY <1>a DEF Drift
    <3>3. now \in Nat /\ job[c].began \in Nat
      BY <1>0 DEF TypeOK
    <3> QED BY <3>1, <3>2, <3>3
  <2> QED BY <1>4, <2>1, <1>0 DEF TypeOK, Clocks, Locks, ReadSeal, db, Busy, Paging, Actor
<1>5. ASSUME NEW c \in Client, Check(c) PROVE Clocks' /\ Locks'
  BY <1>5, <1>0 DEF TypeOK, Clocks, Locks, Check, db, Busy, Paging, Actor
<1>6. ASSUME NEW c \in Client, Serve(c) PROVE Clocks' /\ Locks'
  BY <1>6, <1>0 DEF TypeOK, Clocks, Locks, Serve, Served, db, Busy, Paging, Actor, NextPage
<1>7. ASSUME NEW c \in Client, Answer(c) PROVE Clocks' /\ Locks'
  BY <1>7, <1>0 DEF TypeOK, Clocks, Locks, Answer, db, Busy, Paging, Actor
<1>8. ASSUME NEW c \in Client, Put(c) PROVE Clocks' /\ Locks'
  BY <1>8, <1>0 DEF TypeOK, Clocks, Locks, Put, Busy, Paging, Actor
<1>9. ASSUME NEW c \in Client, PutFail(c) PROVE Clocks' /\ Locks'
  BY <1>9, <1>0 DEF TypeOK, Clocks, Locks, PutFail, db, Busy, Paging, Actor
<1>10. ASSUME NEW a \in Actor, EvictRows(a) PROVE Clocks' /\ Locks'
  BY <1>10, <1>0 DEF TypeOK, Clocks, Locks, EvictRows, Busy, Paging, Actor
<1>11. ASSUME NEW a \in Actor, TrimCover(a) PROVE Clocks' /\ Locks'
  <2>1. \A d \in cover' : \E old \in cover : d.e = old.e
    BY <1>11, <1>0 DEF TrimCover, Trimmed, TypeOK, Cover
  <2>2. \A d \in cover' : d.e <= now - SealMs /\ d.e + Lag < now
    BY <2>1 DEF Clocks
  <2>3. UNCHANGED <<now, collector, pc, job, cursor, seal>> /\ cut' = 0
    BY <1>11 DEF TrimCover, client
  <2> QED BY <2>2, <2>3 DEF Clocks, Locks, Busy
<1>12. ASSUME NEW a \in Actor, EvictEnd(a) PROVE Clocks' /\ Locks'
  BY <1>12, <1>0 DEF TypeOK, Clocks, Locks, EvictEnd, Release, Busy, Paging, Actor
<1>13. ASSUME NEW c \in Client, Mark(c) PROVE Clocks' /\ Locks'
  <2>1. SealedTo(c) \in Int /\ SealedTo(c) <= seal[c] /\ job[c].s \in Int
    BY <1>0 DEF TypeOK, SealedTo, Least
  <2>2. seal[c] <= now - SealMs /\ seal[c] + Lag < now
    BY <1>13, <1>0 DEF TypeOK, Clocks, Mark, Busy, Paging
  <2>3. \A d \in cover' : d.e <= now - SealMs /\ d.e + Lag < now
    BY <1>13, <2>1, <2>2, <1>0, MarkEnds DEF Mark, Clocks, TypeOK
  <2> QED BY <1>13, <2>3, <1>0 DEF TypeOK, Clocks, Locks, Mark, Busy, Paging, Actor
<1>14. ASSUME NEW c \in Client, Turn(c) PROVE Clocks' /\ Locks'
  BY <1>14, <1>0 DEF TypeOK, Clocks, Locks, Turn, db, Busy, Paging, Actor, NextPage
<1>15. ASSUME NEW c \in Client, Forget(c) PROVE Clocks' /\ Locks'
  BY <1>15, <1>0 DEF TypeOK, Clocks, Locks, Forget, db, Busy, Paging, Actor, NoJob
<1>16. ASSUME NEW m \in Limits, SetMax(m) PROVE Clocks' /\ Locks'
  BY <1>16, <1>0 DEF TypeOK, Clocks, Locks, SetMax, Busy, Paging, Actor
<1>17. CASE ClearRows
  BY <1>17, <1>0 DEF TypeOK, Clocks, Locks, ClearRows, Busy, Paging, Actor, NoOne
<1>18. CASE ClearCover
  BY <1>18, <1>0 DEF TypeOK, Clocks, Locks, ClearCover, Busy, Paging, Actor
<1>19. CASE Crash
  BY <1>19, <1>0 DEF TypeOK, Clocks, Locks, Crash, Busy, Paging, Actor, NoJob
<1>20. ASSUME NEW c \in Client, ServeFail(c) PROVE Clocks' /\ Locks'
  BY <1>20, <1>0 DEF TypeOK, Clocks, Locks, ServeFail, Served, db, Busy, Paging, Actor, NextPage
<1>21. ASSUME NEW c \in Client, MarkFail(c) PROVE Clocks' /\ Locks'
  BY <1>21, <1>0 DEF TypeOK, Clocks, Locks, MarkFail, db, Busy, Paging, Actor
<1>22. ASSUME NEW a \in Actor, EvictFail(a) PROVE Clocks' /\ Locks'
  BY <1>22, <1>0 DEF TypeOK, Clocks, Locks, EvictFail, Release, Busy, Paging, Actor
<1>23. CASE UNCHANGED vars
  BY <1>23 DEF Clocks, Locks, vars, Busy
<1> QED
  BY <1>1, <1>2, <1>3, <1>4, <1>5, <1>6, <1>7, <1>8, <1>9, <1>10, <1>11, <1>12,
     <1>13, <1>14, <1>15, <1>16, <1>17, <1>18, <1>19, <1>20, <1>21, <1>22, <1>23
  DEF Next, Step, Evict, Return, Fail

----------------------------------------------------------------------------
(* Soundness: what is covered is there *)

\* The promise while an eviction may still have to trim the cover table.
Sound ==
  \A x \in collector : Covered(x) /\ EndOf[x] >= hole /\ EndOf[x] >= cut => x \in rows

\* The transactions a query must not miss: settled when it began, not lost
\* from the cache since, and above the hole.
Due(c, x) ==
  /\ x \in collector /\ x \in Within(job[c].objs, job[c].s, job[c].e)
  /\ EndOf[x] + Lag < job[c].began
  /\ EndOf[x] >= lost[c] /\ EndOf[x] >= hole

\* Up to its cursor, and up to the end of a page in flight, a query finds its
\* due transactions in the cache (or in the page, until that is stored).
Behind(c) == Busy(c) =>
  \A x \in Txn : Due(c, x) /\ EndOf[x] < Front(c) => x \in rows

InPage(c, x) == EndOf[x] < reply[c].last \/ ~reply[c].more

Fetched(c) == pc[c] = "put" =>
  \A x \in Txn : Due(c, x) /\ InPage(c, x) => x \in rows \cup reply[c].rows

Stored(c) == pc[c] \in {"evict", "mark"} =>
  \A x \in Txn : Due(c, x) /\ InPage(c, x) => x \in rows

\* A query the cache was found to cover is still served all that was covered,
\* except what has been lost meanwhile.
Servable(c) == pc[c] = "serve" =>
  \A x \in collector : /\ x \in Within(job[c].objs, job[c].s, SealedTo(c))
                       /\ EndOf[x] >= lost[c] /\ EndOf[x] >= hole
                       => x \in rows

Kept == \A c \in Client : Behind(c) /\ Fetched(c) /\ Stored(c) /\ Servable(c)

IInv == ITypeOK /\ Clocks /\ Locks /\ Sound /\ Kept

\* An instant of a merged row was covered before, or belongs to the window.
LEMMA MarkAdds ==
  ASSUME cover \subseteq Cover, NEW O, NEW s \in Int, NEW e \in Int,
         NEW c \in MarkXlog(O, s, e), NEW t \in Int, c.s <= t, t <= c.e
  PROVE  InCover(c.obj, t) \/ (c.obj \in O /\ s <= t /\ t <= e)
<1>1. CASE c \in cover
  BY <1>1 DEF InCover
<1>2. CASE c \notin cover
  <2>1. s <= e /\ IsHull(c, s, e) /\ c.obj \in O
    BY <1>2 DEF MarkXlog
  <2>2. CASE t < s
    <3>1. PICK d \in Near(c.obj, s, e) : c.s = d.s
      BY <2>1, <2>2 DEF IsHull
    <3> QED BY <3>1, <2>2 DEF Near, InCover, Cover
  <2>3. CASE e < t
    <3>1. PICK d \in Near(c.obj, s, e) : c.e = d.e
      BY <2>1, <2>3 DEF IsHull
    <3> QED BY <3>1, <2>3 DEF Near, InCover, Cover
  <2> QED BY <2>1, <2>2, <2>3
<1> QED BY <1>1, <1>2

\* The facts about one transaction that every step of the proof needs.
LEMMA TxnFacts ==
  ASSUME NEW x \in Txn
  PROVE  EndOf[x] \in Nat /\ 0 < EndOf[x] /\ ObjOf[x] \in Obj
BY DataAssumption

\* Nothing is covered and no query has begun.
LEMMA KeptInit == Init => Sound /\ Kept
BY DEF Init, Sound, Kept, Behind, Fetched, Stored, Servable, Busy, Actor

\* Every step keeps the promise and what the queries rely on.
LEMMA KeptStep ==
  ASSUME IInv, ITypeOK', Clocks', [Next]_vars
  PROVE  Sound' /\ Kept'
<1> USE ActorAssumption, DataAssumption, BoundAssumption
<1>0. TypeOK /\ ReplyOK /\ TypeOK' /\ Clocks /\ Locks /\ Sound /\ Kept
  BY DEF IInv, ITypeOK
<1> DEFINE Rest(c) == Behind(c) /\ Fetched(c) /\ Stored(c) /\ Servable(c)
<1>a. ASSUME NEW c \in Client PROVE Rest(c)
  BY <1>0 DEF Kept
\* A step of which a query sees only that its exemptions grow.
<1>b. ASSUME NEW c \in Client,
             UNCHANGED <<collector, rows, pc[c], job[c], cursor[c], seal[c], reply[c]>>,
             lost'[c] >= lost[c], hole' >= hole
      PROVE  Rest(c)'
  <2>1. \A x \in Txn : Due(c, x)' => Due(c, x)
    BY <1>b, <1>0 DEF Due, TypeOK, Within
  <2>2. Behind(c)' /\ Fetched(c)' /\ Stored(c)'
    BY <1>b, <2>1, <1>a DEF Behind, Fetched, Stored, InPage, Busy, Front
  <2>3. ASSUME NEW x \in collector, EndOf[x] >= lost'[c], EndOf[x] >= hole'
        PROVE  EndOf[x] >= lost[c] /\ EndOf[x] >= hole
    BY <1>b, <2>3, <1>0 DEF TypeOK
  <2>4. Servable(c)'
    BY <1>b, <2>3, <1>a DEF Servable, SealedTo, Within
  <2> QED BY <2>2, <2>4
<1>c. ASSUME UNCHANGED <<collector, rows, cover, cut>>, hole' >= hole
      PROVE  Sound'
  <2>1. ASSUME NEW x \in collector, EndOf[x] >= hole' PROVE EndOf[x] >= hole
    BY <1>c, <2>1, <1>0 DEF TypeOK
  <2>2. \A x : Covered(x)' <=> Covered(x)
    BY <1>c DEF Covered, InCover
  <2> QED BY <1>c, <2>1, <2>2, <1>0 DEF Sound
<1>1. CASE Tick
  <2>1. Sound'
    BY <1>1, <1>0, <1>c DEF Tick, db, TypeOK
  <2>2. ASSUME NEW c \in Client PROVE Rest(c)'
    BY <1>1, <1>0, <1>b, <2>2 DEF Tick, db, client, TypeOK
  <2> QED BY <2>1, <2>2 DEF Kept
<1>2. ASSUME NEW x \in Txn, Arrive(x) PROVE Sound' /\ Kept'
  <2>1. Sound'
    BY <1>2, <1>0 DEF Arrive, Sound, Covered, InCover, db, Clocks, TypeOK, Cover
  <2>2. ASSUME NEW c \in Client PROVE Rest(c)'
    <3>1. \A y \in Txn : Due(c, y)' /\ Busy(c) => Due(c, y)
      BY <1>2, <1>0 DEF Arrive, Due, client, db, Clocks, TypeOK, Within, Busy
    <3>2. pc[c] = "serve" => x \notin Within(job[c].objs, job[c].s, SealedTo(c))
      BY <1>2, <1>0 DEF Arrive, Clocks, TypeOK, Within, SealedTo, Least, Paging, Busy
    <3> QED BY <1>2, <3>1, <3>2, <1>a, <1>0
          DEF Arrive, Behind, Fetched, Stored, Servable, InPage, Busy, Front, SealedTo,
              Within, client, db, TypeOK
  <2> QED BY <2>1, <2>2 DEF Kept
<1>3. ASSUME NEW c \in Client, NEW O \in SUBSET Obj, NEW w \in Windows, Start(c, O, w) PROVE Sound' /\ Kept'
  <2>1. Sound'
    BY <1>3, <1>0, <1>c DEF Start, db, TypeOK
  <2>2. ASSUME NEW d \in Client, d # c PROVE Rest(d)'
    BY <1>3, <1>0, <1>b, <2>2 DEF Start, db, TypeOK
  <2>3. Rest(c)'
    <3>1. pc'[c] = "check" /\ Front(c)' = job'[c].s
      BY <1>3, <1>0 DEF Start, Locks, Front, TypeOK, Actor
    <3>2. \A x \in Txn : ~(Due(c, x)' /\ EndOf[x] < Front(c)')
      BY <3>1, <1>0 DEF Due, Within, TypeOK
    <3> QED BY <3>1, <3>2 DEF Behind, Fetched, Stored, Servable
  <2> QED BY <2>1, <2>2, <2>3 DEF Kept
<1>4. ASSUME NEW c \in Client, ReadSeal(c) PROVE Sound' /\ Kept'
  <2>1. Sound'
    BY <1>4, <1>0, <1>c DEF ReadSeal, db, TypeOK
  <2>2. ASSUME NEW d \in Client, d # c PROVE Rest(d)'
    <3>1. UNCHANGED <<collector, rows, pc[d], job[d], cursor[d], seal[d], reply[d], lost, hole>>
      BY <1>4, <1>0, <2>2 DEF ReadSeal, db, TypeOK
    <3>2. lost[d] \in Int /\ hole \in Int
      BY <1>0 DEF TypeOK
    <3> QED BY <1>b, <3>1, <3>2
  <2>3. Rest(c)'
    <3>1. \A x \in Txn : Due(c, x)' => Due(c, x)
      BY <1>4, <1>0 DEF ReadSeal, Due, db, TypeOK, Within
    <3> QED BY <1>4, <3>1, <1>a, <1>0 DEF ReadSeal, Behind, Fetched, Stored, Servable, InPage, Busy, Front, SealedTo, Within, TypeOK, Actor, db
  <2> QED BY <2>1, <2>2, <2>3 DEF Kept
<1>5. ASSUME NEW c \in Client, Check(c) PROVE Sound' /\ Kept'
  <2>1. Sound'
    BY <1>5, <1>0, <1>c DEF Check, db, TypeOK
  <2>2. ASSUME NEW d \in Client, d # c PROVE Rest(d)'
    BY <1>5, <1>0, <1>b, <2>2 DEF Check, db, TypeOK
  <2>3. Rest(c)'
    <3>1. \A x \in Txn : Due(c, x)' => Due(c, x)
      BY <1>5, <1>0 DEF Check, Due, db, TypeOK, Within
    <3>2. Behind(c)' /\ Fetched(c)' /\ Stored(c)'
      BY <1>5, <3>1, <1>a, <1>0 DEF Check, Behind, Fetched, Stored, Servable, InPage, Busy, Front, SealedTo, Within, TypeOK, Actor, db
    <3>3. ASSUME pc'[c] = "serve", NEW x \in collector,
                 x \in Within(job[c].objs, job[c].s, SealedTo(c)), EndOf[x] >= hole
          PROVE  x \in rows
      <4>1. XlogCovered(job[c].objs, job[c].s, SealedTo(c))
        BY <1>5, <3>3, <1>0 DEF Check, TypeOK, Actor
      <4>2. EndOf[x] \in Int /\ SealedTo(c) \in Int /\ job[c].s \in Int
        BY <3>3, <1>0, SealedToType DEF TypeOK
      <4>3. Covered(x)
        <5>1. ObjOf[x] \in job[c].objs /\ job[c].s <= EndOf[x] /\ EndOf[x] <= SealedTo(c)
          BY <3>3 DEF Within
        <5>2. PICK d \in cover : d.obj = ObjOf[x] /\ d.s <= job[c].s /\ SealedTo(c) <= d.e
          BY <4>1, <5>1 DEF XlogCovered
        <5>3. d.s \in Int /\ d.e \in Int
          BY <1>0 DEF TypeOK, Cover
        <5> QED BY <5>1, <5>2, <5>3, <4>2 DEF Covered, InCover
      <4>4. cut = 0
        BY <1>5, <1>0 DEF Check, Locks
      <4> QED BY <3>3, <4>3, <4>4, <1>0 DEF Sound, TypeOK
    <3>4. Servable(c)'
      BY <1>5, <3>3, <1>0 DEF Check, Servable, SealedTo, db, Within
    <3> QED BY <3>2, <3>4
  <2> QED BY <2>1, <2>2, <2>3 DEF Kept
<1>6. ASSUME NEW c \in Client, Serve(c) PROVE Sound' /\ Kept'
  <2>1. Sound'
    BY <1>6, <1>0, <1>c DEF Serve, db, TypeOK
  <2>2. ASSUME NEW d \in Client, d # c PROVE Rest(d)'
    BY <1>6, <1>0, <1>b, <2>2 DEF Serve, Served, db, TypeOK
  <2>3. Rest(c)'
    <3>1. PICK P \in SUBSET (rows \cap Within(job[c].objs, Front(c), SealedTo(c))),
               t \in {0} \cup {EndOf[x] : x \in rows} :
            \E done \in BOOLEAN :
             /\ IsLast(t, P)
             /\ cursor' = [cursor EXCEPT ![c] = IF done THEN @ ELSE CachePage(c, P, t).last]
             /\ pc' = [pc EXCEPT ![c] = IF done THEN "done" ELSE NextPage(c)]
      BY <1>6 DEF Serve, Served
    <3>2. SealedTo(c) \in Int /\ t \in Int
      BY SealedToType, <1>0 DEF TypeOK
    <3>3. t = 0 \/ t <= SealedTo(c)
      BY <3>1 DEF IsLast, Within
    <3>4. CachePage(c, P, t).last = 0 \/ CachePage(c, P, t).last <= SealedTo(c)
      BY <3>3, <3>2 DEF CachePage
    <3>5. Front(c)' = Front(c) \/ Front(c)' = job[c].s \/ Front(c)' <= SealedTo(c)
      BY <1>6, <3>1, <3>4, <1>0 DEF Serve, Front, TypeOK
    <3>6. \A x \in Txn : Due(c, x)' => Due(c, x)
      BY <1>6, <1>0 DEF Serve, Due, db, TypeOK, Within
    <3>7. ASSUME NEW x \in Txn, Due(c, x), EndOf[x] < Front(c)' PROVE x \in rows
      <4>1. CASE Front(c)' = Front(c)
        BY <4>1, <3>7, <1>a, <1>6 DEF Behind, Busy, Serve
      <4>2. CASE Front(c)' = job[c].s
        BY <4>2, <3>7, <1>0 DEF Due, Within, TypeOK
      <4>3. CASE Front(c)' <= SealedTo(c)
        <5>1. Front(c)' \in Int /\ EndOf[x] <= SealedTo(c)
          BY <4>3, <3>2, <3>7, <1>0 DEF TypeOK, Front
        <5> QED BY <5>1, <3>7, <1>a, <1>6 DEF Due, Servable, Within, Serve
      <4> QED BY <3>5, <4>1, <4>2, <4>3
    <3>8. pc'[c] \in {"done", "check", "seal"} /\ rows' = rows
      BY <1>6, <3>1, <1>0 DEF Serve, NextPage, TypeOK, Actor, db
    <3> QED BY <3>6, <3>7, <3>8 DEF Behind, Fetched, Stored, Servable
  <2> QED BY <2>1, <2>2, <2>3 DEF Kept
<1>7. ASSUME NEW c \in Client, Answer(c) PROVE Sound' /\ Kept'
  <2>1. Sound'
    BY <1>7, <1>0, <1>c DEF Answer, db, TypeOK
  <2>2. ASSUME NEW d \in Client, d # c PROVE Rest(d)'
    BY <1>7, <1>0, <1>b, <2>2 DEF Answer, db, TypeOK
  <2>3. Rest(c)'
    <3> DEFINE S == collector \cap Within(job[c].objs, Front(c), job[c].e)
    <3>1. PICK P \in SUBSET S, more \in BOOLEAN, t \in {0} \cup {EndOf[x] : x \in S} :
            /\ IsPage(P, S) /\ IsLast(t, P) /\ (P # S => more)
            /\ reply' = [reply EXCEPT ![c] = [rows |-> P, more |-> more, last |-> t]]
      BY <1>7 DEF Answer
    <3>2. reply'[c] = [rows |-> P, more |-> more, last |-> t] /\ pc'[c] = "put"
      BY <1>7, <3>1, <1>0 DEF Answer, TypeOK, Actor
    <3>3. \A x \in Txn : Due(c, x)' => Due(c, x)
      BY <1>7, <1>0 DEF Answer, Due, db, TypeOK, Within
    <3>4. Behind(c)'
      BY <1>7, <3>3, <1>a, <1>0 DEF Answer, Behind, Front, Busy, db
    <3>5. ASSUME NEW x \in Txn, Due(c, x), InPage(c, x)' PROVE x \in rows \cup P
      <4>1. Front(c) \in Int /\ EndOf[x] \in Int /\ job[c].e \in Int /\ job[c].s \in Int
        BY SealedToType, <1>0 DEF TypeOK
      <4>2. CASE EndOf[x] < Front(c)
        BY <4>2, <3>5, <1>a, <1>7 DEF Behind, Busy, Answer
      <4>3. CASE EndOf[x] >= Front(c)
        <5>1. x \in S
          BY <4>1, <4>3, <3>5 DEF Due, Within
        <5>2. CASE P = S
          BY <5>1, <5>2
        <5>3. CASE P # S
          <6>1. more /\ EndOf[x] < t
            BY <5>3, <3>1, <3>2, <3>5 DEF InPage
          <6>2. CASE P = {}
            BY <6>1, <6>2, <3>1, TxnFacts DEF IsLast
          <6>3. CASE P # {}
            <7>1. PICK p \in P : EndOf[p] = t
              BY <3>1, <6>3 DEF IsLast
            <7>2. EndOf[p] \in Int
              BY <1>0 DEF TypeOK
            <7> HIDE DEF S
            <7> QED BY <5>1, <6>1, <7>1, <7>2, <4>1, <3>1 DEF IsPage
          <6> QED BY <6>2, <6>3
        <5> QED BY <5>2, <5>3
      <4> QED BY <4>1, <4>2, <4>3
    <3>6. Fetched(c)'
      BY <1>7, <3>2, <3>3, <3>5 DEF Answer, Fetched, db
    <3> QED BY <3>2, <3>4, <3>6 DEF Stored, Servable
  <2> QED BY <2>1, <2>2, <2>3 DEF Kept
<1>8. ASSUME NEW c \in Client, Put(c) PROVE Sound' /\ Kept'
  <2>1. Sound'
    BY <1>8, <1>0 DEF Put, Sound, Covered, InCover, TypeOK
  <2>2. ASSUME NEW d \in Client PROVE Rest(d)'
    <3>1. \A x \in Txn : Due(d, x)' => Due(d, x)
      BY <1>8, <1>0 DEF Put, Due, TypeOK, Within
    <3> QED BY <1>8, <3>1, <1>a, <1>0 DEF Put, Behind, Fetched, Stored, Servable, InPage, Busy, Front, SealedTo, Within, TypeOK, Actor
  <2> QED BY <2>1, <2>2 DEF Kept
<1>9. ASSUME NEW c \in Client, PutFail(c) PROVE Sound' /\ Kept'
  <2>1. Sound'
    BY <1>9, <1>0, <1>c DEF PutFail, db, TypeOK
  <2>2. ASSUME NEW d \in Client, d # c PROVE Rest(d)'
    BY <1>9, <1>0, <1>b, <2>2 DEF PutFail, db, TypeOK
  <2>3. Rest(c)'
    <3>1. \A x \in Txn : ~Due(c, x)'
      BY <1>9, <1>0 DEF PutFail, Due, Clocks, TypeOK, Within, db
    <3> QED BY <1>9, <3>1, <1>0 DEF PutFail, Behind, Fetched, Stored, Servable, InPage, Busy, Front, SealedTo, Within, TypeOK, Actor
  <2> QED BY <2>1, <2>2, <2>3 DEF Kept
<1>10. ASSUME NEW a \in Actor, EvictRows(a) PROVE Sound' /\ Kept'
  <2>1. cut' \in Nat /\ cut = 0 /\ rows' = {x \in rows : EndOf[x] >= cut'}
    BY <1>10, <1>0 DEF EvictRows, TypeOK
  <2>2. Sound'
    BY <1>10, <2>1, <1>0 DEF EvictRows, Sound, Covered, InCover, TypeOK
  <2>3. ASSUME NEW c \in Client PROVE Rest(c)'
    <3>1. Busy(c) => lost'[c] >= lost[c] /\ lost'[c] >= cut'
      BY <1>10, <2>1, <1>0 DEF EvictRows, LoseBelow, Greatest, TypeOK
    <3>2. \A x \in Txn : Busy(c) /\ Due(c, x)' => Due(c, x) /\ EndOf[x] >= cut'
      BY <1>10, <2>1, <3>1, <1>0 DEF EvictRows, Due, TypeOK, Within
    <3> QED BY <1>10, <2>1, <3>1, <3>2, <1>a, <1>0 DEF EvictRows, Behind, Fetched, Stored, Servable, InPage, Busy, Front, SealedTo, Within, TypeOK, Actor
  <2> QED BY <2>2, <2>3 DEF Kept
<1>11. ASSUME NEW a \in Actor, TrimCover(a) PROVE Sound' /\ Kept'
  <2>1. \A o \in Obj, t \in Int : InCover(o, t)' => InCover(o, t) /\ t >= cut
    <3> SUFFICES ASSUME NEW o \in Obj, NEW t \in Int, InCover(o, t)'
                 PROVE  InCover(o, t) /\ t >= cut
      OBVIOUS
    <3>1. PICK d \in Trimmed(cut) : d.obj = o /\ d.s <= t /\ t <= d.e
      BY <1>11 DEF TrimCover, InCover
    <3>2. PICK k \in cover : d = [k EXCEPT !.s = Greatest(k.s, cut)]
      BY <3>1 DEF Trimmed
    <3>3. k \in Cover /\ k.obj = o /\ k.e = d.e /\ d.s = Greatest(k.s, cut)
      BY <3>1, <3>2, <1>0 DEF TypeOK, Cover
    <3> QED BY <3>1, <3>2, <3>3, <1>0 DEF InCover, Greatest, Cover, TypeOK
  <2>2. Sound'
    BY <1>11, <2>1, <1>0, TxnFacts DEF TrimCover, Sound, Covered, TypeOK
  <2>3. ASSUME NEW c \in Client PROVE Rest(c)'
    BY <1>11, <1>0, <1>b, <2>3 DEF TrimCover, client, TypeOK
  <2> QED BY <2>2, <2>3 DEF Kept
<1>12. ASSUME NEW a \in Actor, EvictEnd(a) PROVE Sound' /\ Kept'
  <2>1. Sound'
    BY <1>12, <1>0, <1>c DEF EvictEnd, TypeOK
  <2>2. ASSUME NEW c \in Client PROVE Rest(c)'
    <3>1. \A x \in Txn : Due(c, x)' => Due(c, x)
      BY <1>12, <1>0 DEF EvictEnd, Due, TypeOK, Within
    <3> QED BY <1>12, <3>1, <1>a, <1>0 DEF EvictEnd, Release, Behind, Fetched, Stored, Servable, InPage, Busy, Front, SealedTo, Within, TypeOK, Actor
  <2> QED BY <2>1, <2>2 DEF Kept
<1>13. ASSUME NEW c \in Client, Mark(c) PROVE Sound' /\ Kept'
  <2>1. Sound'
    <3>1. cut = 0
      BY <1>13, <1>0 DEF Mark, Locks
    <3>2. SealedTo(c) \in Int /\ SealedTo(c) <= seal[c] /\ SealedTo(c) <= job[c].e /\ job[c].s \in Int
      BY <1>0 DEF TypeOK, SealedTo, Least
    <3>3. ASSUME NEW x \in collector, Covered(x)', EndOf[x] >= hole' PROVE x \in rows
      <4>1. x \in Txn /\ EndOf[x] \in Int /\ hole' >= hole
        BY <1>13, <1>0 DEF TypeOK, Mark, Greatest
      <4>2. PICK m \in MarkXlog(job[c].objs, job[c].s, SealedTo(c)) :
              m.obj = ObjOf[x] /\ m.s <= EndOf[x] /\ EndOf[x] <= m.e
        BY <1>13, <3>3 DEF Mark, Covered, InCover
      <4>3. CASE Covered(x)
        BY <4>1, <4>3, <3>1, <3>3, <1>0 DEF Sound, TypeOK
      <4>4. CASE ~Covered(x)
        <5>1. ObjOf[x] \in job[c].objs /\ job[c].s <= EndOf[x] /\ EndOf[x] <= SealedTo(c)
          BY <4>1, <4>2, <4>4, <3>2, <1>0, MarkAdds DEF Covered, TypeOK
        <5>2. seal[c] + Lag < job[c].began
          BY <1>13, <1>0 DEF Mark, Clocks, Paging
        <5>3. EndOf[x] >= lost[c]
          BY <1>13, <3>2, <3>3, <4>1, <5>1, <1>0 DEF Mark, Greatest, TypeOK
        <5>4. Due(c, x)
          BY <3>2, <3>3, <4>1, <5>1, <5>2, <5>3, <1>0 DEF Due, Within, TypeOK
        <5> QED BY <1>13, <4>1, <5>4, <1>a DEF Stored, InPage, Mark
      <4> QED BY <4>3, <4>4
    <3> QED BY <1>13, <3>3 DEF Mark, Sound
  <2>2. ASSUME NEW d \in Client, d # c PROVE Rest(d)'
    BY <1>13, <1>0, <1>b, <2>2 DEF Mark, Greatest, db, TypeOK
  <2>3. Rest(c)'
    <3>1. \A x \in Txn : Due(c, x)' => Due(c, x)
      BY <1>13, <1>0 DEF Mark, Due, TypeOK, Within, Greatest
    <3> QED BY <1>13, <3>1, <1>a, <1>0 DEF Mark, Behind, Fetched, Stored, Servable, InPage, Busy, Front, SealedTo, Within, TypeOK, Actor
  <2> QED BY <2>1, <2>2, <2>3 DEF Kept
<1>14. ASSUME NEW c \in Client, Turn(c) PROVE Sound' /\ Kept'
  <2>1. Sound'
    BY <1>14, <1>0, <1>c DEF Turn, db, TypeOK
  <2>2. ASSUME NEW d \in Client, d # c PROVE Rest(d)'
    BY <1>14, <1>0, <1>b, <2>2 DEF Turn, db, TypeOK
  <2>3. Rest(c)'
    <3>1. \A x \in Txn : Due(c, x)' => Due(c, x)
      BY <1>14, <1>0 DEF Turn, Due, db, TypeOK, Within
    <3>2. \A x \in Txn : Due(c, x) /\ EndOf[x] < Front(c)' => x \in rows
      <4>1. Front(c)' = Front(c) \/ Front(c)' = reply[c].last \/ Front(c)' = job[c].s
        BY <1>14, <1>0 DEF Turn, Front, TypeOK
      <4>2. ASSUME NEW x \in Txn, Due(c, x), EndOf[x] < Front(c)' PROVE x \in rows
        <5>1. CASE Front(c)' = Front(c)
          BY <1>14, <4>2, <5>1, <1>a DEF Turn, Behind, Busy
        <5>2. CASE Front(c)' = reply[c].last
          BY <1>14, <4>2, <5>2, <1>a DEF Turn, Stored, InPage
        <5>3. CASE Front(c)' = job[c].s
          BY <4>2, <5>3, <1>0 DEF Due, Within, TypeOK
        <5> QED BY <4>1, <5>1, <5>2, <5>3
      <4> QED BY <4>2
    <3>3. pc'[c] \in {"done", "check", "seal"} /\ rows' = rows
      BY <1>14, <1>0 DEF Turn, NextPage, TypeOK, Actor, db
    <3> QED BY <3>1, <3>2, <3>3 DEF Behind, Fetched, Stored, Servable
  <2> QED BY <2>1, <2>2, <2>3 DEF Kept
<1>15. ASSUME NEW c \in Client, Forget(c) PROVE Sound' /\ Kept'
  <2>1. Sound'
    BY <1>15, <1>0, <1>c DEF Forget, db, TypeOK
  <2>2. ASSUME NEW d \in Client, d # c PROVE Rest(d)'
    BY <1>15, <1>0, <1>b, <2>2 DEF Forget, db, TypeOK
  <2>3. Rest(c)'
    BY <1>15, <1>0 DEF Forget, Behind, Fetched, Stored, Servable, InPage, Busy, Front, SealedTo, Within, TypeOK, Actor
  <2> QED BY <2>1, <2>2, <2>3 DEF Kept
<1>16. ASSUME NEW m \in Limits, SetMax(m) PROVE Sound' /\ Kept'
  <2>1. Sound'
    BY <1>16, <1>0, <1>c DEF SetMax, TypeOK
  <2>2. ASSUME NEW c \in Client PROVE Rest(c)'
    BY <1>16, <1>0, <1>b, <2>2 DEF SetMax, TypeOK
  <2> QED BY <2>1, <2>2 DEF Kept
<1>17. CASE ClearRows
  <2>1. Sound'
    BY <1>17, <1>0 DEF ClearRows, Sound, Clocks, TypeOK
  <2>2. ASSUME NEW c \in Client PROVE Rest(c)'
    <3>1. Busy(c) => lost'[c] >= now + 1
      BY <1>17, <1>0 DEF ClearRows, LoseBelow, Greatest, TypeOK
    <3>2. \A x \in collector : EndOf[x] < now + 1 /\ EndOf[x] \in Int
      BY <1>0 DEF Clocks, TypeOK
    <3>3. lost'[c] \in Int /\ collector' = collector /\ (Busy(c)' <=> Busy(c))
      BY <1>17, <1>0 DEF ClearRows, TypeOK, Busy
    <3>4. \A x \in Txn : Busy(c)' => ~Due(c, x)'
      BY <3>1, <3>2, <3>3, <1>0 DEF Due, TypeOK
    <3> QED BY <3>1, <3>2, <3>3, <3>4, <1>0 DEF Behind, Fetched, Stored, Servable, Busy, TypeOK
  <2> QED BY <2>1, <2>2 DEF Kept
<1>18. CASE ClearCover
  <2>1. Sound'
    BY <1>18 DEF ClearCover, Sound, Covered, InCover
  <2>2. ASSUME NEW c \in Client PROVE Rest(c)'
    <3>1. UNCHANGED <<collector, rows, pc[c], job[c], cursor[c], seal[c], reply[c], lost, hole>>
      BY <1>18, <1>0, <2>2 DEF ClearCover, TypeOK
    <3>2. lost[c] \in Int /\ hole \in Int
      BY <1>0 DEF TypeOK
    <3> QED BY <1>b, <3>1, <3>2
  <2> QED BY <2>1, <2>2 DEF Kept
<1>19. CASE Crash
  <2>1. Sound'
    <3>1. hole' = Greatest(hole, cut) /\ UNCHANGED <<collector, rows, cover>>
      BY <1>19 DEF Crash
    <3>2. ASSUME NEW x \in collector, EndOf[x] >= hole' PROVE EndOf[x] >= hole /\ EndOf[x] >= cut
      BY <3>1, <3>2, <1>0 DEF TypeOK, Greatest
    <3>3. \A x : Covered(x)' <=> Covered(x)
      BY <3>1 DEF Covered, InCover
    <3> QED BY <3>1, <3>2, <3>3, <1>0 DEF Sound
  <2>2. ASSUME NEW c \in Client PROVE Rest(c)'
    BY <1>19, <2>2 DEF Crash, Behind, Fetched, Stored, Servable, Busy, Actor
  <2> QED BY <2>1, <2>2 DEF Kept
<1>20. ASSUME NEW c \in Client, ServeFail(c) PROVE Sound' /\ Kept'
  <2>1. Sound'
    BY <1>20, <1>0, <1>c DEF ServeFail, db, TypeOK
  <2>2. ASSUME NEW d \in Client, d # c PROVE Rest(d)'
    <3>1. UNCHANGED <<collector, rows, pc[d], job[d], cursor[d], seal[d], reply[d], lost, hole>>
      BY <1>20, <1>0, <2>2 DEF ServeFail, Served, db, TypeOK
    <3>2. lost[d] \in Int /\ hole \in Int
      BY <1>0 DEF TypeOK
    <3> QED BY <1>b, <3>1, <3>2
  <2>3. Rest(c)'
    <3>1. PICK done \in BOOLEAN :
            /\ cursor' = [cursor EXCEPT ![c] = IF done THEN @ ELSE CachePage(c, {}, 0).last]
            /\ pc' = [pc EXCEPT ![c] = IF done THEN "done" ELSE NextPage(c)]
      BY <1>20 DEF ServeFail, Served
    <3>2. /\ SealedTo(c) \in Int
          /\ CachePage(c, {}, 0).last = 0 \/ CachePage(c, {}, 0).last = SealedTo(c)
      BY SealedToType, <1>0 DEF CachePage
    <3>3. /\ UNCHANGED <<collector, rows, lost, hole, seal>>
          /\ job'[c].objs = job[c].objs /\ job'[c].s = job[c].s /\ job'[c].e = job[c].e
          /\ job'[c].began = job[c].began
      BY <1>20, <1>0 DEF ServeFail, db, TypeOK
    <3>4. Front(c)' = Front(c) \/ Front(c)' = job[c].s \/ Front(c)' = SealedTo(c)
      BY <3>1, <3>2, <3>3, <1>0 DEF Front, TypeOK
    <3>5. \A x \in Txn : Due(c, x)' => Due(c, x)
      BY <3>3 DEF Due, Within
    <3>6. ASSUME NEW x \in Txn, Due(c, x), EndOf[x] < Front(c)' PROVE x \in rows
      <4>1. CASE Front(c)' = Front(c)
        BY <4>1, <3>6, <1>a, <1>20 DEF Behind, Busy, ServeFail
      <4>2. CASE Front(c)' = job[c].s
        BY <4>2, <3>6, <1>0 DEF Due, Within, TypeOK
      <4>3. CASE Front(c)' = SealedTo(c)
        <5>1. EndOf[x] <= SealedTo(c)
          BY <4>3, <3>2, <3>6, <1>0 DEF TypeOK
        <5> QED BY <5>1, <3>6, <1>a, <1>20 DEF Due, Servable, Within, ServeFail
      <4> QED BY <3>4, <4>1, <4>2, <4>3
    <3>7. pc'[c] \in {"done", "check", "seal"}
      BY <3>1, <1>0 DEF NextPage, TypeOK, Actor
    <3> QED BY <3>3, <3>5, <3>6, <3>7 DEF Behind, Fetched, Stored, Servable
  <2> QED BY <2>1, <2>2, <2>3 DEF Kept
<1>21. ASSUME NEW c \in Client, MarkFail(c) PROVE Sound' /\ Kept'
  <2>1. Sound'
    BY <1>21, <1>0, <1>c DEF MarkFail, db, TypeOK
  <2>2. ASSUME NEW d \in Client, d # c PROVE Rest(d)'
    BY <1>21, <1>0, <1>b, <2>2 DEF MarkFail, db, TypeOK
  <2>3. Rest(c)'
    <3>1. \A x \in Txn : Due(c, x)' => Due(c, x)
      BY <1>21, <1>0 DEF MarkFail, Due, db, TypeOK, Within
    <3> QED BY <1>21, <3>1, <1>a, <1>0 DEF MarkFail, Behind, Fetched, Stored, Servable, Busy, Front, db, TypeOK, Actor
  <2> QED BY <2>1, <2>2, <2>3 DEF Kept
<1>22. ASSUME NEW a \in Actor, EvictFail(a) PROVE Sound' /\ Kept'
  <2>1. Sound'
    <3>1. hole' = Greatest(hole, cut) /\ UNCHANGED <<collector, rows, cover>>
      BY <1>22 DEF EvictFail
    <3>2. ASSUME NEW x \in collector, EndOf[x] >= hole' PROVE EndOf[x] >= hole /\ EndOf[x] >= cut
      BY <3>1, <3>2, <1>0 DEF TypeOK, Greatest
    <3>3. \A x : Covered(x)' <=> Covered(x)
      BY <3>1 DEF Covered, InCover
    <3> QED BY <3>1, <3>2, <3>3, <1>0 DEF Sound
  <2>2. ASSUME NEW c \in Client PROVE Rest(c)'
    <3>1. UNCHANGED <<collector, rows, job, cursor, seal, reply, lost>> /\ hole' >= hole
      BY <1>22, <1>0 DEF EvictFail, Greatest, TypeOK
    <3>2. CASE pc'[c] = pc[c]
      BY <3>1, <3>2, <1>0, <1>b DEF TypeOK
    <3>3. CASE pc'[c] # pc[c]
      <4>1. pc[c] = "evict" /\ pc'[c] = "mark"
        BY <3>3, <1>22, <1>0 DEF EvictFail, Release, TypeOK, Actor
      <4>2. \A x \in Txn : Due(c, x)' => Due(c, x)
        BY <3>1, <1>0 DEF Due, TypeOK, Within
      <4> QED BY <3>1, <4>1, <4>2, <1>a DEF Behind, Fetched, Stored, Servable, InPage, Busy, Front
    <3> QED BY <3>2, <3>3
  <2> QED BY <2>1, <2>2 DEF Kept
<1>23. CASE UNCHANGED vars
  <2>1. Sound'
    BY <1>23, <1>0, <1>c DEF vars, TypeOK
  <2>2. ASSUME NEW c \in Client PROVE Rest(c)'
    BY <1>23, <1>0, <1>b, <2>2 DEF vars, TypeOK
  <2> QED BY <2>1, <2>2 DEF Kept
<1> QED
  BY <1>1, <1>2, <1>3, <1>4, <1>5, <1>6, <1>7, <1>8, <1>9, <1>10, <1>11, <1>12,
     <1>13, <1>14, <1>15, <1>16, <1>17, <1>18, <1>19, <1>20, <1>21, <1>22, <1>23
  DEF Next, Step, Evict, Return, Fail

\* Between the statements of an eviction the promise is the property.
LEMMA CoverFromInv == IInv => CoverSoundAboveHole
BY DataAssumption DEF IInv, ITypeOK, TypeOK, Sound, CoverSoundAboveHole

\* What is recorded as covered is in the cache, except below the hole that
\* evictions and failures have torn, provided nothing arrives below a seal in use.
THEOREM CoverIsSound ==
  ASSUME SealMargin
  PROVE  Spec => []CoverSoundAboveHole
<1>1. Init => IInv
  BY TypeInit, ClocksInit, KeptInit DEF IInv
<1>2. IInv /\ [Next]_vars => IInv'
  BY SealMargin, TypeStep, ClocksStep, KeptStep DEF IInv
<1> QED BY <1>1, <1>2, CoverFromInv, PTL DEF Spec

-----------------------------------------------------------------------------
(* What a query over the XLog cache returns.                               *)

\* A transaction that did not leave the cache while the query ran.
Unlost(c, x) == EndOf[x] >= lost[c] /\ EndOf[x] >= hole

\* Up to its cursor a query has returned what it owes, and the rest of a page
\* in flight is in the page.
GotBehind(c) == Busy(c) /\ pc[c] # "done" =>
  \A x \in job[c].owed : Unlost(c, x) /\ EndOf[x] < Front(c) => x \in got[c]

GotPage(c) == pc[c] \in {"put", "evict", "mark"} =>
  \A x \in job[c].owed : Unlost(c, x) /\ InPage(c, x) => x \in got[c] \cup reply[c].rows

GotAll(c) == pc[c] = "done" =>
  \A x \in job[c].owed : Unlost(c, x) => x \in got[c]

\* What a query owes, and the shape of a page in flight.
Owes(c) == job[c].owed \subseteq collector \cap Within(job[c].objs, job[c].s, job[c].e)

Shape(c) ==
  /\ pc[c] \in {"put", "evict", "mark"} =>
       /\ reply[c].rows \subseteq Within(job[c].objs, Front(c), job[c].e)
       /\ IsLast(reply[c].last, reply[c].rows)
       /\ reply[c].more => IsFull(reply[c].rows)
  /\ pc[c] = "serve" => Front(c) < SealedTo(c)
  /\ 0 <= cursor[c]

Answering(c) == GotBehind(c) /\ GotPage(c) /\ GotAll(c) /\ Owes(c) /\ Shape(c)

AInv == IInv /\ \A c \in Client : Answering(c)

\* A full page whose last row ends no later than the front ends at one instant.
LEMMA FullPageAdvances ==
  ASSUME FewTies, TypeOK, NEW c \in Client, NEW O \in SUBSET Obj, NEW e \in Int,
         NEW P \in SUBSET Within(O, Front(c), e), NEW t \in Int, IsLast(t, P), IsFull(P)
  PROVE  P # {} /\ t > Front(c)
<1> USE DataAssumption
<1>1. P \in SUBSET Txn
  BY DEF Within
<1>2. \E x, y \in P : EndOf[x] # EndOf[y]
  BY <1>1 DEF FewTies
<1>3. Front(c) \in Int /\ \A x \in P : EndOf[x] \in Int /\ Front(c) <= EndOf[x] /\ EndOf[x] <= t
  BY <1>2, SealedToType DEF Within, IsLast
<1> QED BY <1>2, <1>3

\* No query has begun, so no answer is owed.
LEMMA AnswerInit == Init => \A c \in Client : Answering(c)
BY DEF Init, Answering, GotBehind, GotPage, GotAll, Owes, Shape, Busy, Actor, NoJob

\* Every step keeps the answers complete.
LEMMA AnswerStep ==
  ASSUME FewTies, AInv, IInv', [Next]_vars, NEW c \in Client
  PROVE  Answering(c)'
<1> USE ActorAssumption, DataAssumption, BoundAssumption
<1>0. TypeOK /\ TypeOK' /\ Clocks /\ Locks /\ Kept /\ Answering(c)
  BY DEF IInv, ITypeOK, AInv
\* A step of which the query sees only that its exemptions grow.
<1>a. ASSUME UNCHANGED <<pc[c], job[c], cursor[c], seal[c], reply[c], got[c]>>,
             collector \subseteq collector', lost'[c] >= lost[c], hole' >= hole
      PROVE  Answering(c)'
  <2>1. \A x \in Txn : Unlost(c, x)' => Unlost(c, x)
    BY <1>a, <1>0 DEF Unlost, TypeOK
  <2>2. job[c].owed \subseteq Txn
    BY <1>0 DEF TypeOK
  <2>3. GotBehind(c)' /\ GotPage(c)' /\ GotAll(c)'
    BY <1>a, <2>1, <2>2, <1>0 DEF Answering, GotBehind, GotPage, GotAll, InPage, Busy, Front
  <2>4. Owes(c)'
    BY <1>a, <1>0 DEF Answering, Owes, Within
  <2>5. Shape(c)'
    BY <1>a, <1>0 DEF Answering, Shape, Front, SealedTo, Within, IsLast
  <2> QED BY <2>3, <2>4, <2>5 DEF Answering
\* A step of the query itself that moves it to another point of the same page.
<1>b. ASSUME UNCHANGED <<collector, job[c], cursor[c], seal[c], reply[c], got[c]>>,
             lost'[c] >= lost[c], hole' >= hole,
             pc[c] \in {"put", "evict", "mark"}, pc'[c] \in {"put", "evict", "mark"}
      PROVE  Answering(c)'
  <2>1. \A x \in Txn : Unlost(c, x)' => Unlost(c, x)
    BY <1>b, <1>0 DEF Unlost, TypeOK
  <2>2. job[c].owed \subseteq Txn
    BY <1>0 DEF TypeOK
  <2>3. GotBehind(c)' /\ GotPage(c)' /\ GotAll(c)'
    BY <1>b, <2>1, <2>2, <1>0 DEF Answering, GotBehind, GotPage, GotAll, InPage, Busy, Front
  <2>4. Owes(c)'
    BY <1>b, <1>0 DEF Answering, Owes, Within
  <2>5. Shape(c)'
    BY <1>b, <1>0 DEF Answering, Shape, Front, SealedTo, Within, IsLast
  <2> QED BY <2>3, <2>4, <2>5 DEF Answering
<1>1. CASE Tick
  BY <1>1, <1>a, <1>0 DEF Tick, db, client, TypeOK
<1>2. ASSUME NEW x \in Txn, Arrive(x) PROVE Answering(c)'
  BY <1>2, <1>a, <1>0 DEF Arrive, db, client, TypeOK
<1>3. ASSUME NEW d \in Client, NEW O \in SUBSET Obj, NEW w \in Windows, Start(d, O, w)
      PROVE  Answering(c)'
  <2>1. CASE d # c
    BY <2>1, <1>3, <1>a, <1>0 DEF Start, db, TypeOK, Actor
  <2>2. CASE d = c
    <3>1. /\ pc'[c] = "check" /\ cursor'[c] = 0
          /\ job'[c] = [objs |-> O, s |-> w.s, e |-> w.e, began |-> now,
                        owed |-> collector \cap Within(O, w.s, w.e)]
          /\ collector' = collector
      BY <2>2, <1>3, <1>0 DEF Start, Locks, TypeOK, Actor
    <3>2. \A x \in job'[c].owed : ~(EndOf[x] < Front(c)')
      BY <3>1 DEF Front, Within
    <3> QED BY <3>1, <3>2
          DEF Answering, GotBehind, GotPage, GotAll, Owes, Shape, Within, Busy
  <2> QED BY <2>1, <2>2
<1>4. ASSUME NEW d \in Client, ReadSeal(d) PROVE Answering(c)'
  <2>1. CASE d # c
    BY <2>1, <1>4, <1>a, <1>0 DEF ReadSeal, db, TypeOK, Actor
  <2>2. CASE d = c
    BY <2>2, <1>4, <1>0 DEF ReadSeal, db, TypeOK, Actor, Unlost, Front, Busy,
         Answering, GotBehind, GotPage, GotAll, Owes, Shape, Within
  <2> QED BY <2>1, <2>2
<1>5. ASSUME NEW d \in Client, Check(d) PROVE Answering(c)'
  <2>1. CASE d # c
    BY <2>1, <1>5, <1>a, <1>0 DEF Check, db, TypeOK, Actor
  <2>2. CASE d = c
    BY <2>2, <1>5, <1>0 DEF Check, db, TypeOK, Actor, Unlost, Front, Busy, SealedTo,
         Answering, GotBehind, GotPage, GotAll, Owes, Shape, Within
  <2> QED BY <2>1, <2>2
<1>6. ASSUME NEW d \in Client, Serve(d) PROVE Answering(c)'
  <2>1. CASE d # c
    BY <2>1, <1>6, <1>a, <1>0 DEF Serve, Served, db, TypeOK, Actor
  <2>2. CASE d = c
    <3> DEFINE R == rows \cap Within(job[c].objs, Front(c), SealedTo(c))
    <3>1. PICK P \in SUBSET R, t \in {0} \cup {EndOf[x] : x \in rows} :
            LET page == CachePage(c, P, t)
                done == ~page.more \/ page.last <= cursor[c]
            IN  /\ IsPage(P, R) /\ IsLast(t, P)
                /\ got' = [got EXCEPT ![c] = @ \cup P]
                /\ cursor' = [cursor EXCEPT ![c] = IF done THEN @ ELSE page.last]
                /\ pc' = [pc EXCEPT ![c] = IF done THEN "done" ELSE NextPage(c)]
      BY <2>2, <1>6 DEF Serve, Served
    <3> DEFINE page == CachePage(c, P, t)
               done == ~page.more \/ page.last <= cursor[c]
    <3>2. /\ SealedTo(c) \in Int /\ SealedTo(c) <= job[c].e /\ job[c].e \in Int
          /\ Front(c) \in Int /\ t \in Int /\ cursor[c] \in Int /\ job[c].s \in Int
      BY SealedToType, <1>0 DEF TypeOK, SealedTo, Least
    <3>3. /\ got'[c] = got[c] \cup P /\ job'[c] = job[c] /\ collector' = collector
          /\ cursor'[c] = IF done THEN cursor[c] ELSE page.last
          /\ pc'[c] = IF done THEN "done" ELSE NextPage(c)
      BY <3>1, <2>2, <1>6, <1>0 DEF Serve, TypeOK, Actor, db
    <3>4. pc[c] = "serve" /\ Front(c) < SealedTo(c) /\ cursor[c] <= Front(c) /\ 0 < Front(c)
      BY <2>2, <1>6, <1>0, <3>2 DEF Serve, Answering, Shape, Front, Clocks, Busy
    <3>5. \A x \in Txn : Unlost(c, x)' => Unlost(c, x)
      BY <2>2, <1>6, <1>0 DEF Serve, Unlost
    \* whatever is owed in the cache's part is in the cache
    <3>6. ASSUME NEW x \in job[c].owed, Unlost(c, x), EndOf[x] <= SealedTo(c)
          PROVE  x \in rows /\ x \in Txn /\ EndOf[x] \in Int
      <4>1. x \in collector /\ x \in Within(job[c].objs, job[c].s, SealedTo(c))
        BY <3>6, <1>0 DEF Answering, Owes, Within
      <4> QED BY <4>1, <3>4, <3>6, <1>0 DEF Kept, Servable, Unlost, TypeOK
    \* a row of the cache before the last row of the page is returned
    <3>7. ASSUME NEW x \in job[c].owed, Unlost(c, x), EndOf[x] <= SealedTo(c),
                 P = R \/ EndOf[x] < t
          PROVE  x \in got'[c]
      <4>1. CASE EndOf[x] < Front(c)
        BY <4>1, <3>3, <3>4, <3>7, <1>0 DEF Answering, GotBehind, Busy
      <4>2. CASE EndOf[x] >= Front(c)
        <5>1. x \in R
          BY <4>2, <3>6, <3>7, <1>0 DEF Within, Answering, Owes
        <5>2. CASE P = R
          BY <5>1, <5>2, <3>3
        <5>3. CASE EndOf[x] < t
          <6>1. P # {} => \E p \in P : EndOf[p] = t
            BY <3>1 DEF IsLast
          <6>2. P = {} => t = 0
            BY <3>1 DEF IsLast
          <6>3. \A p \in P, y \in R \ P : EndOf[p] <= EndOf[y]
            BY <3>1 DEF IsPage
          <6>4. x \in Txn /\ EndOf[x] \in Int /\ EndOf[x] > 0
            BY <3>6, <3>7, TxnFacts
          <6> HIDE DEF R
          <6>5. x \in P
            BY <5>1, <5>3, <6>1, <6>2, <6>3, <6>4, <3>2
          <6> QED BY <6>5, <3>3
        <5> QED BY <5>2, <5>3, <3>7
      <4> QED BY <4>1, <4>2, <3>6, <3>7, <3>2
    <3>8. CASE IsFull(P)
      <4>1. page.more /\ page.last = t
        BY <3>8 DEF CachePage
      <4>2. P # {} /\ t > Front(c)
        <5>1. job[c].objs \in SUBSET Obj
          BY <1>0 DEF TypeOK
        <5> QED BY <5>1, <3>1, <3>2, <3>8, <1>0, FullPageAdvances
      <4>3. ~done /\ t <= SealedTo(c) /\ t > 0
        BY <4>1, <4>2, <3>1, <3>2, <3>4, <1>0 DEF IsLast, Within
      <4>4. Front(c)' = t /\ pc'[c] \in {"seal", "check"}
        BY <4>1, <4>3, <3>3 DEF Front, NextPage
      <4>7. 0 <= cursor'[c]
        BY <4>1, <4>3, <3>2, <3>3
      <4>5. \A x \in job[c].owed : x \in Txn /\ EndOf[x] \in Int
        BY <1>0 DEF TypeOK
      <4>6. GotBehind(c)'
        BY <4>3, <4>4, <4>5, <3>2, <3>3, <3>5, <3>7 DEF GotBehind
      <4> QED BY <4>4, <4>6, <4>7, <3>3, <1>0 DEF Answering, GotPage, GotAll, Owes, Shape, Within
    <3>9. CASE ~IsFull(P)
      <4>1. P = R
        BY <3>1, <3>9 DEF IsPage, IsFull
      <4>2. CASE SealedTo(c) < job[c].e
        <5>1. page.more /\ page.last = SealedTo(c)
          BY <4>2, <3>9 DEF CachePage
        <5>2. ~done
          BY <5>1, <3>2, <3>4
        <5>3. Front(c)' = SealedTo(c) /\ pc'[c] \in {"seal", "check"}
          BY <5>1, <5>2, <3>2, <3>3, <3>4 DEF Front, NextPage
        <5>4. \A x \in job[c].owed : x \in Txn /\ EndOf[x] \in Int
          BY <1>0 DEF TypeOK
        <5>5. GotBehind(c)'
          BY <4>1, <5>3, <5>4, <3>2, <3>3, <3>5, <3>7 DEF GotBehind
        <5>6. 0 <= cursor'[c]
          BY <5>1, <5>2, <3>2, <3>3, <3>4
        <5> QED BY <5>3, <5>5, <5>6, <3>3, <1>0 DEF Answering, GotPage, GotAll, Owes, Shape, Within
      <4>3. CASE ~(SealedTo(c) < job[c].e)
        <5>1. ~page.more
          BY <4>3, <3>9 DEF CachePage
        <5>2. pc'[c] = "done"
          BY <5>1, <3>3
        <5>3. \A x \in job[c].owed : x \in Txn /\ EndOf[x] <= SealedTo(c)
          BY <4>3, <3>2, <1>0 DEF Answering, Owes, Within, TypeOK
        <5>4. GotAll(c)'
          BY <4>1, <5>3, <3>3, <3>5, <3>7 DEF GotAll
        <5>5. 0 <= cursor'[c]
          BY <5>1, <3>3, <1>0 DEF Answering, Shape
        <5> QED BY <5>2, <5>4, <5>5, <3>3, <1>0
              DEF Answering, GotBehind, GotPage, Owes, Shape, Within, Busy
      <4> QED BY <4>2, <4>3
    <3> QED BY <3>8, <3>9
  <2> QED BY <2>1, <2>2
<1>7. ASSUME NEW d \in Client, Answer(d) PROVE Answering(c)'
  <2>1. CASE d # c
    BY <2>1, <1>7, <1>a, <1>0 DEF Answer, db, TypeOK, Actor
  <2>2. CASE d = c
    <3> DEFINE S == collector \cap Within(job[c].objs, Front(c), job[c].e)
    <3>1. PICK P \in SUBSET S, more \in BOOLEAN, t \in {0} \cup {EndOf[x] : x \in S} :
            /\ IsPage(P, S) /\ IsLast(t, P) /\ (P # S => more)
            /\ more => Cardinality(P) = PageCount
            /\ reply' = [reply EXCEPT ![c] = [rows |-> P, more |-> more, last |-> t]]
      <4>1. Answer(c)
        BY <2>2, <1>7
      <4> QED BY <4>1 DEF Answer
    <3>2. /\ reply'[c] = [rows |-> P, more |-> more, last |-> t] /\ pc'[c] = "put"
          /\ pc[c] = "ask"
          /\ UNCHANGED <<collector, job, cursor, got, lost, hole>>
      BY <2>2, <1>7, <3>1, <1>0 DEF Answer, TypeOK, Actor, db
    <3>3. GotBehind(c)' /\ GotAll(c)' /\ Owes(c)'
      BY <3>2, <1>0 DEF Answering, GotBehind, GotAll, Owes, Within, Busy, Front, Unlost
    <3>4. Shape(c)'
      <4>1. more => IsFull(P)
        BY <3>1 DEF IsFull
      <4>2. P \subseteq Within(job[c].objs, Front(c), job[c].e)
        OBVIOUS
      <4>3. 0 <= cursor'[c]
        BY <3>2, <1>0 DEF Answering, Shape
      <4> QED BY <4>1, <4>2, <4>3, <3>1, <3>2 DEF Shape, Front, Within, IsLast
    <3>5. ASSUME NEW x \in job[c].owed, Unlost(c, x), EndOf[x] < t \/ ~more
          PROVE  x \in got[c] \cup P
      <4>1. /\ Front(c) \in Int /\ x \in Txn /\ EndOf[x] \in Int /\ EndOf[x] > 0
            /\ job[c].e \in Int /\ job[c].s \in Int
        BY SealedToType, <1>0 DEF TypeOK
      <4>2. CASE EndOf[x] < Front(c)
        BY <4>2, <3>2, <3>5, <1>0 DEF Answering, GotBehind, Busy
      <4>3. CASE EndOf[x] >= Front(c)
        <5>1. x \in S
          BY <4>1, <4>3, <3>5, <1>0 DEF Within, Answering, Owes
        <5>2. CASE P = S
          BY <5>1, <5>2
        <5>3. CASE P # S
          <6>1. EndOf[x] < t
            BY <5>3, <3>1, <3>5
          <6>2. P # {}
            BY <6>1, <3>1, <4>1 DEF IsLast
          <6>3. PICK p \in P : EndOf[p] = t
            BY <3>1, <6>2 DEF IsLast
          <6>4. \A y \in S \ P : EndOf[p] <= EndOf[y]
            BY <3>1 DEF IsPage
          <6>5. EndOf[p] \in Int
            BY <1>0 DEF TypeOK
          <6> HIDE DEF S
          <6> QED BY <5>1, <6>1, <6>3, <6>4, <6>5, <4>1
        <5> QED BY <5>2, <5>3
      <4> QED BY <4>1, <4>2, <4>3
    <3>6. GotPage(c)'
      BY <3>2, <3>5 DEF GotPage, InPage, Unlost
    <3> QED BY <3>3, <3>4, <3>6 DEF Answering
  <2> QED BY <2>1, <2>2
<1>8. ASSUME NEW d \in Client, Put(d) PROVE Answering(c)'
  <2>1. CASE d # c
    BY <2>1, <1>8, <1>a, <1>0 DEF Put, TypeOK, Actor
  <2>2. CASE d = c
    BY <2>2, <1>8, <1>b, <1>0 DEF Put, TypeOK, Actor
  <2> QED BY <2>1, <2>2
<1>9. ASSUME NEW d \in Client, PutFail(d) PROVE Answering(c)'
  <2>1. CASE d # c
    BY <2>1, <1>9, <1>a, <1>0 DEF PutFail, db, TypeOK, Actor
  <2>2. CASE d = c
    <3>1. pc[c] = "put" /\ pc'[c] = "mark" /\ lost'[c] = now + 1 /\ hole' = hole
          /\ UNCHANGED <<collector, job, cursor, seal, reply, got>>
      BY <2>2, <1>9, <1>0 DEF PutFail, db, TypeOK, Actor
    <3>2. \A x \in job[c].owed : ~Unlost(c, x)'
      BY <3>1, <1>0 DEF Answering, Owes, Unlost, Clocks, TypeOK
    <3> QED BY <3>1, <3>2, <1>0
          DEF Answering, GotBehind, GotPage, GotAll, Owes, Shape, Front, Within, IsLast, Busy
  <2> QED BY <2>1, <2>2
<1>10. ASSUME NEW a \in Actor, EvictRows(a) PROVE Answering(c)'
  <2>1. cut' \in Nat /\ lost'[c] >= lost[c]
    BY <1>10, <1>0 DEF EvictRows, LoseBelow, Greatest, TypeOK
  <2> QED BY <1>10, <2>1, <1>a, <1>0 DEF EvictRows, TypeOK
<1>11. ASSUME NEW a \in Actor, TrimCover(a) PROVE Answering(c)'
  BY <1>11, <1>a, <1>0 DEF TrimCover, client, TypeOK
<1>12. ASSUME NEW a \in Actor, EvictEnd(a) PROVE Answering(c)'
  <2>1. CASE a # c
    BY <2>1, <1>12, <1>a, <1>0 DEF EvictEnd, Release, TypeOK, Actor
  <2>2. CASE a = c
    BY <2>2, <1>12, <1>b, <1>0 DEF EvictEnd, Release, TypeOK, Actor
  <2> QED BY <2>1, <2>2
<1>13. ASSUME NEW d \in Client, Mark(d) PROVE Answering(c)'
  <2>1. hole' >= hole
    BY <1>13, <1>0 DEF Mark, Greatest, TypeOK
  <2>2. CASE d # c
    BY <2>1, <2>2, <1>13, <1>a, <1>0 DEF Mark, TypeOK, Actor
  <2>3. CASE d = c
    <3>1. /\ pc[c] = "mark" /\ pc'[c] = "done" /\ ~reply[c].more
          /\ got'[c] = got[c] \cup reply[c].rows
          /\ UNCHANGED <<collector, job, cursor, lost>>
      BY <2>3, <1>13, <1>0 DEF Mark, TypeOK, Actor
    <3>2. \A x \in Txn : Unlost(c, x)' => Unlost(c, x)
      BY <3>1, <2>1, <1>0 DEF Unlost, TypeOK
    <3>3. job[c].owed \subseteq Txn
      BY <1>0 DEF TypeOK
    <3> QED BY <3>1, <3>2, <3>3, <1>0
          DEF Answering, GotBehind, GotPage, GotAll, Owes, Shape, InPage, Within, Busy
  <2> QED BY <2>2, <2>3
<1>14. ASSUME NEW d \in Client, Turn(d) PROVE Answering(c)'
  <2>1. CASE d # c
    BY <2>1, <1>14, <1>a, <1>0 DEF Turn, db, TypeOK, Actor
  <2>2. CASE d = c
    <3>1. /\ pc[c] = "mark" /\ reply[c].more
          /\ got'[c] = got[c] \cup reply[c].rows
          /\ UNCHANGED <<collector, job, lost, hole>>
      BY <2>2, <1>14, <1>0 DEF Turn, db, TypeOK, Actor
    <3>2. /\ reply[c].last \in Int /\ job[c].e \in Int /\ job[c].objs \in SUBSET Obj
          /\ cursor[c] \in Int /\ Front(c) \in Int
      BY SealedToType, <1>0 DEF TypeOK
    <3>3. reply[c].rows # {} /\ reply[c].last > Front(c)
      <4>1. /\ reply[c].rows \in SUBSET Within(job[c].objs, Front(c), job[c].e)
            /\ IsLast(reply[c].last, reply[c].rows) /\ IsFull(reply[c].rows)
        BY <3>1, <1>0 DEF Answering, Shape
      <4> QED BY <4>1, <3>2, <1>0, FullPageAdvances
    <3>4. cursor[c] <= Front(c) /\ 0 < Front(c)
      <4>1. 0 < job[c].s /\ job[c].s \in Int
        BY <3>1, <1>0 DEF Clocks, Busy, TypeOK
      <4> QED BY <4>1, <3>2, <1>0 DEF Front, Answering, Shape
    <3>5. /\ Front(c)' = reply[c].last /\ pc'[c] \in {"seal", "check"}
          /\ 0 <= cursor'[c]
      BY <2>2, <1>14, <3>2, <3>3, <3>4, <1>0 DEF Turn, Front, NextPage, TypeOK, Actor
    <3> QED BY <3>1, <3>5, <1>0
          DEF Answering, GotBehind, GotPage, GotAll, Owes, Shape, InPage, Within, Unlost
  <2> QED BY <2>1, <2>2
<1>15. ASSUME NEW d \in Client, Forget(d) PROVE Answering(c)'
  <2>1. CASE d # c
    BY <2>1, <1>15, <1>a, <1>0 DEF Forget, db, TypeOK, Actor
  <2>2. CASE d = c
    BY <2>2, <1>15, <1>0 DEF Forget, TypeOK, Actor, NoJob, Busy,
         Answering, GotBehind, GotPage, GotAll, Owes, Shape
  <2> QED BY <2>1, <2>2
<1>16. ASSUME NEW m \in Limits, SetMax(m) PROVE Answering(c)'
  BY <1>16, <1>a, <1>0 DEF SetMax, TypeOK, Actor
<1>17. CASE ClearRows
  <2>1. lost'[c] >= lost[c]
    BY <1>17, <1>0 DEF ClearRows, LoseBelow, Greatest, TypeOK
  <2> QED BY <1>17, <2>1, <1>a, <1>0 DEF ClearRows, TypeOK, Actor
<1>18. CASE ClearCover
  BY <1>18, <1>a, <1>0 DEF ClearCover, TypeOK, Actor
<1>19. CASE Crash
  BY <1>19 DEF Crash, Actor, NoJob, Busy,
     Answering, GotBehind, GotPage, GotAll, Owes, Shape
<1>20. ASSUME NEW d \in Client, ServeFail(d) PROVE Answering(c)'
  <2>1. CASE d # c
    BY <2>1, <1>20, <1>a, <1>0 DEF ServeFail, Served, db, TypeOK, Actor
  <2>2. CASE d = c
    <3> DEFINE page == CachePage(c, {}, 0)
               done == ~page.more \/ page.last <= cursor[c]
    <3>1. /\ cursor' = [cursor EXCEPT ![c] = IF done THEN @ ELSE page.last]
          /\ pc' = [pc EXCEPT ![c] = IF done THEN "done" ELSE NextPage(c)]
      BY <2>2, <1>20 DEF ServeFail, Served
    <3>2. SealedTo(c) \in Int /\ page.last \in Int /\ cursor[c] \in Int
      BY SealedToType, <1>0 DEF CachePage, TypeOK
    <3>3. pc'[c] \in {"done", "check", "seal"} /\ job'[c].owed = {}
      BY <2>2, <1>20, <3>1, <1>0 DEF ServeFail, NextPage, TypeOK, Actor
    <3>4. 0 <= cursor'[c]
      BY <3>1, <3>2, <1>0 DEF Answering, Shape, TypeOK
    <3> QED BY <3>3, <3>4 DEF Answering, GotBehind, GotPage, GotAll, Owes, Shape
  <2> QED BY <2>1, <2>2
<1>21. ASSUME NEW d \in Client, MarkFail(d) PROVE Answering(c)'
  <2>1. CASE d # c
    BY <2>1, <1>21, <1>a, <1>0 DEF MarkFail, db, TypeOK, Actor
  <2>2. CASE d = c
    <3>1. /\ pc[c] = "mark" /\ pc'[c] = "done" /\ ~reply[c].more
          /\ got'[c] = got[c] \cup reply[c].rows
          /\ UNCHANGED <<collector, job, cursor, lost, hole>>
      BY <2>2, <1>21, <1>0 DEF MarkFail, db, TypeOK, Actor
    <3> QED BY <3>1, <1>0
          DEF Answering, GotBehind, GotPage, GotAll, Owes, Shape, InPage, Within, Busy, Unlost
  <2> QED BY <2>1, <2>2
<1>22. ASSUME NEW a \in Actor, EvictFail(a) PROVE Answering(c)'
  <2>1. hole' >= hole
    BY <1>22, <1>0 DEF EvictFail, Greatest, TypeOK
  <2>2. CASE a # c
    BY <2>1, <2>2, <1>22, <1>a, <1>0 DEF EvictFail, Release, TypeOK, Actor
  <2>3. CASE a = c
    <3>1. pc[c] = "evict"
      BY <2>3, <1>22, <1>0 DEF EvictFail, TypeOK
    <3> QED BY <2>1, <2>3, <3>1, <1>22, <1>b, <1>0 DEF EvictFail, Release, TypeOK, Actor
  <2> QED BY <2>2, <2>3
<1>23. CASE UNCHANGED vars
  BY <1>23, <1>a, <1>0 DEF vars, TypeOK
<1> QED
  BY <1>1, <1>2, <1>3, <1>4, <1>5, <1>6, <1>7, <1>8, <1>9, <1>10, <1>11, <1>12,
     <1>13, <1>14, <1>15, <1>16, <1>17, <1>18, <1>19, <1>20, <1>21, <1>22, <1>23
  DEF Next, Step, Evict, Return, Fail

\* A query at its end has all it owes, except what was lost.
LEMMA AnswerFromInv == AInv => AnswerCompleteAboveHole
<1> SUFFICES ASSUME AInv, NEW c \in Client, pc[c] = "done", NEW x \in job[c].owed,
                    EndOf[x] >= Greatest(hole, lost[c])
             PROVE  x \in got[c]
  BY DEF AnswerCompleteAboveHole
<1>1. x \in Txn /\ EndOf[x] \in Int /\ lost[c] \in Int /\ hole \in Int
  BY DataAssumption DEF AInv, IInv, ITypeOK, TypeOK
<1>2. Unlost(c, x)
  BY <1>1 DEF Unlost, Greatest
<1> QED BY <1>2 DEF AInv, Answering, GotAll

\* A query that runs to its end returns every transaction of its window that
\* the collector held when it began, but for those that left the cache while it
\* ran or lie below the hole -- provided nothing arrives below a seal in use and
\* fewer transactions end at one instant than fit on a page.
THEOREM AnswerIsComplete ==
  ASSUME SealMargin, FewTies
  PROVE  Spec => []AnswerCompleteAboveHole
<1>1. Init => AInv
  BY TypeInit, ClocksInit, KeptInit, AnswerInit DEF AInv, IInv
<1>2. AInv /\ [Next]_vars => AInv'
  <2>1. IInv /\ [Next]_vars => IInv'
    BY SealMargin, TypeStep, ClocksStep, KeptStep DEF IInv
  <2> QED BY <2>1, FewTies, AnswerStep DEF AInv
<1> QED BY <1>1, <1>2, AnswerFromInv, PTL DEF Spec

----------------------------------------------------------------------------
(* Without evictions and failures there is no hole *)

\* Every set of transactions fits the cache, and nothing fails.
Faultless ==
  /\ ~CanClear /\ ~CanFail /\ ~CanCrash
  /\ \A P \in SUBSET Txn, m \in Limits : ~(Cardinality(P) > m)

Unharmed ==
  /\ limit \in Limits /\ \A a \in Actor : pc[a] = "evict" => goal[a] \in Limits
  /\ cut = 0 /\ hole = 0 /\ \A c \in Client : lost[c] = 0

\* A faultless step loses nothing.
LEMMA UnharmedStep ==
  ASSUME Faultless, ITypeOK, Unharmed, [Next]_vars
  PROVE  Unharmed'
<1> USE ActorAssumption DEF Unharmed
<1>0. TypeOK
  BY DEF ITypeOK
<1>1. CASE Tick
  BY <1>1 DEF Tick, db, client
<1>2. ASSUME NEW x \in Txn, Arrive(x) PROVE Unharmed'
  BY <1>2 DEF Arrive, db, client
<1>3. ASSUME NEW c \in Client, NEW O \in SUBSET Obj, NEW w \in Windows, Start(c, O, w)
      PROVE  Unharmed'
  BY <1>3, <1>0 DEF Start, db, Actor, TypeOK
<1>4. ASSUME NEW c \in Client, ReadSeal(c) \/ Check(c) \/ Answer(c) PROVE Unharmed'
  BY <1>4, <1>0 DEF ReadSeal, Check, Answer, db, Actor, TypeOK
<1>5. ASSUME NEW c \in Client, Serve(c) PROVE Unharmed'
  BY <1>5, <1>0 DEF Serve, Served, NextPage, db, Actor, TypeOK
<1>6. ASSUME NEW c \in Client, Put(c) PROVE Unharmed'
  BY <1>6, <1>0 DEF Put, Actor, TypeOK
<1>7. ASSUME NEW c \in Client, Mark(c) PROVE Unharmed'
  BY <1>7, <1>0 DEF Mark, Greatest, Actor, TypeOK
<1>8. ASSUME NEW c \in Client, Turn(c) PROVE Unharmed'
  BY <1>8, <1>0 DEF Turn, NextPage, db, Actor, TypeOK
<1>9. ASSUME NEW c \in Client, Forget(c) PROVE Unharmed'
  BY <1>9, <1>0 DEF Forget, db, Actor, TypeOK
<1>10. ASSUME NEW a \in Actor, EvictRows(a) PROVE FALSE
  BY <1>10, <1>0 DEF EvictRows, OverLimit, Faultless, TypeOK
<1>11. ASSUME NEW a \in Actor, TrimCover(a) PROVE Unharmed'
  BY <1>11 DEF TrimCover, client
<1>12. ASSUME NEW a \in Actor, EvictEnd(a) PROVE Unharmed'
  BY <1>12, <1>0 DEF EvictEnd, Release, TypeOK
<1>13. ASSUME NEW m \in Limits, SetMax(m) PROVE Unharmed'
  BY <1>13, <1>0 DEF SetMax, Actor, TypeOK
<1>14. CASE ClearCover
  BY <1>14, <1>0 DEF ClearCover, Actor, TypeOK
<1>15. ASSUME NEW c \in Client, ServeFail(c) \/ PutFail(c) \/ MarkFail(c) PROVE FALSE
  BY <1>15 DEF ServeFail, PutFail, MarkFail, Faultless
<1>16. CASE ClearRows \/ Crash
  BY <1>16 DEF ClearRows, Crash, Faultless
<1>17. ASSUME NEW a \in Actor, EvictFail(a) PROVE FALSE
  BY <1>17 DEF EvictFail, Faultless
<1>18. CASE UNCHANGED vars
  BY <1>18 DEF vars
<1> QED
  BY <1>1, <1>2, <1>3, <1>4, <1>5, <1>6, <1>7, <1>8, <1>9, <1>10, <1>11, <1>12,
     <1>13, <1>14, <1>15, <1>16, <1>17, <1>18
  DEF Next, Step, Evict, Return, Fail

\* What the faultless theorems share: nothing is ever lost.
LEMMA FaultlessIsUnharmed ==
  ASSUME Faultless
  PROVE  Spec => [](TypeOK /\ Unharmed)
<1>1. Init => Unharmed
  BY DEF Init, Unharmed, Actor
<1>2. ITypeOK /\ Unharmed /\ [Next]_vars => Unharmed'
  BY Faultless, UnharmedStep
<1>3. ITypeOK => TypeOK
  BY DEF ITypeOK
<1> QED BY <1>1, <1>2, <1>3, TypeInit, TypeStep, PTL DEF Spec

\* With a cache that never has to evict and no failures, what is covered is in
\* the cache.
THEOREM FaultlessCover ==
  ASSUME SealMargin, Faultless
  PROVE  Spec => []CoverSound
<1>1. TypeOK /\ Unharmed /\ CoverSoundAboveHole => CoverSound
  BY DataAssumption DEF TypeOK, Unharmed, CoverSoundAboveHole, CoverSound
<1>2. Spec => []CoverSoundAboveHole
  BY SealMargin, CoverIsSound
<1>3. Spec => [](TypeOK /\ Unharmed)
  BY Faultless, FaultlessIsUnharmed
<1> QED BY <1>1, <1>2, <1>3, PTL

\* And every query that runs to its end has returned every transaction of its
\* window that the collector held when it began.
THEOREM FaultlessAnswer ==
  ASSUME SealMargin, FewTies, Faultless
  PROVE  Spec => []AnswerComplete
<1>1. TypeOK /\ Unharmed /\ AnswerCompleteAboveHole => AnswerComplete
  <2> SUFFICES ASSUME TypeOK, Unharmed, AnswerCompleteAboveHole,
                      NEW c \in Client, pc[c] = "done", NEW x \in job[c].owed
               PROVE  x \in got[c]
    BY DEF AnswerComplete
  <2>1. EndOf[x] >= Greatest(hole, lost[c])
    BY DataAssumption DEF TypeOK, Unharmed, Greatest
  <2> QED BY <2>1 DEF AnswerCompleteAboveHole
<1>2. Spec => []AnswerCompleteAboveHole
  BY SealMargin, FewTies, AnswerIsComplete
<1>3. Spec => [](TypeOK /\ Unharmed)
  BY Faultless, FaultlessIsUnharmed
<1> QED BY <1>1, <1>2, <1>3, PTL

\* Every part of S has a least and a greatest element.  xlog_cover has it
\* because it starts empty and every statement adds at most one new instant.
HasLeast(S)    == \A T \in SUBSET S : T # {} => \E m \in T : \A t \in T : m <= t
HasGreatest(S) == \A T \in SUBSET S : T # {} => \E m \in T : \A t \in T : t <= m

FirstStarts == {c.s : c \in cover}
LastEnds    == {c.e : c \in cover}

Ordered == HasLeast(FirstStarts) /\ HasGreatest(LastEnds)

\* The clock, and the seals that queries work with.
Seals ==
  /\ now \in 1 .. MaxNow
  /\ \A c \in Client : Busy(c) => 0 < job[c].s
  /\ \A c \in Client : pc[c] \in Paging => seal[c] <= now - SealMs

\* While a clear is under way nothing changes the table, which ends below the
\* point up to which it is going to be forgotten.
Clearing == pc[Settings] = "clear" => lock = Settings /\ \A c \in cover : c.e < cut

\* The clock goes one tick at a time.
Ticks == now' = now \/ now' = now + 1

CInv == TypeOK /\ ReplyOK /\ Seals /\ CoverSealed /\ CoverMerged /\ Ordered /\ Clearing

----------------------------------------------------------------------------
(* The statements on the table *)

\* One more instant does not cost a set its least elements.
LEMMA OneMoreLeast ==
  ASSUME NEW S \in SUBSET Int, HasLeast(S), NEW v \in Int, NEW T \in SUBSET (S \cup {v})
  PROVE  HasLeast(T)
<1> SUFFICES ASSUME NEW U \in SUBSET T, U # {} PROVE \E m \in U : \A t \in U : m <= t
  BY DEF HasLeast
<1>1. CASE U \cap S = {}
  <2>1. U = {v}
    BY <1>1
  <2> QED BY <2>1
<1>2. CASE U \cap S # {}
  <2>1. PICK m \in U \cap S : \A t \in U \cap S : m <= t
    BY <1>2 DEF HasLeast
  <2>2. CASE v \in U /\ v < m
    BY <2>1, <2>2
  <2>3. CASE ~(v \in U /\ v < m)
    BY <2>1, <2>3
  <2> QED BY <2>2, <2>3
<1> QED BY <1>1, <1>2

\* Nor its greatest ones.
LEMMA OneMoreGreatest ==
  ASSUME NEW S \in SUBSET Int, HasGreatest(S), NEW v \in Int, NEW T \in SUBSET (S \cup {v})
  PROVE  HasGreatest(T)
<1> SUFFICES ASSUME NEW U \in SUBSET T, U # {} PROVE \E m \in U : \A t \in U : t <= m
  BY DEF HasGreatest
<1>1. CASE U \cap S = {}
  <2>1. U = {v}
    BY <1>1
  <2> QED BY <2>1
<1>2. CASE U \cap S # {}
  <2>1. PICK m \in U \cap S : \A t \in U \cap S : t <= m
    BY <1>2 DEF HasGreatest
  <2>2. CASE v \in U /\ m < v
    BY <2>1, <2>2
  <2>3. CASE ~(v \in U /\ m < v)
    BY <2>1, <2>3
  <2> QED BY <2>2, <2>3
<1> QED BY <1>1, <1>2

\* The rows that give way to a marked window have a hull.
LEMMA HullExists ==
  ASSUME cover \subseteq Cover, Ordered, NEW o \in Obj, NEW s \in Int, NEW e \in Int
  PROVE  \E c \in [obj : {o}, s : {s} \cup FirstStarts, e : {e} \cup LastEnds] : IsHull(c, s, e)
<1> DEFINE ss == {s} \cup {d.s : d \in Near(o, s, e)}
           ee == {e} \cup {d.e : d \in Near(o, s, e)}
<1>1. FirstStarts \subseteq Int /\ LastEnds \subseteq Int
  BY DEF FirstStarts, LastEnds, Cover
<1>2. Near(o, s, e) \subseteq cover
  BY DEF Near
<1>3. ss \subseteq FirstStarts \cup {s} /\ ee \subseteq LastEnds \cup {e}
  BY <1>2 DEF FirstStarts, LastEnds
<1>4. HasLeast(ss) /\ HasGreatest(ee)
  <2> HIDE DEF ss, ee
  <2>1. ss \in SUBSET (FirstStarts \cup {s}) /\ ee \in SUBSET (LastEnds \cup {e})
    BY <1>3
  <2>2. HasLeast(FirstStarts) /\ HasGreatest(LastEnds)
    BY DEF Ordered
  <2> QED BY <1>1, <2>1, <2>2, OneMoreLeast, OneMoreGreatest
<1>5. PICK a \in ss : \A t \in ss : a <= t
  BY <1>4 DEF HasLeast
<1>6. PICK b \in ee : \A t \in ee : t <= b
  BY <1>4 DEF HasGreatest
<1> DEFINE c == [obj |-> o, s |-> a, e |-> b]
<1>7. c \in [obj : {o}, s : {s} \cup FirstStarts, e : {e} \cup LastEnds]
  BY <1>3
<1>8. IsHull(c, s, e)
  BY <1>5, <1>6 DEF IsHull
<1> QED BY <1>7, <1>8

\* Marking uncovers nothing, and covers the whole window.
LEMMA MarkKeeps ==
  ASSUME cover \subseteq Cover, Ordered, NEW O \in SUBSET Obj, NEW s \in Int, NEW e \in Int,
         NEW o \in Obj, NEW t \in Int,
         InCover(o, t) \/ (o \in O /\ s <= t /\ t <= e)
  PROVE  \E c \in MarkXlog(O, s, e) : c.obj = o /\ c.s <= t /\ t <= c.e
<1>1. CASE e < s
  BY <1>1 DEF MarkXlog, InCover
<1>2. CASE ~(e < s) /\ \E c \in cover : /\ c.obj = o /\ c.s <= t /\ t <= c.e
                                        /\ c.obj \notin O \/ c \notin Near(c.obj, s, e)
  BY <1>2 DEF MarkXlog
<1>3. CASE ~(e < s) /\ o \in O /\ \/ s <= t /\ t <= e
                                  \/ \E c \in Near(o, s, e) : c.s <= t /\ t <= c.e
  <2>1. PICK c \in [obj : {o}, s : {s} \cup FirstStarts, e : {e} \cup LastEnds] : IsHull(c, s, e)
    BY HullExists
  <2>2. c.obj = o
    OBVIOUS
  <2>3. /\ c.s \in Int /\ c.e \in Int /\ c.s <= s /\ e <= c.e
        /\ \A d \in Near(o, s, e) : c.s <= d.s /\ d.e <= c.e
    BY <2>1, <2>2, ZenonT(60) DEF IsHull, FirstStarts, LastEnds, Cover
  <2>4. \A d \in Near(o, s, e) : d.s \in Int /\ d.e \in Int
    BY DEF Near, Cover
  <2>5. c \in MarkXlog(O, s, e)
    BY <1>3, <2>1, <2>2 DEF MarkXlog, FirstStarts, LastEnds
  <2>6. c.s <= t /\ t <= c.e
    BY <1>3, <2>3, <2>4
  <2> QED BY <2>2, <2>5, <2>6
<1> QED BY <1>1, <1>2, <1>3 DEF InCover

\* Marking keeps the rows of one object apart.
LEMMA MarkMerges ==
  ASSUME cover \subseteq Cover, CoverMerged, NEW O \in SUBSET Obj, NEW s \in Int, NEW e \in Int,
         NEW c \in MarkXlog(O, s, e), NEW d \in MarkXlog(O, s, e)
  PROVE  /\ c.s <= c.e
         /\ c.obj = d.obj /\ c # d => c.e < d.s - 1 \/ d.e < c.s - 1
<1>1. CASE e < s
  BY <1>1 DEF MarkXlog, CoverMerged
<1> DEFINE Stays(r) == r \in cover /\ (r.obj \notin O \/ r \notin Near(r.obj, s, e))
           Hull(r)  == r \in Cover /\ r.obj \in O /\ IsHull(r, s, e)
<1>2. CASE ~(e < s)
  <2>1. \A r \in MarkXlog(O, s, e) : Stays(r) \/ Hull(r)
    <3> SUFFICES ASSUME NEW r \in MarkXlog(O, s, e), ~Stays(r) PROVE Hull(r)
      OBVIOUS
    <3>1. r \in Cover
      BY MarkType
    <3> QED BY <1>2, <3>1 DEF MarkXlog
  <2>2. \A r : Hull(r) => r.s \in Int /\ r.e \in Int /\ r.s <= s /\ e <= r.e /\ r.s <= r.e
    <3> SUFFICES ASSUME NEW r, Hull(r)
                 PROVE  r.s \in Int /\ r.e \in Int /\ r.s <= s /\ e <= r.e /\ r.s <= r.e
      OBVIOUS
    <3>1. r.s <= s /\ e <= r.e
      BY DEF IsHull
    <3>2. r.s \in Int /\ r.e \in Int
      BY DEF Cover
    <3> QED BY <3>1, <3>2, <1>2
  <2>3. \A r \in cover : r.s \in Int /\ r.e \in Int /\ r.s <= r.e
    BY DEF CoverMerged, Cover
  \* A row that stays is apart from the hull of its object.
  <2>4. ASSUME NEW r, NEW h, Stays(r), Hull(h), r.obj = h.obj
        PROVE  r.e < h.s - 1 \/ h.e < r.s - 1
    <3>1. r.e < s - 1 \/ e + 1 < r.s
      BY <2>3, <2>4 DEF Near
    <3>2. \A n \in Near(h.obj, s, e) : /\ n \in cover /\ n.obj = r.obj /\ n # r
                                       /\ n.e >= s - 1 /\ n.s <= e + 1
      BY <2>4 DEF Near
    <3>3. \A n \in Near(h.obj, s, e) : r.e < n.s - 1 \/ n.e < r.s - 1
      BY <3>2, <2>4 DEF CoverMerged
    <3>4. CASE r.e < s - 1
      <4>1. \A n \in Near(h.obj, s, e) : r.e < n.s - 1
        BY <3>2, <3>3, <3>4, <2>3, <2>4
      <4> QED BY <4>1, <3>4, <2>4 DEF IsHull
    <3>5. CASE e + 1 < r.s
      <4>1. \A n \in Near(h.obj, s, e) : n.e < r.s - 1
        BY <3>2, <3>3, <3>5, <2>3, <2>4
      <4>2. e < r.s - 1
        BY <3>5, <2>3, <2>4
      <4> QED BY <4>1, <4>2, <2>4 DEF IsHull
    <3> QED BY <3>1, <3>4, <3>5
  <2>5. ASSUME Hull(c), Hull(d), c.obj = d.obj PROVE c = d
    <3>1. c.s = d.s /\ c.e = d.e
      <4>1. c.s <= d.s /\ d.s <= c.s /\ c.e <= d.e /\ d.e <= c.e
        BY <2>5 DEF IsHull
      <4> QED BY <4>1, <2>2, <2>5
    <3> QED BY <3>1, <2>5 DEF Cover
  <2>6. c.s <= c.e
    BY <2>1, <2>2, <2>3
  <2>7. ASSUME c.obj = d.obj, c # d PROVE c.e < d.s - 1 \/ d.e < c.s - 1
    <3>1. CASE Stays(c) /\ Stays(d)
      BY <2>7, <3>1 DEF CoverMerged
    <3> QED BY <2>1, <2>4, <2>5, <2>7, <3>1
  <2> QED BY <2>6, <2>7
<1> QED BY <1>1, <1>2

\* Trimming takes away exactly what lies below t, and keeps the rows apart.
LEMMA TrimForgets ==
  ASSUME cover \subseteq Cover, CoverMerged, NEW t \in Nat
  PROVE  /\ \A o, u : u \in Int =>
              ((\E c \in Trimmed(t) : c.obj = o /\ c.s <= u /\ u <= c.e)
                 <=> (t <= u /\ InCover(o, u)))
         /\ \A c, d \in Trimmed(t) :
              /\ c.s <= c.e
              /\ c.obj = d.obj /\ c # d => c.e < d.s - 1 \/ d.e < c.s - 1
<1> DEFINE cutRow(r) == [r EXCEPT !.s = Greatest(@, t)]
<1>1. Trimmed(t) = {cutRow(r) : r \in {q \in cover : q.e >= t}}
  BY DEF Trimmed
<1>2. \A r \in cover : /\ cutRow(r).obj = r.obj /\ cutRow(r).e = r.e
                       /\ cutRow(r).s = IF r.s >= t THEN r.s ELSE t
                       /\ r.s \in Int /\ r.e \in Int /\ r.s <= r.e
  BY DEF Cover, Greatest, CoverMerged
<1> HIDE DEF cutRow
<1>3. ASSUME NEW o, NEW u \in Int
      PROVE  (\E c \in Trimmed(t) : c.obj = o /\ c.s <= u /\ u <= c.e)
                <=> (t <= u /\ InCover(o, u))
  <2>1. ASSUME NEW c \in Trimmed(t), c.obj = o, c.s <= u, u <= c.e
        PROVE  t <= u /\ InCover(o, u)
    <3>1. PICK r \in cover : r.e >= t /\ c = cutRow(r)
      BY <1>1
    <3> QED BY <3>1, <1>2, <2>1 DEF InCover
  <2>2. ASSUME t <= u, NEW r \in cover, r.obj = o, r.s <= u, u <= r.e
        PROVE  \E c \in Trimmed(t) : c.obj = o /\ c.s <= u /\ u <= c.e
    <3>1. r.e >= t
      BY <1>2, <2>2
    <3>2. cutRow(r) \in Trimmed(t)
      BY <1>1, <3>1
    <3> QED BY <3>2, <1>2, <2>2
  <2> QED BY <2>1, <2>2 DEF InCover
<1>4. ASSUME NEW c \in Trimmed(t), NEW d \in Trimmed(t)
      PROVE  /\ c.s <= c.e
             /\ c.obj = d.obj /\ c # d => c.e < d.s - 1 \/ d.e < c.s - 1
  <2>1. PICK q \in cover : q.e >= t /\ c = cutRow(q)
    BY <1>1
  <2>2. PICK r \in cover : r.e >= t /\ d = cutRow(r)
    BY <1>1
  <2>3. q # r /\ q.obj = r.obj => q.e < r.s - 1 \/ r.e < q.s - 1
    BY DEF CoverMerged
  <2> QED BY <2>1, <2>2, <2>3, <1>2
<1> QED BY <1>3, <1>4

----------------------------------------------------------------------------
(* The invariant *)

\* An empty table has all of it.
LEMMA CoverInit == Init => CInv
BY TypeInit, BoundAssumption
DEF Init, ITypeOK, CInv, Seals, CoverSealed, CoverMerged, Ordered, HasLeast, HasGreatest,
    FirstStarts, LastEnds, Clearing, Busy, Paging, Actor

\* A step that leaves the table alone, and does not begin a clear.
LEMMA CoverSame ==
  ASSUME CInv, TypeOK', ReplyOK', Seals', UNCHANGED cover, Ticks,
         pc'[Settings] = "clear" => pc[Settings] = "clear" /\ UNCHANGED <<lock, cut>>
  PROVE  CInv'
<1>1. CoverSealed'
  <2>1. \A c \in cover : c.e \in Int
    BY DEF CInv, TypeOK, Cover
  <2> QED BY <2>1, BoundAssumption DEF CInv, TypeOK, CoverSealed, Ticks
<1> QED BY <1>1 DEF CInv, CoverMerged, Ordered, FirstStarts, LastEnds, Clearing

\* Every step keeps the clock and the seals.
LEMMA SealsStep ==
  ASSUME TypeOK, Seals, [Next]_vars
  PROVE  Seals' /\ Ticks
<1> USE ActorAssumption, DataAssumption, BoundAssumption
    DEF TypeOK, Seals, Busy, Paging, Actor, Ticks
<1>1. CASE Tick
  BY <1>1 DEF Tick, db, client
<1>2. ASSUME NEW x \in Txn, Arrive(x) PROVE Seals' /\ Ticks
  BY <1>2 DEF Arrive, db, client
<1>3. ASSUME NEW c \in Client, NEW O \in SUBSET Obj, NEW w \in Windows, Start(c, O, w)
      PROVE  Seals' /\ Ticks
  <2>1. 0 < w.s
    OBVIOUS
  <2> QED BY <1>3, <2>1 DEF Start, db
<1>4. ASSUME NEW c \in Client, ReadSeal(c) \/ Check(c) \/ Answer(c) \/ Put(c)
      PROVE  Seals' /\ Ticks
  BY <1>4 DEF ReadSeal, Check, Answer, Put, db
<1>5. ASSUME NEW c \in Client, Serve(c) \/ ServeFail(c) PROVE Seals' /\ Ticks
  <2>1. /\ UNCHANGED <<now, seal>> /\ pc[c] = "serve"
        /\ \E p \in {"done", "check", "seal"} : pc' = [pc EXCEPT ![c] = p]
    BY <1>5 DEF Serve, ServeFail, Served, NextPage
  <2>2. ASSUME NEW d \in Client PROVE job'[d].s = job[d].s
    <3>1. CASE Serve(c)
      BY <3>1 DEF Serve
    <3>2. CASE ServeFail(c)
      <4>1. job' = [job EXCEPT ![c] = [job[c] EXCEPT !.owed = {}]]
        BY <3>2 DEF ServeFail
      <4>2. job[c] \in [objs : SUBSET Obj, s : Nat, e : Nat, began : Nat, owed : SUBSET Txn]
        OBVIOUS
      <4>3. [job[c] EXCEPT !.owed = {}].s = job[c].s
        BY <4>2
      <4> QED BY <4>1, <4>3
    <3> QED BY <1>5, <3>1, <3>2
  <2>3. ASSUME NEW d \in Client, pc'[d] \in Paging \/ Busy(d)'
        PROVE  /\ pc[d] # "idle"
               /\ pc'[d] \in Paging => pc[d] \in Paging
    <3>1. pc'[d] = pc[d] \/ d = c
      BY <2>1
    <3> QED BY <2>1, <2>3, <3>1
  <2>4. ASSUME NEW d \in Client, Busy(d)' PROVE 0 < job'[d].s
    <3>1. Busy(d)
      BY <2>3, <2>4
    <3>2. 0 < job[d].s
      BY <3>1
    <3> QED BY <2>2, <3>2
  <2>5. \A d \in Client : pc'[d] \in Paging => seal'[d] <= now' - SealMs
    BY <2>1, <2>3
  <2> QED BY <2>1, <2>4, <2>5
<1>6. ASSUME NEW c \in Client, Mark(c) \/ MarkFail(c) \/ PutFail(c) PROVE Seals' /\ Ticks
  BY <1>6 DEF Mark, MarkFail, PutFail, db
<1>7. ASSUME NEW c \in Client, Turn(c) PROVE Seals' /\ Ticks
  BY <1>7 DEF Turn, NextPage, db
<1>8. ASSUME NEW c \in Client, Forget(c) PROVE Seals' /\ Ticks
  BY <1>8 DEF Forget, NoJob, db
<1>9. ASSUME NEW a \in Actor, EvictRows(a) \/ TrimCover(a) PROVE Seals' /\ Ticks
  BY <1>9 DEF EvictRows, TrimCover, client
<1>10. ASSUME NEW a \in Actor, EvictEnd(a) \/ EvictFail(a) PROVE Seals' /\ Ticks
  BY <1>10 DEF EvictEnd, EvictFail, Release
<1>11. ASSUME NEW m \in Limits, SetMax(m) PROVE Seals' /\ Ticks
  BY <1>11 DEF SetMax
<1>12. CASE ClearRows \/ ClearCover
  BY <1>12 DEF ClearRows, ClearCover
<1>13. CASE Crash
  BY <1>13 DEF Crash
<1>14. CASE UNCHANGED vars
  BY <1>14 DEF vars
<1> QED
  BY <1>1, <1>2, <1>3, <1>4, <1>5, <1>6, <1>7, <1>8, <1>9, <1>10, <1>11, <1>12, <1>13, <1>14
  DEF Next, Step, Evict, Return, Fail

\* The steps that do not write the table.
Quiet ==
  \/ Tick
  \/ \E x \in Txn : Arrive(x)
  \/ \E c \in Client, O \in SUBSET Obj, w \in Windows : O # {} /\ Start(c, O, w)
  \/ \E c \in Client : \/ ReadSeal(c) \/ Check(c) \/ Serve(c) \/ Answer(c) \/ Put(c) \/ Turn(c)
                       \/ Return(c) \/ ServeFail(c) \/ PutFail(c) \/ MarkFail(c) \/ Fail(c)
  \/ \E a \in Actor : EvictRows(a) \/ EvictEnd(a) \/ EvictFail(a)
  \/ \E m \in Limits : SetMax(m)
  \/ Crash
  \/ UNCHANGED vars

\* A quiet step leaves the table, and does not begin or disturb a clear.
LEMMA QuietStep ==
  ASSUME TypeOK, Clearing, Quiet
  PROVE  /\ UNCHANGED cover
         /\ pc'[Settings] = "clear" => pc[Settings] = "clear" /\ UNCHANGED <<lock, cut>>
<1> USE ActorAssumption DEF TypeOK, Actor, Clearing
<1>1. CASE Tick \/ \E x \in Txn : Arrive(x)
  BY <1>1 DEF Tick, Arrive, db, client
<1>2. ASSUME NEW c \in Client, NEW O \in SUBSET Obj, NEW w \in Windows, Start(c, O, w)
      PROVE  UNCHANGED cover /\ UNCHANGED <<lock, cut>> /\ pc'[Settings] = pc[Settings]
  BY <1>2 DEF Start, db
<1>3. ASSUME NEW c \in Client, \/ ReadSeal(c) \/ Check(c) \/ Serve(c) \/ Answer(c) \/ Put(c)
                               \/ Turn(c) \/ Return(c) \/ ServeFail(c) \/ PutFail(c)
                               \/ MarkFail(c) \/ Fail(c)
      PROVE  UNCHANGED cover /\ UNCHANGED <<lock, cut>> /\ pc'[Settings] = pc[Settings]
  BY <1>3 DEF ReadSeal, Check, Serve, Answer, Put, Turn, Return, ServeFail, PutFail, MarkFail,
              Fail, Forget, Served, db
<1>4. ASSUME NEW a \in Actor, EvictRows(a) \/ EvictEnd(a) \/ EvictFail(a)
      PROVE  /\ UNCHANGED cover
             /\ pc'[Settings] = "clear" => pc[Settings] = "clear" /\ UNCHANGED <<lock, cut>>
  BY <1>4 DEF EvictRows, EvictEnd, EvictFail, Release, NoOne
<1>5. ASSUME NEW m \in Limits, SetMax(m)
      PROVE  UNCHANGED cover /\ pc'[Settings] # "clear"
  BY <1>5 DEF SetMax
<1>6. CASE Crash
  BY <1>6 DEF Crash
<1>7. CASE UNCHANGED vars
  BY <1>7 DEF vars
<1> QED BY <1>1, <1>2, <1>3, <1>4, <1>5, <1>6, <1>7 DEF Quiet

\* Every other step marks, trims or clears.
LEMMA QuietOrNot ==
  [Next]_vars => \/ Quiet
                 \/ \E c \in Client : Mark(c)
                 \/ \E a \in Actor : TrimCover(a)
                 \/ ClearRows
                 \/ ClearCover
BY DEF Next, Quiet, Step, Evict

\* Marking keeps the invariant of the table.
LEMMA CoverMark ==
  ASSUME CInv, TypeOK', ReplyOK', Seals', NEW c \in Client, Mark(c)
  PROVE  CInv'
<1> USE ActorAssumption, BoundAssumption
<1> DEFINE O == job[c].objs
           s == job[c].s
           e == SealedTo(c)
<1>0. TypeOK /\ CoverSealed /\ CoverMerged /\ Ordered /\ Clearing /\ Seals /\ cover \subseteq Cover
  BY DEF CInv, TypeOK
<1>1. O \in SUBSET Obj /\ s \in Int /\ e \in Int /\ e <= now - SealMs
  <2>1. SealedTo(c) \in Int /\ SealedTo(c) <= seal[c]
    BY <1>0 DEF TypeOK, SealedTo, Least
  <2>2. pc[c] = "mark"
    BY DEF Mark
  <2>3. seal[c] <= now - SealMs
    BY <1>0, <2>2 DEF Seals, Paging
  <2>4. seal[c] \in Int /\ now \in Int /\ SealMs \in Int
    BY <1>0 DEF TypeOK
  <2>5. job[c] \in [objs : SUBSET Obj, s : Nat, e : Nat, began : Nat, owed : SUBSET Txn]
    BY <1>0 DEF TypeOK
  <2> QED BY <2>1, <2>3, <2>4, <2>5
<1>2. cover' = MarkXlog(O, s, e) /\ now' = now /\ lock = NoOne /\ pc'[Settings] = pc[Settings]
  BY <1>0 DEF Mark, TypeOK, Actor
<1> HIDE DEF O, s, e
<1>3. CoverSealed'
  BY <1>0, <1>1, <1>2, MarkEnds DEF CoverSealed, TypeOK
<1>4. CoverMerged'
  <2> SUFFICES ASSUME NEW d \in MarkXlog(O, s, e), NEW f \in MarkXlog(O, s, e)
               PROVE  /\ d.s <= d.e
                      /\ d.obj = f.obj /\ d # f => d.e < f.s - 1 \/ f.e < d.s - 1
    BY <1>2 DEF CoverMerged
  <2> QED BY <1>0, <1>1, MarkMerges
<1>5. Ordered'
  <2>1. FirstStarts \subseteq Int /\ LastEnds \subseteq Int
    BY <1>0 DEF FirstStarts, LastEnds, Cover
  <2>2. \A d \in MarkXlog(O, s, e) : d.s \in FirstStarts \cup {s} /\ d.e \in LastEnds \cup {e}
    BY DEF MarkXlog, FirstStarts, LastEnds
  <2>3. FirstStarts' \in SUBSET (FirstStarts \cup {s}) /\ LastEnds' \in SUBSET (LastEnds \cup {e})
    BY <1>2, <2>2 DEF FirstStarts, LastEnds
  <2>4. HasLeast(FirstStarts) /\ HasGreatest(LastEnds)
    BY <1>0 DEF Ordered
  <2>5. HasLeast(FirstStarts') /\ HasGreatest(LastEnds')
    BY <1>1, <2>1, <2>3, <2>4, OneMoreLeast, OneMoreGreatest
  <2> QED BY <2>5 DEF Ordered, HasLeast, HasGreatest
<1>6. Clearing'
  BY <1>0, <1>2 DEF Clearing, NoOne
<1> QED BY <1>3, <1>4, <1>5, <1>6 DEF CInv

\* Trimming keeps it.
LEMMA CoverTrim ==
  ASSUME CInv, TypeOK', ReplyOK', Seals', NEW a \in Actor, TrimCover(a)
  PROVE  CInv'
<1> USE ActorAssumption, BoundAssumption
<1>0. TypeOK /\ CoverSealed /\ CoverMerged /\ Ordered /\ Clearing /\ cover \subseteq Cover
  BY DEF CInv, TypeOK
<1>1. cover' = Trimmed(cut) /\ now' = now /\ cut \in Nat /\ pc'[Settings] = pc[Settings]
  BY <1>0 DEF TrimCover, client, TypeOK
<1>2. CoverMerged'
  <2> SUFFICES ASSUME NEW d \in Trimmed(cut), NEW f \in Trimmed(cut)
               PROVE  /\ d.s <= d.e
                      /\ d.obj = f.obj /\ d # f => d.e < f.s - 1 \/ f.e < d.s - 1
    BY <1>1 DEF CoverMerged
  <2> QED BY <1>0, <1>1, TrimForgets
<1>3. \A d \in Trimmed(cut) : d.e \in LastEnds /\ d.s \in FirstStarts \cup {cut}
  BY <1>0 DEF Trimmed, LastEnds, FirstStarts, Greatest, Cover
<1>4. CoverSealed'
  BY <1>0, <1>1, <1>3 DEF CoverSealed, LastEnds
<1>5. Ordered'
  <2>1. FirstStarts \subseteq Int /\ LastEnds \subseteq Int /\ now \in Int
    BY <1>0 DEF FirstStarts, LastEnds, Cover, TypeOK
  <2>2. FirstStarts' \in SUBSET (FirstStarts \cup {cut}) /\ LastEnds' \subseteq LastEnds
    BY <1>1, <1>3 DEF FirstStarts, LastEnds
  <2>3. HasLeast(FirstStarts) /\ HasGreatest(LastEnds)
    BY <1>0 DEF Ordered
  <2>4. HasLeast(FirstStarts')
    <3>1. cut \in Int
      BY <1>1
    <3> QED BY <3>1, <2>1, <2>2, <2>3, OneMoreLeast
  <2>5. HasGreatest(LastEnds')
    BY <2>2, <2>3 DEF HasGreatest
  <2> QED BY <2>4, <2>5 DEF Ordered, HasLeast, HasGreatest
<1>6. pc[Settings] # "clear"
  <2>1. pc[a] = "evict" /\ lock = a
    BY DEF TrimCover
  <2> QED BY <1>0, <2>1 DEF Clearing
<1> QED BY <1>1, <1>2, <1>4, <1>5, <1>6 DEF CInv, Clearing

\* Every step keeps the invariant.
LEMMA CoverStep == CInv /\ [Next]_vars => CInv'
<1> SUFFICES ASSUME CInv, [Next]_vars PROVE CInv'
  OBVIOUS
<1> USE ActorAssumption, BoundAssumption
<1>0. TypeOK' /\ ReplyOK' /\ Seals' /\ Ticks
  BY TypeStep, SealsStep DEF CInv, ITypeOK
<1>1. CASE Quiet
  BY <1>0, <1>1, QuietStep, CoverSame DEF CInv
<1>2. ASSUME NEW c \in Client, Mark(c) PROVE CInv'
  BY <1>0, <1>2, CoverMark
<1>3. ASSUME NEW a \in Actor, TrimCover(a) PROVE CInv'
  BY <1>0, <1>3, CoverTrim
<1>4. CASE ClearRows
  <2>1. \A c \in cover : c.e \in Int /\ c.e <= now - SealMs
    BY DEF CInv, TypeOK, Cover, CoverSealed
  <2>2. UNCHANGED <<now, cover>> /\ lock' = Settings /\ cut' = now + 1
    BY <1>4 DEF ClearRows
  <2>3. now \in Nat
    BY DEF CInv, TypeOK
  <2> QED BY <1>0, <2>1, <2>2, <2>3
      DEF CInv, CoverSealed, CoverMerged, Ordered, FirstStarts, LastEnds, Clearing
<1>5. CASE ClearCover
  <2>1. cover' = {} /\ pc'[Settings] # "clear"
    BY <1>5 DEF ClearCover, CInv, TypeOK, Actor
  <2> QED BY <1>0, <2>1
      DEF CInv, CoverSealed, CoverMerged, Ordered, FirstStarts, LastEnds,
          Clearing, HasLeast, HasGreatest
<1> QED BY <1>1, <1>2, <1>3, <1>4, <1>5, QuietOrNot

\* The most recent SEAL_MS are never recorded as covered, whatever the clock,
\* the lateness of the agents and the length of the queries.
THEOREM CoverIsSealed == Spec => []CoverSealed
<1>1. CInv => CoverSealed
  BY DEF CInv
<1> QED BY <1>1, CoverInit, CoverStep, PTL DEF Spec

\* mark_xlog leaves no two rows of an object that overlap or touch, and no
\* trimming or crash brings one about.
THEOREM CoverIsMerged == Spec => []CoverMerged
<1>1. CInv => CoverMerged
  BY DEF CInv
<1> QED BY <1>1, CoverInit, CoverStep, PTL DEF Spec

----------------------------------------------------------------------------
(* What a step makes of the known instants *)

\* A mark adds its window, a trim takes away what is below the cut, a clear
\* everything, and nothing else changes what is known.
LEMMA CoverChange ==
  ASSUME CInv, [Next]_vars
  PROVE  \/ UNCHANGED cover
         \/ /\ UNCHANGED now
            /\ \E O \in SUBSET Obj, s \in Nat \ {0}, e \in Int :
                 /\ s <= e /\ e <= now - SealMs
                 /\ \A o \in Obj, t \in Int :
                      InCover(o, t)' <=> (InCover(o, t) \/ (o \in O /\ s <= t /\ t <= e))
         \/ /\ UNCHANGED now /\ cut > 0
            /\ \A o \in Obj, t \in Int : InCover(o, t)' <=> (InCover(o, t) /\ cut <= t)
         \/ /\ UNCHANGED now /\ cover' = {} /\ \A c \in cover : c.e < cut
<1> USE ActorAssumption, BoundAssumption
<1>0. TypeOK /\ CoverMerged /\ Ordered /\ Clearing /\ Seals /\ cover \subseteq Cover
  BY DEF CInv, TypeOK
<1>1. CASE Quiet
  BY <1>0, <1>1, QuietStep
<1>2. ASSUME NEW c \in Client, Mark(c), cover' # cover
      PROVE  /\ UNCHANGED now
             /\ \E O \in SUBSET Obj, s \in Nat \ {0}, e \in Int :
                  /\ s <= e /\ e <= now - SealMs
                  /\ \A o \in Obj, t \in Int :
                       InCover(o, t)' <=> (InCover(o, t) \/ (o \in O /\ s <= t /\ t <= e))
  <2> DEFINE O == job[c].objs
             s == job[c].s
             e == SealedTo(c)
  <2>1. pc[c] = "mark" /\ now' = now /\ cover' = MarkXlog(O, s, e)
    BY <1>2 DEF Mark
  <2>2. SealedTo(c) \in Int /\ SealedTo(c) <= seal[c]
    BY <1>0 DEF TypeOK, SealedTo, Least
  <2>3. seal[c] <= now - SealMs /\ 0 < job[c].s
    BY <1>0, <2>1 DEF Seals, Paging, Busy
  <2>4. seal[c] \in Int /\ now \in Int /\ SealMs \in Int
    BY <1>0 DEF TypeOK
  <2>5. job[c] \in [objs : SUBSET Obj, s : Nat, e : Nat, began : Nat, owed : SUBSET Txn]
    BY <1>0 DEF TypeOK
  <2>6. O \in SUBSET Obj /\ s \in Nat \ {0} /\ e \in Int /\ e <= now - SealMs
    BY <2>2, <2>3, <2>4, <2>5
  <2> HIDE DEF O, s, e
  <2>7. s <= e
    BY <1>2, <2>1, <2>6 DEF MarkXlog
  <2>8. ASSUME NEW o \in Obj, NEW t \in Int
        PROVE  InCover(o, t)' <=> (InCover(o, t) \/ (o \in O /\ s <= t /\ t <= e))
    <3>1. InCover(o, t)' <=> \E d \in MarkXlog(O, s, e) : d.obj = o /\ d.s <= t /\ t <= d.e
      BY <2>1 DEF InCover
    <3>2. InCover(o, t)' => (InCover(o, t) \/ (o \in O /\ s <= t /\ t <= e))
      BY <3>1, <2>6, <1>0, MarkAdds
    <3>3. (InCover(o, t) \/ (o \in O /\ s <= t /\ t <= e)) => InCover(o, t)'
      <4> SUFFICES ASSUME InCover(o, t) \/ (o \in O /\ s <= t /\ t <= e) PROVE InCover(o, t)'
        OBVIOUS
      <4>1. s \in Int
        BY <2>6
      <4>2. \E d \in MarkXlog(O, s, e) : d.obj = o /\ d.s <= t /\ t <= d.e
        BY <2>6, <4>1, <1>0, MarkKeeps
      <4> QED BY <3>1, <4>2
    <3> QED BY <3>2, <3>3
  <2> QED BY <2>1, <2>6, <2>7, <2>8
<1>3. ASSUME NEW a \in Actor, TrimCover(a)
      PROVE  /\ UNCHANGED now /\ cut > 0
             /\ \A o \in Obj, t \in Int : InCover(o, t)' <=> (InCover(o, t) /\ cut <= t)
  <2>1. cover' = Trimmed(cut) /\ now' = now /\ cut # 0 /\ cut \in Nat
    BY <1>0, <1>3 DEF TrimCover, TypeOK
  <2>2. ASSUME NEW o \in Obj, NEW t \in Int
        PROVE  InCover(o, t)' <=> (InCover(o, t) /\ cut <= t)
    <3>1. InCover(o, t)' <=> \E d \in Trimmed(cut) : d.obj = o /\ d.s <= t /\ t <= d.e
      BY <2>1 DEF InCover
    <3>2. (\E d \in Trimmed(cut) : d.obj = o /\ d.s <= t /\ t <= d.e)
             <=> (cut <= t /\ InCover(o, t))
      BY <2>1, <1>0, TrimForgets
    <3> QED BY <3>1, <3>2
  <2> QED BY <2>1, <2>2
<1>4. CASE ClearRows
  BY <1>4 DEF ClearRows
<1>5. CASE ClearCover
  <2>1. pc[Settings] = "clear" /\ UNCHANGED now /\ cover' = {}
    BY <1>5 DEF ClearCover
  <2> QED BY <1>0, <2>1 DEF Clearing
<1> QED BY <1>1, <1>2, <1>3, <1>4, <1>5, QuietOrNot

\* The cache forgets only below the cut of an eviction or a clear: neither a
\* mark nor a crash uncovers an instant.
THEOREM ForgetsTheOldest == Spec => ForgetOnlyOldest
<1>1. CInv /\ [Next]_vars =>
        [\A o \in Obj, t \in 1 .. MaxNow : InCover(o, t) /\ ~InCover(o, t)' => t < cut]_vars
  <2> SUFFICES ASSUME CInv, [Next]_vars, NEW o \in Obj, NEW t \in 1 .. MaxNow,
                      InCover(o, t), ~InCover(o, t)'
               PROVE  t < cut
    OBVIOUS
  <2>1. t \in Int /\ cut \in Int /\ \A c \in cover : c.e \in Int
    BY DEF CInv, TypeOK, Cover
  <2>2. CASE UNCHANGED cover
    BY <2>2 DEF InCover
  <2>3. CASE \A c \in cover : c.e < cut
    BY <2>1, <2>3 DEF InCover
  <2> QED BY <2>1, <2>2, <2>3, CoverChange
<1> QED BY <1>1, CoverInit, CoverStep, PTL DEF Spec, ForgetOnlyOldest

\* The intervals of xlog_cover implement the set of known instants: every
\* statement on the table learns a sealed window, forgets the oldest part, or
\* changes nothing that is known.
THEOREM CoverImplements == Spec => ImplementsPastCover
<1> USE BoundAssumption
<1>1. Init => Promise!Init
  BY DEF Init, Promise!Init, Known, InCover
<1>2. CInv /\ [Next]_vars => [Promise!Next]_<<now, Known>>
  <2> SUFFICES ASSUME CInv, [Next]_vars PROVE Promise!Next \/ UNCHANGED <<now, Known>>
    OBVIOUS
  <2>0. /\ TypeOK /\ now \in 1 .. MaxNow /\ now \in Nat
        /\ \A c \in cover : c.e \in Int /\ c.e <= now - SealMs
    BY DEF CInv, Seals, TypeOK, Cover, CoverSealed
  <2>1. \A k \in Known : k \in Obj \X (1 .. MaxNow) /\ k[2] <= now
    BY <2>0 DEF Known, InCover
  <2>2. CASE UNCHANGED cover
    <3>1. UNCHANGED Known
      BY <2>2 DEF Known, InCover
    <3>2. Ticks
      BY SealsStep DEF CInv
    <3> QED BY <3>1, <3>2 DEF Ticks, Promise!Next, Promise!Tick
  <2>3. ASSUME UNCHANGED now, NEW O \in SUBSET Obj, NEW s \in Nat \ {0}, NEW e \in Int,
               s <= e, e <= now - SealMs,
               \A o \in Obj, t \in Int :
                 InCover(o, t)' <=> (InCover(o, t) \/ (o \in O /\ s <= t /\ t <= e))
        PROVE  Promise!Next
    <3>1. Known' = Known \cup (O \X (s .. e))
      BY <2>0, <2>3 DEF Known
    <3>2. s \in 1 .. now /\ e \in 1 .. now
      BY <2>0, <2>3
    <3> QED BY <2>3, <3>1, <3>2 DEF Promise!Next, Promise!Learn
  <2>4. ASSUME UNCHANGED now, cut > 0,
               \A o \in Obj, t \in Int : InCover(o, t)' <=> (InCover(o, t) /\ cut <= t)
        PROVE  Promise!Next
    <3> DEFINE u == Least(cut, now + 1)
    <3>1. u \in 1 .. now + 1
      BY <2>0, <2>4 DEF Least, TypeOK
    <3>2. \A t \in 1 .. now : cut <= t <=> u <= t
      BY <2>0, <2>4 DEF Least, TypeOK
    <3>3. Known' = {k \in Known : k[2] >= u}
      BY <2>0, <2>1, <2>4, <3>2 DEF Known
    <3> QED BY <2>4, <3>1, <3>3 DEF Promise!Next, Promise!ForgetBelow
  <2>5. ASSUME UNCHANGED now, cover' = {} PROVE Promise!Next
    <3>1. Known' = {} /\ {k \in Known : k[2] >= now + 1} = {}
      BY <2>0, <2>1, <2>5 DEF Known, InCover
    <3> QED BY <2>0, <2>5, <3>1 DEF Promise!Next, Promise!ForgetBelow
  <2> QED BY <2>2, <2>3, <2>4, <2>5, CoverChange
<1> QED BY <1>1, <1>2, CoverInit, CoverStep, PTL DEF Spec, ImplementsPastCover, Promise!Spec

----------------------------------------------------------------------------
(* The objects of a query *)

\* What is recorded of one object is not taken for another: the three promises
\* together, for the behaviours of MCXLogCacheRefines that are of XLogCache.
THEOREM ObjectsStayApart ==
  ASSUME SealMargin, FewTies
  PROVE  BothSpec => []ObjectsApart
<1> DEFINE Apart == part = "refines" => AInv /\ CInv
<1>1. BothInit => Apart
  BY TypeInit, ClocksInit, KeptInit, AnswerInit, CoverInit DEF BothInit, AInv, IInv
<1>2. Apart /\ [BothNext]_BothVars => Apart'
  <2> SUFFICES ASSUME Apart, [BothNext]_BothVars, part' = "refines" PROVE (AInv /\ CInv)'
    OBVIOUS
  <2>1. part = "refines" /\ [Next]_vars
    BY DEF BothNext, BothVars
  <2>2. IInv'
    BY <2>1, SealMargin, TypeStep, ClocksStep, KeptStep DEF AInv, IInv
  <2>3. AInv'
    BY <2>1, <2>2, FewTies, AnswerStep DEF AInv
  <2> QED BY <2>1, <2>3, CoverStep
<1>3. Apart => ObjectsApart
  BY AnswerFromInv, CoverFromInv DEF ObjectsApart, CInv, AInv
<1> QED BY <1>1, <1>2, <1>3, PTL DEF BothSpec
=============================================================================
