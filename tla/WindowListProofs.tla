-------------------------- MODULE WindowListProofs --------------------------
(***************************************************************************)
(* The lists the window polls, for every value of the constants.  The      *)
(* running transactions (ActiveServices): every row on the screen was      *)
(* returned by its server over this connection and not too long ago, and   *)
(* no clock of a held resource starts again.  The objects and their alerts *)
(* (Alerts): when all of a service has gone, some of its alerts count, and *)
(* the file of what lived when loses no object.                            *)
(***************************************************************************)
EXTENDS MCWindowData, FiniteSetTheorems, SequenceTheorems, WellFoundedInduction, TLAPS

\* A step of the window is of the component the behaviour is of.
LEMMA ListTurns ==
  ASSUME Next
  PROVE  /\ which' = which
         /\ which = "ActiveServices" => Active!Next
         /\ which = "Alerts" => AlertsC!Next
BY DEF Next, LiveChartTurn, PastChartTurn, PagingTurn, WideSearchTurn, AskersTurn,
       ActiveServicesTurn, AlertsTurn

----------------------------------------------------------------------------
(* The running transactions: what the polls carry over.                    *)

AsRow == [obj : AsObjs, tx : AsTxs, res : AsResources, long : BOOLEAN]
AsDot == [key : AsObjs \X AsTxs, phase : {"entering", "holding", "leaving"}]
OneOfKey(rs) == \A p, q \in rs : Active!RowKey(p) = Active!RowKey(q) => p = q

\* What an object may answer.
AsAnswer(o) == {g \in [kind : {"rows", "empty", "silent"}, rows : SUBSET AsRow] :
                /\ g.kind # "rows" => g.rows = {}
                /\ \A r \in g.rows : r.obj = o
                /\ OneOfKey(g.rows)}
AsSnaps == {f \in [AsObjs -> [kind : {"rows", "empty", "silent"}, rows : SUBSET AsRow]] :
            \A o \in AsObjs : f[o] \in AsAnswer(o)}

AsFresh(snap) == UNION {snap[o].rows : o \in AsObjs \ Active!Missed(snap)}
AsOlds(snap, t) == {o \in Active!Missed(snap) :
                    as_lastRows[o].rows # {} /\ t - as_lastRows[o].at <= AsCarry}
AsAnswered(snap, t) == AsFresh(snap) \union UNION {as_lastRows[o].rows : o \in AsOlds(snap, t)}
AsKept(snap, t) == {s \in as_lastSeen :
                    /\ Active!RowKey(s.row) \notin Active!Keys(AsAnswered(snap, t))
                    /\ s.row.obj \notin Active!Missed(snap)
                    /\ t - s.at <= AsWindow
                    /\ s.row.long}
AsReturns(snap) == UNION {snap[o].rows : o \in AsObjs}

WasReturned(ret, k, t, d) == \E s \in ret : s.key = k /\ t - s.at <= d

AsServersInv ==
  /\ as_now \in Nat
  /\ as_running \subseteq AsRow
  /\ \A p, q \in as_running : p.tx = q.tx => p = q
  /\ as_epoch \in Nat
  /\ as_asks \subseteq [epoch : Nat, alive : BOOLEAN, snap : SUBSET AsSnaps]
AsCarriedInv ==
  /\ as_lastRows \in [AsObjs -> [rows : SUBSET AsRow, at : Nat]]
  /\ \A o \in AsObjs : OneOfKey(as_lastRows[o].rows)
  /\ \A o \in AsObjs : \A r \in as_lastRows[o].rows :
       /\ r.obj = o
       /\ WasReturned(as_returned, Active!RowKey(r), as_lastRows[o].at, 0)
  /\ as_lastSeen \subseteq [row : AsRow, at : Nat]
  /\ \A s, u \in as_lastSeen : Active!RowKey(s.row) = Active!RowKey(u.row) => s = u
  /\ \A s \in as_lastSeen : WasReturned(as_returned, Active!RowKey(s.row), s.at, AsCarry)
  /\ \A s \in as_returned : s.at \in Nat
AsScreenInv ==
  /\ as_stale \subseteq as_missed /\ as_missed \subseteq AsObjs
  /\ as_carriedRows \subseteq Active!Keys(as_rows)
  /\ OneOfKey(as_rows)
  /\ as_tracks \subseteq AsDot
  /\ Active!RowsHonest
  /\ \A g, h \in as_holds : g.tx = h.tx /\ g.res = h.res => g = h
AsInv == AsServersInv /\ AsCarriedInv /\ AsScreenInv

LEMMA CarryIs ==
  ASSUME NEW snap, NEW t
  PROVE  Active!CarryUnreached(snap, t) =
    [rows |-> AsAnswered(snap, t) \union {s.row : s \in AsKept(snap, t)},
     missed |-> Active!Missed(snap),
     stale |-> AsOlds(snap, t),
     carriedRows |-> {Active!RowKey(s.row) : s \in AsKept(snap, t)},
     lastRows |-> [o \in AsObjs |->
                     IF o \notin Active!Missed(snap) THEN [rows |-> snap[o].rows, at |-> t]
                     ELSE IF o \in AsOlds(snap, t) THEN as_lastRows[o] ELSE Active!NoRows[o]],
     lastSeen |-> {[row |-> r, at |-> t] : r \in AsAnswered(snap, t)} \union AsKept(snap, t)]
  BY Zenon DEF Active!CarryUnreached, AsAnswered, AsFresh, AsOlds, AsKept

\* What is shown of a poll: who answered, who is carried, one row of a key.
LEMMA AnsweredIs ==
  ASSUME AsCarriedInv, NEW snap \in AsSnaps, NEW t \in Nat
  PROVE  /\ AsAnswered(snap, t) \subseteq AsRow
         /\ OneOfKey(AsAnswered(snap, t))
         /\ \A r \in AsAnswered(snap, t) :
              \/ r \in snap[r.obj].rows /\ r.obj \in AsObjs \ Active!Missed(snap)
              \/ r \in as_lastRows[r.obj].rows /\ r.obj \in AsOlds(snap, t)
<1>1. \A r \in AsAnswered(snap, t) :
        /\ r \in AsRow
        /\ \/ r \in snap[r.obj].rows /\ r.obj \in AsObjs \ Active!Missed(snap)
           \/ r \in as_lastRows[r.obj].rows /\ r.obj \in AsOlds(snap, t)
  <2> SUFFICES ASSUME NEW r \in AsAnswered(snap, t)
               PROVE  /\ r \in AsRow
                      /\ \/ r \in snap[r.obj].rows /\ r.obj \in AsObjs \ Active!Missed(snap)
                         \/ r \in as_lastRows[r.obj].rows /\ r.obj \in AsOlds(snap, t)
    OBVIOUS
  <2>1. CASE r \in AsFresh(snap)
    <3>1. PICK o \in AsObjs \ Active!Missed(snap) : r \in snap[o].rows
      BY <2>1 DEF AsFresh
    <3>2. snap[o] \in AsAnswer(o)
      BY DEF AsSnaps
    <3> QED BY <3>1, <3>2 DEF AsAnswer
  <2>2. CASE r \in UNION {as_lastRows[o].rows : o \in AsOlds(snap, t)}
    <3>1. PICK o \in AsOlds(snap, t) : r \in as_lastRows[o].rows
      BY <2>2
    <3>2. o \in AsObjs
      BY DEF AsOlds, Active!Missed
    <3> QED BY <3>1, <3>2 DEF AsCarriedInv
  <2> QED BY <2>1, <2>2 DEF AsAnswered
<1>2. OneOfKey(AsAnswered(snap, t))
  <2> SUFFICES ASSUME NEW p \in AsAnswered(snap, t), NEW q \in AsAnswered(snap, t),
                      Active!RowKey(p) = Active!RowKey(q)
               PROVE  p = q
    BY DEF OneOfKey
  <2>1. p.obj = q.obj
    BY DEF Active!RowKey
  <2>2. AsOlds(snap, t) \subseteq Active!Missed(snap) /\ AsOlds(snap, t) \subseteq AsObjs
    BY DEF AsOlds, Active!Missed
  <2>3. CASE p.obj \in AsObjs \ Active!Missed(snap)
    <3>1. p \in snap[p.obj].rows /\ q \in snap[p.obj].rows
      BY <1>1, <2>1, <2>2, <2>3
    <3>2. OneOfKey(snap[p.obj].rows)
      BY <2>3 DEF AsSnaps, AsAnswer
    <3> QED BY <3>1, <3>2 DEF OneOfKey
  <2>4. CASE p.obj \in AsOlds(snap, t)
    <3>1. p \in as_lastRows[p.obj].rows /\ q \in as_lastRows[p.obj].rows
      BY <1>1, <2>1, <2>2, <2>4
    <3>2. OneOfKey(as_lastRows[p.obj].rows)
      BY <2>2, <2>4 DEF AsCarriedInv
    <3> QED BY <3>1, <3>2 DEF OneOfKey
  <2> QED BY <1>1, <2>3, <2>4
<1> QED BY <1>1, <1>2

\* The rows kept beside them are of other keys.
LEMMA ScreenIs ==
  ASSUME AsCarriedInv, NEW snap \in AsSnaps, NEW t \in Nat,
         NEW all, all = AsAnswered(snap, t) \union {s.row : s \in AsKept(snap, t)}
  PROVE  /\ OneOfKey(all)
         /\ \A r \in all : \/ r \in AsAnswered(snap, t)
                           \/ \E s \in AsKept(snap, t) : s.row = r
<1>1. AsKept(snap, t) \subseteq as_lastSeen
  BY DEF AsKept
<1>2. \A s \in AsKept(snap, t) :
        \A r \in AsAnswered(snap, t) : Active!RowKey(s.row) # Active!RowKey(r)
  BY DEF AsKept, Active!Keys
<1>3. \A s, u \in AsKept(snap, t) : Active!RowKey(s.row) = Active!RowKey(u.row) => s.row = u.row
  BY <1>1 DEF AsCarriedInv
<1>4. OneOfKey(AsAnswered(snap, t))
  BY AnsweredIs
<1>5. \A r \in all : \/ r \in AsAnswered(snap, t)
                     \/ \E s \in AsKept(snap, t) : s.row = r
  OBVIOUS
<1>6. OneOfKey(all)
  <2> SUFFICES ASSUME NEW p \in all, NEW q \in all, Active!RowKey(p) = Active!RowKey(q)
               PROVE  p = q
    BY DEF OneOfKey
  <2>1. CASE p \in AsAnswered(snap, t) /\ q \in AsAnswered(snap, t)
    BY <1>4, <2>1 DEF OneOfKey
  <2>2. CASE p \in AsAnswered(snap, t) /\ \E s \in AsKept(snap, t) : s.row = q
    BY <1>2, <2>2
  <2>3. CASE q \in AsAnswered(snap, t) /\ \E s \in AsKept(snap, t) : s.row = p
    BY <1>2, <2>3
  <2>4. CASE (\E s \in AsKept(snap, t) : s.row = p) /\ \E s \in AsKept(snap, t) : s.row = q
    BY <1>3, <2>4
  <2> QED BY <1>5, <2>1, <2>2, <2>3, <2>4
<1> QED BY <1>5, <1>6

\* What the servers returned this time, and what stays known of before.
LEMMA ReturnsAre ==
  ASSUME AsCarriedInv, NEW snap \in AsSnaps, NEW t \in Nat,
         as_returned' = {s \in as_returned : s.key \notin Active!Keys(AsReturns(snap))}
                       \union {[key |-> k, at |-> t] : k \in Active!Keys(AsReturns(snap))}
  PROVE  /\ \A o \in AsObjs : \A r \in snap[o].rows :
              WasReturned(as_returned', Active!RowKey(r), t, 0)
         /\ \A k, u, d :
              k \notin Active!Keys(AsReturns(snap)) /\ WasReturned(as_returned, k, u, d)
                => WasReturned(as_returned', k, u, d)
         /\ \A s \in as_returned' : s.at \in Nat
<1>1. \A o \in AsObjs : \A r \in snap[o].rows :
        WasReturned(as_returned', Active!RowKey(r), t, 0)
  <2> SUFFICES ASSUME NEW o \in AsObjs, NEW r \in snap[o].rows
               PROVE  \E s \in as_returned' : s.key = Active!RowKey(r) /\ t - s.at <= 0
    BY Zenon DEF WasReturned, Active!RowKey
  <2>1. Active!RowKey(r) \in Active!Keys(AsReturns(snap))
    BY DEF Active!Keys, AsReturns
  <2>2. [key |-> Active!RowKey(r), at |-> t] \in as_returned'
    BY <2>1
  <2>3. /\ [key |-> Active!RowKey(r), at |-> t].at = t
        /\ [key |-> Active!RowKey(r), at |-> t].key = Active!RowKey(r)
    OBVIOUS
  <2>4. t - t <= 0
    OBVIOUS
  <2> QED BY <2>2, <2>3, <2>4, Zenon
<1>2. \A k, u, d : k \notin Active!Keys(AsReturns(snap)) /\ WasReturned(as_returned, k, u, d)
                     => WasReturned(as_returned', k, u, d)
  BY DEF WasReturned
<1>3. \A s \in as_returned' : s.at \in Nat
  BY DEF AsCarriedInv
<1> QED BY <1>1, <1>2, <1>3

\* A clock for each transaction and resource: the one it had, while it stays.
LEMMA HoldsAreOne ==
  ASSUME AsScreenInv, NEW rs, NEW t
  PROVE  /\ \A g, h \in Active!AdvanceHolds(rs, t) : g.tx = h.tx /\ g.res = h.res => g = h
         /\ \A h \in as_holds : (\E r \in rs : r.tx = h.tx /\ r.res = h.res)
                               => h \in Active!AdvanceHolds(rs, t)
<1> DEFINE Was(r) == {h \in as_holds : h.tx = r.tx /\ h.res = r.res}
           Clock(r) == IF Was(r) # {} THEN CHOOSE h \in Was(r) : TRUE
                       ELSE [tx |-> r.tx, res |-> r.res, since |-> t]
<1>1. Active!AdvanceHolds(rs, t) = {Clock(r) : r \in rs}
  BY DEF Active!AdvanceHolds
<1>2. \A r : Was(r) # {} => Clock(r) \in Was(r)
  OBVIOUS
<1>3. \A r : Clock(r).tx = r.tx /\ Clock(r).res = r.res
  BY <1>2
<1>4. \A p, r : p.tx = r.tx /\ p.res = r.res => Clock(p) = Clock(r)
  <2> SUFFICES ASSUME NEW p, NEW r, p.tx = r.tx, p.res = r.res
               PROVE  Clock(p) = Clock(r)
    OBVIOUS
  <2>1. Was(p) = Was(r)
    OBVIOUS
  <2> QED BY <2>1
<1>5. \A h \in as_holds : \A r : r.tx = h.tx /\ r.res = h.res => Clock(r) = h
  <2> SUFFICES ASSUME NEW h \in as_holds, NEW r, r.tx = h.tx, r.res = h.res
               PROVE  Clock(r) = h
    OBVIOUS
  <2>1. h \in Was(r)
    OBVIOUS
  <2>2. \A g \in Was(r) : g = h
    BY DEF AsScreenInv
  <2> QED BY <1>2, <2>1, <2>2
<1> HIDE DEF Clock
<1>6. \A g, h \in Active!AdvanceHolds(rs, t) : g.tx = h.tx /\ g.res = h.res => g = h
  <2> SUFFICES ASSUME NEW p \in rs, NEW r \in rs,
                      Clock(p).tx = Clock(r).tx, Clock(p).res = Clock(r).res
               PROVE  Clock(p) = Clock(r)
    BY <1>1
  <2> QED BY <1>3, <1>4
<1>7. \A h \in as_holds : (\E r \in rs : r.tx = h.tx /\ r.res = h.res)
                         => h \in Active!AdvanceHolds(rs, t)
  BY <1>1, <1>5
<1> QED BY <1>6, <1>7

LEMMA DotsAre ==
  ASSUME as_tracks \subseteq AsDot, NEW live \in SUBSET AsRow
  PROVE  Active!AdvanceTracks(live) \subseteq AsDot
<1> SUFFICES ASSUME NEW d \in Active!AdvanceTracks(live)
             PROVE  d \in AsDot
  OBVIOUS
<1>1. CASE \E k \in Active!Keys(live) :
             d = [key |-> k,
                  phase |-> IF \E e \in as_tracks : e.key = k /\ e.phase = "holding"
                            THEN "holding" ELSE "entering"]
  <2>1. Active!Keys(live) \subseteq AsObjs \X AsTxs
    BY DEF Active!Keys, Active!RowKey, AsRow
  <2> QED BY <1>1, <2>1 DEF AsDot
<1>2. CASE \E e \in as_tracks :
             e.key \notin Active!Keys(live) /\ d = [e EXCEPT !.phase = "leaving"]
  BY <1>2 DEF AsDot
<1> QED BY <1>1, <1>2 DEF Active!AdvanceTracks

----------------------------------------------------------------------------
\* An answer that arrives in time.
LEMMA TakenAnswer ==
  ASSUME AsInv, NEW a \in as_asks, Active!Arrive(a), a.alive
  PROVE  AsCarriedInv' /\ AsScreenInv'
<1> DEFINE snap == CHOOSE f \in a.snap : TRUE
           m == Active!CarryUnreached(snap, as_now)
           kept == AsKept(snap, as_now)
           answered == AsAnswered(snap, as_now)
           olds == AsOlds(snap, as_now)
           miss == Active!Missed(snap)
<1>1. snap \in AsSnaps
  BY DEF AsInv, AsServersInv, Active!Arrive
<1>2. /\ as_rows' = m.rows /\ as_missed' = m.missed /\ as_stale' = m.stale
      /\ as_carriedRows' = m.carriedRows
      /\ as_lastRows' = m.lastRows /\ as_lastSeen' = m.lastSeen
      /\ as_holds' = Active!AdvanceHolds(m.rows, as_now)
      /\ as_at' = as_now
      /\ as_tracks' = Active!AdvanceTracks({r \in m.rows : r.obj \notin m.stale})
      /\ as_returned' = {s \in as_returned : s.key \notin Active!Keys(AsReturns(snap))}
                       \union {[key |-> k, at |-> as_now] : k \in Active!Keys(AsReturns(snap))}
  BY Zenon DEF Active!Arrive, AsReturns
<1> HIDE DEF snap
<1>3. /\ m.rows = answered \union {s.row : s \in kept}
      /\ m.missed = miss /\ m.stale = olds
      /\ m.carriedRows = {Active!RowKey(s.row) : s \in kept}
      /\ m.lastRows = [o \in AsObjs |->
                         IF o \notin miss THEN [rows |-> snap[o].rows, at |-> as_now]
                         ELSE IF o \in olds THEN as_lastRows[o] ELSE Active!NoRows[o]]
      /\ m.lastSeen = {[row |-> r, at |-> as_now] : r \in answered} \union kept
  BY CarryIs
<1>4. /\ as_now \in Nat /\ AsCarriedInv /\ AsScreenInv
  BY DEF AsInv, AsServersInv
<1> HIDE DEF m
<1>5. /\ answered \subseteq AsRow
      /\ OneOfKey(answered)
      /\ \A r \in answered : \/ r \in snap[r.obj].rows /\ r.obj \in AsObjs \ miss
                             \/ r \in as_lastRows[r.obj].rows /\ r.obj \in olds
  BY <1>1, <1>4, AnsweredIs
<1>6. /\ OneOfKey(as_rows')
      /\ \A r \in as_rows' : r \in answered \/ \E s \in kept : s.row = r
  BY <1>1, <1>2, <1>3, <1>4, ScreenIs
<1>7. /\ \A o \in AsObjs : \A r \in snap[o].rows :
           WasReturned(as_returned', Active!RowKey(r), as_now, 0)
      /\ \A k, u, d : k \notin Active!Keys(AsReturns(snap)) /\ WasReturned(as_returned, k, u, d)
                        => WasReturned(as_returned', k, u, d)
      /\ \A s \in as_returned' : s.at \in Nat
  BY <1>1, <1>2, <1>4, ReturnsAre
<1>8. \A o \in AsObjs : snap[o] \in AsAnswer(o)
  BY <1>1 DEF AsSnaps
<1>9. olds \subseteq miss /\ miss \subseteq AsObjs
      /\ \A o \in olds : as_now - as_lastRows[o].at <= AsCarry
  BY DEF AsOlds, Active!Missed
<1>10. \A r : Active!RowKey(r) \in Active!Keys(AsReturns(snap)) => /\ r.obj \in AsObjs \ miss
                                                   /\ Active!RowKey(r) \in Active!Keys(answered)
  <2> SUFFICES ASSUME NEW r, Active!RowKey(r) \in Active!Keys(AsReturns(snap))
               PROVE  r.obj \in AsObjs \ miss /\ Active!RowKey(r) \in Active!Keys(answered)
    OBVIOUS
  <2>1. PICK o \in AsObjs : \E q \in snap[o].rows : Active!RowKey(q) = Active!RowKey(r)
    BY DEF Active!Keys, AsReturns
  <2>2. PICK q \in snap[o].rows : Active!RowKey(q) = Active!RowKey(r)
    BY <2>1
  <2>3. q.obj = o /\ r.obj = o /\ snap[o].kind = "rows"
    BY <1>8, <2>2 DEF AsAnswer, Active!RowKey
  <2>4. o \notin miss
    BY <2>3 DEF Active!Missed
  <2>5. q \in answered
    BY <2>4 DEF AsAnswered, AsFresh
  <2> QED BY <2>2, <2>3, <2>4, <2>5 DEF Active!Keys
<1>11. \A r \in answered :
         r.obj \in olds => WasReturned(as_returned', Active!RowKey(r), as_lastRows[r.obj].at, 0)
  <2> SUFFICES ASSUME NEW r \in answered, r.obj \in olds
               PROVE  WasReturned(as_returned', Active!RowKey(r), as_lastRows[r.obj].at, 0)
    OBVIOUS
  <2>1. r \in as_lastRows[r.obj].rows
    BY <1>5, <1>9
  <2>2. WasReturned(as_returned, Active!RowKey(r), as_lastRows[r.obj].at, 0)
    BY <1>4, <1>9, <2>1 DEF AsCarriedInv
  <2>3. Active!RowKey(r) \notin Active!Keys(AsReturns(snap))
    BY <1>9, <1>10
  <2> QED BY <1>7, <2>2, <2>3
<1>12. kept \subseteq as_lastSeen
       /\ \A s \in kept : /\ Active!RowKey(s.row) \notin Active!Keys(answered)
                          /\ as_now - s.at <= AsWindow
  BY DEF AsKept
<1>13. \A s \in kept : WasReturned(as_returned', Active!RowKey(s.row), s.at, AsCarry)
  BY <1>4, <1>7, <1>10, <1>12 DEF AsCarriedInv
<1>14. \A r \in answered :
         r.obj \notin olds => WasReturned(as_returned', Active!RowKey(r), as_now, 0)
  BY <1>5, <1>7
<1>15. \A r \in answered : WasReturned(as_returned', Active!RowKey(r), as_now, AsCarry)
  <2> SUFFICES ASSUME NEW r \in answered
               PROVE  WasReturned(as_returned', Active!RowKey(r), as_now, AsCarry)
    OBVIOUS
  <2>1. CASE r.obj \notin olds
    BY <1>4, <1>7, <1>14, <2>1, WindowDataAssumption DEF WasReturned
  <2>2. CASE r.obj \in olds
    <3>1. as_lastRows[r.obj].at \in Nat /\ as_now - as_lastRows[r.obj].at <= AsCarry
      BY <1>4, <1>9, <2>2 DEF AsCarriedInv
    <3>2. PICK s \in as_returned' : s.key = Active!RowKey(r) /\ as_lastRows[r.obj].at - s.at <= 0
      BY <1>11, <2>2 DEF WasReturned
    <3>3. s.at \in Nat
      BY <1>7
    <3>4. as_now - s.at <= AsCarry
      BY <1>4, <3>1, <3>2, <3>3, WindowDataAssumption
    <3> QED BY <3>2, <3>4 DEF WasReturned
  <2> QED BY <2>1, <2>2
<1>20. AsCarriedInv'
  <2>1. as_lastRows' \in [AsObjs -> [rows : SUBSET AsRow, at : Nat]]
    <3>1. \A o \in AsObjs :
            /\ [rows |-> snap[o].rows, at |-> as_now] \in [rows : SUBSET AsRow, at : Nat]
            /\ as_lastRows[o] \in [rows : SUBSET AsRow, at : Nat]
            /\ Active!NoRows[o] \in [rows : SUBSET AsRow, at : Nat]
      BY <1>4, <1>8 DEF AsAnswer, Active!NoRows, AsCarriedInv
    <3> QED BY <1>2, <1>3, <3>1
  <2>2. \A o \in AsObjs :
          \/ o \notin miss /\ as_lastRows'[o] = [rows |-> snap[o].rows, at |-> as_now]
          \/ o \in olds /\ as_lastRows'[o] = as_lastRows[o]
          \/ as_lastRows'[o] = [rows |-> {}, at |-> 0]
    BY <1>2, <1>3 DEF Active!NoRows
  <2>3. \A o \in AsObjs : OneOfKey(as_lastRows'[o].rows)
    <3> SUFFICES ASSUME NEW o \in AsObjs
                 PROVE  OneOfKey(as_lastRows'[o].rows)
      OBVIOUS
    <3>1. OneOfKey(as_lastRows[o].rows) /\ OneOfKey(snap[o].rows) /\ OneOfKey({})
      BY <1>4, <1>8 DEF AsAnswer, AsCarriedInv, OneOfKey
    <3>2. \/ as_lastRows'[o].rows = snap[o].rows
          \/ as_lastRows'[o].rows = as_lastRows[o].rows
          \/ as_lastRows'[o].rows = {}
      <4>1. CASE as_lastRows'[o] = [rows |-> snap[o].rows, at |-> as_now]
        BY <4>1
      <4>2. CASE as_lastRows'[o] = as_lastRows[o]
        BY <4>2
      <4>3. CASE as_lastRows'[o] = [rows |-> {}, at |-> 0]
        BY <4>3
      <4> QED BY <2>2, <4>1, <4>2, <4>3
    <3> QED BY <3>1, <3>2, Zenon
  <2>4. \A o \in AsObjs : \A r \in as_lastRows'[o].rows :
          r.obj = o /\ WasReturned(as_returned', Active!RowKey(r), as_lastRows'[o].at, 0)
    <3> SUFFICES ASSUME NEW o \in AsObjs, NEW r \in as_lastRows'[o].rows
                 PROVE  /\ r.obj = o
                        /\ WasReturned(as_returned', Active!RowKey(r), as_lastRows'[o].at, 0)
      OBVIOUS
    <3>1. CASE o \notin miss /\ as_lastRows'[o] = [rows |-> snap[o].rows, at |-> as_now]
      BY <1>7, <1>8, <3>1 DEF AsAnswer
    <3>2. CASE o \in olds /\ as_lastRows'[o] = as_lastRows[o]
      <4>1. r \in as_lastRows[o].rows /\ r.obj = o
        BY <1>4, <3>2 DEF AsCarriedInv
      <4>2. r \in answered
        BY <3>2, <4>1 DEF AsAnswered
      <4> QED BY <1>11, <3>2, <4>1, <4>2
    <3>3. CASE as_lastRows'[o] = [rows |-> {}, at |-> 0]
      BY <3>3
    <3> QED BY <2>2, <3>1, <3>2, <3>3
  <2>5. \A s \in as_lastSeen' : \/ s \in kept
                             \/ \E r \in answered : s = [row |-> r, at |-> as_now]
    BY <1>2, <1>3
  <2>6. as_lastSeen' \subseteq [row : AsRow, at : Nat]
    BY <1>4, <1>5, <1>12, <2>5 DEF AsCarriedInv
  <2>7. \A s, u \in as_lastSeen' : Active!RowKey(s.row) = Active!RowKey(u.row) => s = u
    <3> SUFFICES ASSUME NEW s \in as_lastSeen', NEW u \in as_lastSeen',
                        Active!RowKey(s.row) = Active!RowKey(u.row)
                 PROVE  s = u
      OBVIOUS
    <3>1. CASE s \in kept /\ u \in kept
      BY <1>4, <1>12, <3>1 DEF AsCarriedInv
    <3>2. CASE s \in kept /\ \E r \in answered : u = [row |-> r, at |-> as_now]
      BY <1>12, <3>2 DEF Active!Keys
    <3>3. CASE u \in kept /\ \E r \in answered : s = [row |-> r, at |-> as_now]
      BY <1>12, <3>3 DEF Active!Keys
    <3>4. CASE (\E r \in answered : s = [row |-> r, at |-> as_now])
               /\ \E r \in answered : u = [row |-> r, at |-> as_now]
      BY <1>5, <3>4 DEF OneOfKey
    <3> QED BY <2>5, <3>1, <3>2, <3>3, <3>4
  <2>8. \A s \in as_lastSeen' : WasReturned(as_returned', Active!RowKey(s.row), s.at, AsCarry)
    BY <1>13, <1>15, <2>5
  <2> QED BY <1>7, <2>1, <2>3, <2>4, <2>6, <2>7, <2>8 DEF AsCarriedInv
<1>30. Active!RowsHonest'
  <2>0. as_at' = as_now /\ as_stale' = olds
    BY <1>2, <1>3
  <2> SUFFICES ASSUME NEW r \in as_rows'
               PROVE  \E s \in as_returned' :
                        /\ s.key = Active!RowKey(r)
                        /\ as_at' - s.at <= AsCarry + AsWindow
                        /\ s.at < as_at' => \/ r.obj \in as_stale'
                                         \/ Active!RowKey(r) \in as_carriedRows'
    BY DEF Active!RowsHonest, Active!RowKey
  <2>1. CASE r \in answered /\ r.obj \notin olds
    <3>1. PICK s \in as_returned' : s.key = Active!RowKey(r) /\ as_now - s.at <= 0
      BY <1>14, <2>1 DEF WasReturned
    <3>2. s.at \in Nat
      BY <1>7
    <3>3. as_at' - s.at <= AsCarry + AsWindow /\ ~(s.at < as_at')
      BY <1>4, <2>0, <3>1, <3>2, WindowDataAssumption
    <3> QED BY <3>1, <3>3
  <2>2. CASE r \in answered /\ r.obj \in olds
    <3>1. PICK s \in as_returned' : s.key = Active!RowKey(r) /\ as_now - s.at <= AsCarry
      BY <1>15, <2>2 DEF WasReturned
    <3>2. s.at \in Nat
      BY <1>7
    <3>3. as_at' - s.at <= AsCarry + AsWindow
      BY <1>4, <2>0, <3>1, <3>2, WindowDataAssumption
    <3> QED BY <2>0, <2>2, <3>1, <3>3
  <2>3. CASE \E u \in kept : u.row = r
    <3>1. PICK u \in kept : u.row = r
      BY <2>3
    <3>2. Active!RowKey(r) \in as_carriedRows'
      BY <1>2, <1>3, <3>1
    <3>3. PICK s \in as_returned' : s.key = Active!RowKey(r) /\ u.at - s.at <= AsCarry
      BY <1>13, <3>1 DEF WasReturned
    <3>4. s.at \in Nat /\ u.at \in Nat /\ as_now - u.at <= AsWindow
      BY <1>4, <1>7, <1>12, <3>1 DEF AsCarriedInv
    <3>5. as_at' - s.at <= AsCarry + AsWindow
      BY <1>4, <2>0, <3>3, <3>4, WindowDataAssumption
    <3> QED BY <3>2, <3>3, <3>5
  <2> QED BY <1>6, <2>1, <2>2, <2>3
<1>31. \A g, h \in as_holds' : g.tx = h.tx /\ g.res = h.res => g = h
  BY <1>2, <1>4, HoldsAreOne
<1>32. as_tracks' \subseteq AsDot
  <2>1. m.rows \subseteq AsRow
    BY <1>3, <1>4, <1>5, <1>12 DEF AsCarriedInv
  <2>2. {r \in m.rows : r.obj \notin m.stale} \in SUBSET AsRow
    BY <2>1
  <2>3. as_tracks \subseteq AsDot
    BY <1>4 DEF AsScreenInv
  <2> QED BY <1>2, <2>2, <2>3, DotsAre
<1>33. as_carriedRows' \subseteq Active!Keys(as_rows')
  BY <1>2, <1>3 DEF Active!Keys
<1>34. AsScreenInv'
  BY <1>2, <1>3, <1>6, <1>9, <1>30, <1>31, <1>32, <1>33 DEF AsScreenInv
<1> QED BY <1>20, <1>34

----------------------------------------------------------------------------
\* The other steps.
LEMMA HeldStays ==
  ASSUME AsCarriedInv, as_lastRows' = as_lastRows, as_lastSeen' = as_lastSeen,
         as_returned' = as_returned
  PROVE  AsCarriedInv'
<1>1. \A o \in AsObjs : OneOfKey(as_lastRows[o].rows)' <=> OneOfKey(as_lastRows[o].rows)
  BY DEF OneOfKey, Active!RowKey
<1>2. \A o \in AsObjs : \A r \in as_lastRows'[o].rows :
        r.obj = o /\ WasReturned(as_returned', Active!RowKey(r), as_lastRows'[o].at, 0)
  BY DEF AsCarriedInv
<1>3. \A s \in as_lastSeen' : WasReturned(as_returned', Active!RowKey(s.row), s.at, AsCarry)
  BY DEF AsCarriedInv
<1> QED BY <1>1, <1>2, <1>3, Zenon DEF AsCarriedInv, Active!RowKey, WasReturned

LEMMA ScreenStays ==
  ASSUME AsScreenInv, as_rows' = as_rows, as_missed' = as_missed, as_stale' = as_stale,
         as_carriedRows' = as_carriedRows, as_at' = as_at, as_holds' = as_holds,
         as_returned' = as_returned,
         as_tracks' \subseteq AsDot
  PROVE  AsScreenInv'
<1>1. Active!RowsHonest'
  BY DEF AsScreenInv, Active!RowsHonest, Active!RowKey
<1>2. OneOfKey(as_rows)'
  BY DEF AsScreenInv, OneOfKey, Active!RowKey
<1> QED BY <1>1, <1>2 DEF AsScreenInv, Active!Keys, Active!RowKey

LEMMA FeedStays ==
  ASSUME AsInv, UNCHANGED <<Active!feed, as_tracks, as_returned>>
  PROVE  AsCarriedInv' /\ AsScreenInv'
<1>1. /\ as_rows' = as_rows /\ as_missed' = as_missed /\ as_stale' = as_stale
      /\ as_carriedRows' = as_carriedRows /\ as_at' = as_at /\ as_holds' = as_holds
      /\ as_lastRows' = as_lastRows /\ as_lastSeen' = as_lastSeen
      /\ as_tracks' = as_tracks /\ as_returned' = as_returned
  BY DEF Active!feed
<1>2. AsCarriedInv'
  BY <1>1, HeldStays DEF AsInv
<1>3. AsScreenInv'
  BY <1>1, ScreenStays DEF AsInv, AsScreenInv
<1> QED BY <1>2, <1>3

LEMMA BlankIsHonest ==
  ASSUME AsInv, Active!Blank, as_tracks' = {}
  PROVE  AsCarriedInv' /\ AsScreenInv'
<1>1. as_lastRows' \in [AsObjs -> [rows : SUBSET AsRow, at : Nat]]
      /\ \A o \in AsObjs : as_lastRows'[o].rows = {}
  BY DEF Active!Blank, Active!NoRows
<1>2. AsCarriedInv'
  BY <1>1 DEF Active!Blank, AsCarriedInv, OneOfKey
<1>3. AsScreenInv'
  BY DEF Active!Blank, AsScreenInv, OneOfKey, Active!RowsHonest, Active!Keys
<1> QED BY <1>2, <1>3

\* What a poll finds at an object is one of its rows for a transaction.
LEMMA GatheredIs ==
  ASSUME AsServersInv, NEW o \in AsObjs
  PROVE  Active!Gathered(o) \subseteq AsAnswer(o)
<1> SUFFICES ASSUME NEW g \in Active!Gathered(o)
             PROVE  g \in AsAnswer(o)
  OBVIOUS
<1>1. CASE g \in {[kind |-> "rows", rows |-> rs] : rs \in SUBSET {r \in as_running : r.obj = o}}
  <2>1. PICK rs \in SUBSET {r \in as_running : r.obj = o} : g = [kind |-> "rows", rows |-> rs]
    BY <1>1
  <2>2. rs \subseteq AsRow /\ \A r \in rs : r.obj = o /\ r \in as_running
    BY <2>1 DEF AsServersInv
  <2>3. OneOfKey(rs)
    BY <2>2 DEF AsServersInv, OneOfKey, Active!RowKey
  <2> QED BY <2>1, <2>2, <2>3 DEF AsAnswer
<1>2. CASE g \in {[kind |-> k, rows |-> {}] : k \in {"empty", "silent"}}
  <2>1. PICK k \in {"empty", "silent"} : g = [kind |-> k, rows |-> {}]
    BY <1>2
  <2>2. OneOfKey({})
    BY DEF OneOfKey
  <2> QED BY <2>1, <2>2 DEF AsAnswer
<1> QED BY <1>1, <1>2 DEF Active!Gathered

LEMMA AsksStay ==
  ASSUME AsServersInv, as_asks' \in {{Active!Late(a) : a \in as_asks}, as_asks},
         as_now' \in Nat, as_epoch' \in Nat, as_running' \subseteq AsRow,
         \A p, q \in as_running' : p.tx = q.tx => p = q
  PROVE  AsServersInv'
<1>1. \A a \in as_asks' : \E b \in as_asks : a = b \/ a = Active!Late(b)
  OBVIOUS
<1>2. \A b \in as_asks : Active!Late(b) \in [epoch : Nat, alive : BOOLEAN, snap : SUBSET AsSnaps]
  BY Zenon DEF AsServersInv, Active!Late
<1>3. as_asks' \subseteq [epoch : Nat, alive : BOOLEAN, snap : SUBSET AsSnaps]
  BY <1>1, <1>2 DEF AsServersInv
<1> QED BY <1>3 DEF AsServersInv

LEMMA AsInvInit == Active!Init => AsInv
<1> SUFFICES ASSUME Active!Init PROVE AsInv
  OBVIOUS
<1>1. AsServersInv
  BY DEF Active!Init, AsServersInv
<1>2. as_lastRows \in [AsObjs -> [rows : SUBSET AsRow, at : Nat]]
      /\ \A o \in AsObjs : as_lastRows[o].rows = {}
  BY DEF Active!Init, Active!NoRows
<1>3. AsCarriedInv
  BY <1>2 DEF Active!Init, AsCarriedInv, OneOfKey
<1>4. AsScreenInv
  BY DEF Active!Init, AsScreenInv, OneOfKey, Active!RowsHonest, Active!Keys
<1> QED BY <1>1, <1>3, <1>4 DEF AsInv

LEMMA AsInvNext == AsInv /\ Active!Next => AsInv' /\ Active!HoldsStep
<1> SUFFICES ASSUME AsInv, Active!Next
             PROVE  AsInv' /\ Active!HoldsStep
  OBVIOUS
<1>0. AsServersInv /\ AsCarriedInv /\ AsScreenInv
  BY DEF AsInv
<1>h. as_holds' = as_holds \/ as_rows' = {} => Active!HoldsStep
  BY DEF Active!HoldsStep
<1>1. ASSUME NEW x \in AsTxs, Active!Begin(x)
      PROVE  AsInv' /\ Active!HoldsStep
  <2>a. PICK o \in AsObjs : \E res \in AsResources :
          as_running' = as_running \union {[obj |-> o, tx |-> x, res |-> res, long |-> FALSE]}
    BY <1>1 DEF Active!Begin
  <2>b. PICK res \in AsResources :
          as_running' = as_running \union {[obj |-> o, tx |-> x, res |-> res, long |-> FALSE]}
    BY <2>a
  <2>1. PICK r : /\ r \in AsRow /\ r.tx = x
                 /\ as_running' = as_running \union {r}
    <3> DEFINE r == [obj |-> o, tx |-> x, res |-> res, long |-> FALSE]
    <3>1. r \in AsRow /\ r.tx = x /\ as_running' = as_running \union {r}
      BY <2>b DEF AsRow
    <3> HIDE DEF r
    <3> QED BY <3>1
  <2>2. as_running' \subseteq AsRow
    BY <1>0, <2>1 DEF AsServersInv
  <2>3. \A p, q \in as_running' : p.tx = q.tx => p = q
    BY <1>0, <1>1, <2>1 DEF AsServersInv, Active!Begin
  <2>4. AsServersInv'
    BY <1>0, <1>1, <2>2, <2>3, AsksStay DEF Active!Begin, AsServersInv
  <2>5. UNCHANGED <<Active!feed, as_tracks, as_returned>>
    BY <1>1 DEF Active!Begin
  <2> QED BY <1>h, <2>4, <2>5, FeedStays DEF AsInv, Active!feed
<1>2. ASSUME NEW r \in as_running, Active!Moves(r)
      PROVE  AsInv' /\ Active!HoldsStep
  <2>1. \/ as_running' = as_running \ {r}
        \/ \E res \in AsResources \ {r.res} :
             as_running' = (as_running \ {r}) \union {[r EXCEPT !.res = res]}
    BY <1>2 DEF Active!Moves
  <2>2. \A res \in AsResources : /\ [r EXCEPT !.res = res] \in AsRow
                               /\ [r EXCEPT !.res = res].tx = r.tx
    BY <1>0 DEF AsServersInv, AsRow
  <2>3. as_running' \subseteq AsRow /\ \A p, q \in as_running' : p.tx = q.tx => p = q
    BY <1>0, <2>1, <2>2, Zenon DEF AsServersInv
  <2>4. AsServersInv'
    BY <1>0, <1>2, <2>3, AsksStay DEF Active!Moves, AsServersInv
  <2>5. UNCHANGED <<Active!feed, as_tracks, as_returned>>
    BY <1>2 DEF Active!Moves
  <2> QED BY <1>h, <2>4, <2>5, FeedStays DEF AsInv, Active!feed
<1>3. ASSUME Active!Tick
      PROVE  AsInv' /\ Active!HoldsStep
  <2>1. \A r \in as_running : /\ [r EXCEPT !.long = TRUE] \in AsRow
                           /\ [r EXCEPT !.long = TRUE].tx = r.tx
    BY <1>0, Zenon DEF AsServersInv, AsRow
  <2>2. as_running' = {[r EXCEPT !.long = TRUE] : r \in as_running}
    BY <1>3 DEF Active!Tick
  <2>3. as_running' \subseteq AsRow /\ \A p, q \in as_running' : p.tx = q.tx => p = q
    <3>1. as_running' \subseteq AsRow
      BY <2>1, <2>2
    <3>2. ASSUME NEW p \in as_running', NEW q \in as_running', p.tx = q.tx
          PROVE  p = q
      <4>1. PICK u \in as_running : p = [u EXCEPT !.long = TRUE]
        BY <2>2
      <4>2. PICK v \in as_running : q = [v EXCEPT !.long = TRUE]
        BY <2>2
      <4>3. u = v
        BY <1>0, <2>1, <3>2, <4>1, <4>2 DEF AsServersInv
      <4> QED BY <4>1, <4>2, <4>3
    <3> QED BY <3>1, <3>2
  <2>4. AsServersInv'
    BY <1>0, <1>3, <2>3, AsksStay DEF Active!Tick, AsServersInv
  <2>5. UNCHANGED <<Active!feed, as_tracks, as_returned>>
    BY <1>3 DEF Active!Tick
  <2> QED BY <1>h, <2>4, <2>5, FeedStays DEF AsInv, Active!feed
<1>4. ASSUME Active!Poll
      PROVE  AsInv' /\ Active!HoldsStep
  <2>0. [epoch |-> as_epoch, alive |-> TRUE, snap |-> {}]
          \in [epoch : Nat, alive : BOOLEAN, snap : SUBSET AsSnaps]
    BY <1>0 DEF AsServersInv
  <2>1. AsServersInv'
    BY <1>0, <1>4, <2>0, Zenon DEF Active!Poll, AsServersInv
  <2>2. UNCHANGED <<Active!feed, as_tracks, as_returned>>
    BY <1>4 DEF Active!Poll
  <2> QED BY <1>h, <2>1, <2>2, FeedStays DEF AsInv, Active!feed
<1>5. ASSUME Active!Disable \/ Active!Switch
      PROVE  AsInv' /\ Active!HoldsStep
  <2>1. AsServersInv'
    BY <1>0, <1>5, AsksStay DEF Active!Disable, Active!Switch, AsServersInv
  <2>2. Active!Blank /\ as_tracks' = {}
    BY <1>5 DEF Active!Disable, Active!Switch
  <2>3. as_rows' = {}
    BY <2>2 DEF Active!Blank
  <2> QED BY <1>h, <2>1, <2>2, <2>3, BlankIsHonest DEF AsInv
<1>6. ASSUME Active!Enable \/ Active!Rekey
      PROVE  AsInv' /\ Active!HoldsStep
  <2>1. AsServersInv'
    BY <1>0, <1>6, AsksStay DEF Active!Enable, Active!Rekey, AsServersInv
  <2>2. UNCHANGED <<Active!feed, as_tracks, as_returned>>
    BY <1>6 DEF Active!Enable, Active!Rekey
  <2> QED BY <1>h, <2>1, <2>2, FeedStays DEF AsInv, Active!feed
<1>7. ASSUME Active!Settle
      PROVE  AsInv' /\ Active!HoldsStep
  <2>1. AsServersInv'
    BY <1>0, <1>7 DEF Active!Settle, AsServersInv
  <2>2. UNCHANGED <<Active!feed, as_returned>>
    BY <1>7 DEF Active!Settle
  <2>3. \A d \in as_tracks : [d EXCEPT !.phase = "holding"] \in AsDot
    BY <1>0 DEF AsDot, AsScreenInv
  <2>4. as_tracks' \subseteq AsDot
    BY <1>0, <1>7, <2>3 DEF Active!Settle, AsScreenInv
  <2>5. AsCarriedInv'
    BY <1>0, <2>2, HeldStays DEF Active!feed
  <2>6. AsScreenInv'
    BY <1>0, <2>2, <2>4, ScreenStays DEF Active!feed
  <2> QED BY <1>h, <2>1, <2>2, <2>5, <2>6 DEF AsInv, Active!feed
<1>8. ASSUME NEW a \in as_asks, Active!Gather(a)
      PROVE  AsInv' /\ Active!HoldsStep
  <2>1. PICK s \in {f \in [AsObjs -> UNION {Active!Gathered(o) : o \in AsObjs}] :
                       \A o \in AsObjs : f[o] \in Active!Gathered(o)} :
          as_asks' = (as_asks \ {a}) \union {[a EXCEPT !.snap = {s}]}
    BY <1>8, Zenon DEF Active!Gather
  <2>2. \A o \in AsObjs : s[o] \in AsAnswer(o)
    BY <1>0, <2>1, GatheredIs
  <2>3. s \in AsSnaps
    BY <2>1, <2>2 DEF AsSnaps, AsAnswer
  <2>4. as_asks' \subseteq [epoch : Nat, alive : BOOLEAN, snap : SUBSET AsSnaps]
    <3>1. [a EXCEPT !.snap = {s}] \in [epoch : Nat, alive : BOOLEAN, snap : SUBSET AsSnaps]
      BY <1>0, <2>3 DEF AsServersInv
    <3> QED BY <1>0, <2>1, <3>1 DEF AsServersInv
  <2>5. AsServersInv'
    BY <1>0, <1>8, <2>4, Zenon DEF Active!Gather, AsServersInv
  <2>6. UNCHANGED <<Active!feed, as_tracks, as_returned>>
    BY <1>8 DEF Active!Gather
  <2> QED BY <1>h, <2>5, <2>6, FeedStays DEF AsInv, Active!feed
<1>9. ASSUME NEW a \in as_asks, Active!Arrive(a)
      PROVE  AsInv' /\ Active!HoldsStep
  <2>1. AsServersInv'
    BY <1>0, <1>9 DEF Active!Arrive, AsServersInv
  <2>2. CASE a.alive
    <3>1. AsCarriedInv' /\ AsScreenInv'
      BY <1>9, <2>2, TakenAnswer
    <3>2. PICK rs : as_rows' = rs /\ as_holds' = Active!AdvanceHolds(rs, as_now)
      BY <1>9, <2>2, Zenon DEF Active!Arrive
    <3>3. Active!HoldsStep
      BY <1>0, <3>2, HoldsAreOne DEF Active!HoldsStep
    <3> QED BY <2>1, <3>1, <3>3 DEF AsInv
  <2>3. CASE ~a.alive
    BY <1>h, <1>9, <2>1, <2>3, FeedStays DEF AsInv, Active!feed, Active!Arrive
  <2> QED BY <2>2, <2>3
<1>10. ASSUME NEW a \in as_asks, Active!PollFails(a)
       PROVE  AsInv' /\ Active!HoldsStep
  <2>1. AsServersInv'
    BY <1>0, <1>10 DEF Active!PollFails, AsServersInv
  <2>2. UNCHANGED <<Active!feed, as_tracks, as_returned>>
    BY <1>10 DEF Active!PollFails
  <2> QED BY <1>h, <2>1, <2>2, FeedStays DEF AsInv, Active!feed
<1> QED
  BY <1>1, <1>2, <1>3, <1>4, <1>5, <1>6, <1>7, <1>8, <1>9, <1>10 DEF Active!Next

\* The components count as their reader does.
LEMMA CountIs == \A S : /\ Active!Cardinality(S) = Cardinality(S)
                       /\ AlertsC!Cardinality(S) = Cardinality(S)
  BY DEF Active!Cardinality, AlertsC!Cardinality, Cardinality

LEMMA AsInvSays == AsInv => Active!TypeOK /\ Active!RowsHonest
<1> SUFFICES ASSUME AsInv PROVE Active!TypeOK /\ Active!RowsHonest
  OBVIOUS
<1>1. AsScreenInv
  BY DEF AsInv
<1>2. ASSUME NEW k \in Active!Keys(as_rows)
      PROVE  Cardinality({r \in as_rows : Active!RowKey(r) = k}) = 1
  <2>1. PICK q \in as_rows : Active!RowKey(q) = k
    BY <1>2 DEF Active!Keys
  <2>2. {r \in as_rows : Active!RowKey(r) = k} = {q}
    BY <1>1, <2>1 DEF AsScreenInv, OneOfKey
  <2> QED BY <2>2, FS_Singleton
<1>3. \A d \in as_tracks : d.phase \in {"entering", "holding", "leaving"}
  BY <1>1 DEF AsScreenInv, AsDot
<1> QED BY <1>1, <1>2, <1>3, CountIs DEF AsScreenInv, Active!TypeOK

\* A step of the window that changes nothing of it.
LEMMA AsRests ==
  ASSUME AsInv, UNCHANGED ActiveServicesVars
  PROVE  AsInv' /\ Active!HoldsStep
<1>1. AsServersInv'
  BY DEF AsInv, AsServersInv, ActiveServicesVars
<1>2. UNCHANGED <<Active!feed, as_tracks, as_returned>>
  BY DEF Active!feed, ActiveServicesVars
<1>3. Active!HoldsStep
  BY DEF Active!HoldsStep, ActiveServicesVars
<1> QED BY <1>1, <1>2, <1>3, FeedStays DEF AsInv

\* Every row of the active list was returned by its server over this connection, not
\* longer ago than the two carries together, one that the last poll did not return is
\* marked as old, and the clock of a held resource never starts again.
THEOREM RowsAreOfTheServers == Spec => ActiveListTrue
<1>1. Init => (which = "ActiveServices" => AsInv)
  BY AsInvInit DEF Init
<1>2. (which = "ActiveServices" => AsInv) /\ [Next]_allVars
        => (which = "ActiveServices" => AsInv)'
  <2> SUFFICES ASSUME which = "ActiveServices" => AsInv, [Next]_allVars,
                      (which = "ActiveServices")'
               PROVE  AsInv'
    OBVIOUS
  <2>1. CASE Next
    BY <2>1, ListTurns, AsInvNext
  <2>2. CASE UNCHANGED allVars
    BY <2>2, AsRests DEF allVars
  <2> QED BY <2>1, <2>2
<1>3. (which = "ActiveServices" => AsInv)
        => (which = "ActiveServices" => Active!TypeOK /\ Active!RowsHonest)
  BY AsInvSays
<1>4. (which = "ActiveServices" => AsInv) /\ [Next]_allVars
        => [which = "ActiveServices" => Active!HoldsStep]_allVars
  BY ListTurns, AsInvNext DEF allVars
<1> QED BY <1>1, <1>2, <1>3, <1>4, PTL DEF Spec, ActiveListTrue

----------------------------------------------------------------------------
(* The objects over time, their file and their alerts.                     *)

AlLife  == [obj : AlObjs, first : Nat, last : Nat, alive : BOOLEAN]
AlEntry == [obj : AlObjs, alive : BOOLEAN, wakeup : Nat]
AlBell  == [obj : AlObjs, down : BOOLEAN, time : Nat]
OneOfObj(xs) == \A x, y \in xs : x.obj = y.obj => x = y
AlLives(xs) ==
  /\ xs \subseteq AlLife /\ OneOfObj(xs)
  /\ \A x \in xs : x.first <= al_now /\ x.last <= al_now

AlServerInv ==
  /\ al_now \in Nat /\ al_up \subseteq AlObjs /\ al_listed \subseteq AlObjs
  /\ al_beat \in [AlObjs -> Nat] /\ \A o \in AlObjs : al_beat[o] <= al_now
  /\ al_epoch \in Nat
  /\ al_asks \subseteq [epoch : Nat, list : SUBSET AlEntry]
  /\ \A a \in al_asks : OneOfObj(a.list) /\ \A x \in a.list : x.wakeup <= al_now
AlPastInv ==
  /\ al_primed \in BOOLEAN
  /\ AlLives(al_seen) /\ AlLives(al_file)
  /\ al_shown \subseteq AlEntry /\ OneOfObj(al_shown)
  /\ al_reading => al_connected
  \* What the file knew was read.
  /\ al_connected /\ ~al_reading /\ ~al_readFailed =>
       \A s \in al_file : \E r \in al_seen : r.obj = s.obj
AlBellInv ==
  /\ al_alerts \in Seq(AlBell) /\ Len(al_alerts) <= AlMaxAlerts
AlInv == AlServerInv /\ AlPastInv /\ AlBellInv

----------------------------------------------------------------------------
\* Of a set of natural numbers that are bounded one is the largest.
LEMMA Largest ==
  ASSUME NEW S \in SUBSET Nat, S # {}, NEW n \in Nat, \A x \in S : x <= n
  PROVE  \E x \in S : \A y \in S : y <= x
<1> DEFINE T == {n - x : x \in S}
           Less == {ss \in Nat \X Nat : ss[1] < ss[2]}
<1>1. T \subseteq Nat /\ T # {}
  <2>1. \A x \in S : n - x \in Nat
    OBVIOUS
  <2>2. T # {}
    OBVIOUS
  <2> QED BY <2>1, <2>2
<1>2. IsWellFoundedOn(Less, Nat)
  BY NatLessThanWellFounded, Zenon DEF OpToRel
<1>3. \E m \in T : \A k \in T : ~(<<k, m>> \in Less)
  <2> HIDE DEF T, Less
  <2> QED BY <1>1, <1>2, WFMin, Zenon
<1>4. PICK m \in T : \A k \in T : ~(<<k, m>> \in Less)
  BY <1>3
<1>5. PICK x \in S : m = n - x
  OBVIOUS
<1>6. \A y \in S : y <= x
  <2> SUFFICES ASSUME NEW y \in S PROVE y <= x
    OBVIOUS
  <2>1. n - y \in T /\ n - y \in Nat /\ n - x \in Nat
    BY <1>1
  <2>2. ~(n - y < n - x)
    BY <1>4, <1>5, <2>1, Zenon
  <2>3. x \in Nat /\ y \in Nat
    OBVIOUS
  <2> QED BY <2>2, <2>3
<1> QED BY <1>6

LEMMA OfEachObj ==
  ASSUME NEW xs, OneOfObj(xs), \A x \in xs : x.obj \in AlObjs
  PROVE  Cardinality({x.obj : x \in xs}) = Cardinality(xs)
<1> DEFINE S == {x.obj : x \in xs}
           f == [o \in S |-> CHOOSE x \in xs : x.obj = o]
<1>1. \A o \in S : f[o] \in xs /\ f[o].obj = o
  OBVIOUS
<1>2. \A x \in xs : f[x.obj] = x
  BY <1>1 DEF OneOfObj
<1>3. f \in Bijection(S, xs)
  <2>1. f \in [S -> xs]
    BY <1>1
  <2>2. \A a, b \in S : f[a] = f[b] => a = b
    BY <1>1
  <2>3. \A x \in xs : \E a \in S : f[a] = x
    BY <1>2
  <2> HIDE DEF f
  <2> QED BY <2>1, <2>2, <2>3 DEF Bijection, Injection, Surjection, IsInjective
<1>4. ExistsBijection(S, xs)
  BY <1>3 DEF ExistsBijection
<1>5. IsFiniteSet(S)
  BY WindowDataAssumption, FS_Subset
<1> QED BY <1>4, <1>5, FS_Bijection

\* The last of a service to go was outlived by none: its alert is of no
\* replacement, and the burst it is in counts.
LEMMA LastOneRings == AlInv => AlertsC!LossIsLoud
<1> SUFFICES ASSUME AlInv, al_seen # {}, \A s \in al_seen : ~s.alive,
                    \A s \in al_seen : \E i \in DOMAIN al_alerts :
                      al_alerts[i].obj = s.obj /\ al_alerts[i].down /\ s.last <= al_alerts[i].time
             PROVE  AlertsC!InService \ AlertsC!Quiet # {}
  BY DEF AlertsC!LossIsLoud
<1>1. /\ al_now \in Nat /\ al_seen \subseteq AlLife /\ OneOfObj(al_seen)
      /\ \A s \in al_seen : s.first \in Nat /\ s.last \in Nat /\ s.last <= al_now
      /\ al_alerts \in Seq(AlBell)
  BY DEF AlInv, AlServerInv, AlPastInv, AlBellInv, AlLives, AlLife
<1>2. PICK s \in al_seen : \A y \in al_seen : y.last <= s.last
  <2> DEFINE S == {y.last : y \in al_seen}
  <2>1. S \in SUBSET Nat /\ S # {} /\ \A x \in S : x <= al_now
    BY <1>1
  <2> HIDE DEF S
  <2>2. PICK x \in S : \A y \in S : y <= x
    BY <1>1, <2>1, Largest, Zenon
  <2> USE DEF S
  <2>3. PICK z \in al_seen : z.last = x
    OBVIOUS
  <2>4. \A y \in al_seen : y.last <= z.last
    BY <2>2, <2>3
  <2> QED BY <2>4
<1>3. PICK i \in DOMAIN al_alerts :
        al_alerts[i].obj = s.obj /\ al_alerts[i].down /\ s.last <= al_alerts[i].time
  OBVIOUS
<1>4. i \in AlertsC!InService
  BY <1>3 DEF AlertsC!InService, AlertsC!Known
<1>5. AlertsC!Past(al_alerts[i].obj) = s
  <2>1. \E x \in al_seen : x.obj = s.obj
    OBVIOUS
  <2> DEFINE p == AlertsC!Past(s.obj)
  <2>2. p \in al_seen /\ p.obj = s.obj
    BY <2>1 DEF AlertsC!Past
  <2> QED BY <1>1, <1>3, <2>2 DEF OneOfObj
<1>6. al_alerts[i].time \in Nat
  <2>1. al_alerts[i] \in AlBell
    BY <1>1, <1>3
  <2> QED BY <2>1 DEF AlBell
<1>7. AlertsC!DownAt(al_alerts[i]) \in Nat /\ s.last <= AlertsC!DownAt(al_alerts[i])
  BY <1>1, <1>3, <1>5, <1>6 DEF AlertsC!DownAt
<1>8. ~AlertsC!Covered(al_alerts[i])
  <2> SUFFICES ASSUME NEW y \in al_seen,
                      y.alive \/ y.last >= AlertsC!DownAt(al_alerts[i]) + AlOverlap
               PROVE  FALSE
    BY DEF AlertsC!Covered
  <2>1. y.last \in Nat /\ s.last \in Nat /\ y.last <= s.last /\ ~y.alive
    BY <1>1, <1>2
  <2> QED BY <1>7, <2>1, WindowDataAssumption
<1>9. i \in AlertsC!Burst(i)
  <2>1. AlertsC!SameBurst(i, i)
    <3>1. \A t \in al_alerts[i].time .. (al_alerts[i].time - 1) : FALSE
      BY <1>6
    <3> QED BY <1>6, <3>1 DEF AlertsC!SameBurst, AlertsC!Larger
  <2> QED BY <1>4, <2>1 DEF AlertsC!Burst
<1>10. AlertsC!IsDown(AlertsC!Burst(i))
  BY <1>3, <1>8, <1>9 DEF AlertsC!IsDown
<1> QED BY <1>4, <1>10 DEF AlertsC!Quiet

LEMMA AlInvSays == AlInv => AlertsC!TypeOK /\ AlertsC!LossIsLoud
<1> SUFFICES ASSUME AlInv PROVE AlertsC!TypeOK
  BY LastOneRings
<1>1. Cardinality(AlertsC!Known) = Cardinality(al_seen)
  BY OfEachObj DEF AlertsC!Known, AlInv, AlPastInv, AlLives, AlLife
<1>2. Cardinality({x.obj : x \in al_shown}) = Cardinality(al_shown)
  BY OfEachObj DEF AlInv, AlPastInv, AlEntry
<1> QED BY <1>1, <1>2, CountIs DEF AlertsC!TypeOK, AlInv, AlPastInv, AlBellInv, AlLives

----------------------------------------------------------------------------
\* The merges keep one entry of an object.
LEMMA ObservedIs ==
  ASSUME al_now \in Nat, AlLives(al_seen), NEW list \in SUBSET AlEntry, OneOfObj(list),
         \A x \in list : x.wakeup <= al_now
  PROVE  /\ AlLives(AlertsC!ObserveObjects(list, al_now))
         /\ \A s \in al_seen : \E r \in AlertsC!ObserveObjects(list, al_now) : r.obj = s.obj
<1> DEFINE Seen(a) ==
             [obj   |-> a.obj,
              first |-> IF a.obj \in AlertsC!Known THEN AlertsC!Past(a.obj).first
                        ELSE IF al_primed THEN al_now ELSE 0,
              last  |-> IF a.alive THEN al_now
                        ELSE IF a.obj \in AlertsC!Known
                             THEN AlertsC!Larger(a.wakeup, AlertsC!Past(a.obj).last)
                             ELSE a.wakeup,
              alive |-> a.alive]
           old == {s \in al_seen : ~\E a \in list : a.obj = s.obj}
<1>1. AlertsC!ObserveObjects(list, al_now) = old \union {Seen(a) : a \in list}
  BY DEF AlertsC!ObserveObjects
<1>2. \A a \in list : Seen(a) \in AlLife /\ Seen(a).first <= al_now /\ Seen(a).last <= al_now
  <2> SUFFICES ASSUME NEW a \in list
               PROVE  Seen(a) \in AlLife /\ Seen(a).first <= al_now /\ Seen(a).last <= al_now
    OBVIOUS
  <2>1. a \in AlEntry /\ a.wakeup <= al_now
    OBVIOUS
  <2>2. a.obj \in AlertsC!Known => AlertsC!Past(a.obj) \in al_seen
    BY DEF AlertsC!Known, AlertsC!Past
  <2>3. a.obj \in AlertsC!Known =>
          /\ AlertsC!Past(a.obj).first \in Nat /\ AlertsC!Past(a.obj).first <= al_now
          /\ AlertsC!Past(a.obj).last \in Nat /\ AlertsC!Past(a.obj).last <= al_now
    BY <2>2 DEF AlLives, AlLife
  <2> DEFINE f == IF a.obj \in AlertsC!Known THEN AlertsC!Past(a.obj).first
                  ELSE IF al_primed THEN al_now ELSE 0
             l == IF a.alive THEN al_now
                  ELSE IF a.obj \in AlertsC!Known
                       THEN AlertsC!Larger(a.wakeup, AlertsC!Past(a.obj).last)
                       ELSE a.wakeup
  <2>4. f \in Nat /\ f <= al_now
    BY <2>3
  <2>5. l \in Nat /\ l <= al_now
    BY <2>1, <2>3 DEF AlertsC!Larger, AlEntry
  <2>6. Seen(a) = [obj |-> a.obj, first |-> f, last |-> l, alive |-> a.alive]
    OBVIOUS
  <2> HIDE DEF f, l, Seen
  <2> QED BY <2>1, <2>4, <2>5, <2>6 DEF AlLife, AlEntry
<1>3. \A a \in list : Seen(a).obj = a.obj
  OBVIOUS
<1> HIDE DEF Seen
<1>4. AlertsC!ObserveObjects(list, al_now) \subseteq AlLife
      /\ \A x \in AlertsC!ObserveObjects(list, al_now) : x.first <= al_now /\ x.last <= al_now
  BY <1>1, <1>2 DEF AlLives
<1>5. OneOfObj(AlertsC!ObserveObjects(list, al_now))
  <2> SUFFICES ASSUME NEW x \in old \union {Seen(a) : a \in list},
                      NEW y \in old \union {Seen(a) : a \in list}, x.obj = y.obj
               PROVE  x = y
    BY <1>1 DEF OneOfObj
  <2>1. CASE x \in old /\ y \in old
    BY <2>1 DEF AlLives, OneOfObj
  <2>2. CASE x \in old /\ \E a \in list : y = Seen(a)
    BY <1>3, <2>2
  <2>3. CASE y \in old /\ \E a \in list : x = Seen(a)
    BY <1>3, <2>3
  <2>4. CASE (\E a \in list : x = Seen(a)) /\ \E a \in list : y = Seen(a)
    BY <1>3, <2>4 DEF OneOfObj
  <2> QED BY <2>1, <2>2, <2>3, <2>4
<1>6. \A s \in al_seen : \E r \in AlertsC!ObserveObjects(list, al_now) : r.obj = s.obj
  <2> SUFFICES ASSUME NEW s \in al_seen
               PROVE  \E r \in AlertsC!ObserveObjects(list, al_now) : r.obj = s.obj
    OBVIOUS
  <2>1. CASE s \in old
    BY <1>1, <2>1
  <2>2. CASE \E a \in list : a.obj = s.obj
    BY <1>1, <1>3, <2>2
  <2> QED BY <2>1, <2>2
<1> QED BY <1>4, <1>5, <1>6 DEF AlLives

LEMMA MergedIs ==
  ASSUME al_shown \subseteq AlEntry, OneOfObj(al_shown),
         NEW list \in SUBSET AlEntry, OneOfObj(list), NEW t
  PROVE  /\ AlertsC!MergeObjects(list, t) \subseteq AlEntry
         /\ OneOfObj(AlertsC!MergeObjects(list, t))
<1> DEFINE Dead(x) == [x EXCEPT !.alive = FALSE]
           left == {x \in al_shown : /\ ~\E a \in list : a.obj = x.obj
                                  /\ t - (IF x.wakeup > 0 THEN x.wakeup ELSE t) <= AlKeep}
<1>1. AlertsC!MergeObjects(list, t) = list \union {Dead(x) : x \in left}
  BY DEF AlertsC!MergeObjects
<1>2. \A x \in left : /\ Dead(x) \in AlEntry /\ Dead(x).obj = x.obj /\ x \in al_shown
                      /\ ~\E a \in list : a.obj = x.obj
  BY Zenon DEF AlEntry
<1> HIDE DEF left, Dead
<1>3. \A x, y \in left : x.obj = y.obj => x = y
  BY <1>2 DEF OneOfObj
<1> QED BY <1>1, <1>2, <1>3 DEF OneOfObj

LEMMA RestoredIs ==
  ASSUME AlLives(al_seen), AlLives(al_file)
  PROVE  /\ AlLives(AlertsC!RestoreObjectHistory)
         /\ \A s \in al_file : \E r \in AlertsC!RestoreObjectHistory : r.obj = s.obj
<1> DEFINE Dead(x) == [x EXCEPT !.alive = FALSE]
           new == {x \in al_file : x.obj \notin AlertsC!Known}
<1>1. AlertsC!RestoreObjectHistory = al_seen \union {Dead(x) : x \in new}
  BY DEF AlertsC!RestoreObjectHistory
<1>2. \A x \in new : /\ Dead(x) \in AlLife /\ Dead(x).obj = x.obj
                     /\ Dead(x).first <= al_now /\ Dead(x).last <= al_now
                     /\ x \in al_file /\ ~\E s \in al_seen : s.obj = x.obj
  BY Zenon DEF AlLives, AlLife, AlertsC!Known
<1>3. \A x \in al_file : x \in new \/ \E s \in al_seen : s.obj = x.obj
  BY DEF AlertsC!Known
<1> HIDE DEF new, Dead
<1>4. \A x, y \in new : x.obj = y.obj => x = y
  BY <1>2 DEF AlLives, OneOfObj
<1>5. OneOfObj(AlertsC!RestoreObjectHistory)
  BY <1>1, <1>2, <1>4 DEF AlLives, OneOfObj
<1>6. \A s \in al_file : \E r \in AlertsC!RestoreObjectHistory : r.obj = s.obj
  BY <1>1, <1>2, <1>3
<1>7. /\ AlertsC!RestoreObjectHistory \subseteq AlLife
      /\ \A x \in AlertsC!RestoreObjectHistory : x.first <= al_now /\ x.last <= al_now
  BY <1>1, <1>2 DEF AlLives
<1> QED BY <1>5, <1>6, <1>7 DEF AlLives

----------------------------------------------------------------------------
LEMMA RingIs ==
  ASSUME AlServerInv, AlBellInv, NEW o \in AlObjs, NEW down \in BOOLEAN, AlertsC!Ring(o, down)
  PROVE  AlBellInv'
<1>1. CASE ~al_connected
  BY <1>1 DEF AlertsC!Ring, AlBellInv
<1>2. CASE al_connected
  <2> DEFINE a == [obj |-> o, down |-> down, time |-> al_now]
             all == <<a>> \o al_alerts
             n == IF Len(al_alerts) < AlMaxAlerts THEN Len(al_alerts) + 1 ELSE AlMaxAlerts
  <2>1. a \in AlBell
    BY DEF AlBell, AlServerInv
  <2>2. al_alerts' = SubSeq(all, 1, n)
    BY <1>2, Zenon DEF AlertsC!Ring
  <2> HIDE DEF a
  <2>3. <<a>> \in Seq(AlBell) /\ Len(<<a>>) = 1 /\ al_alerts \in Seq(AlBell)
    BY <2>1 DEF AlBellInv
  <2>4. all \in Seq(AlBell) /\ Len(all) = 1 + Len(al_alerts)
    <3>1. all \in Seq(AlBell) /\ Len(all) = Len(<<a>>) + Len(al_alerts)
      BY <2>3, ConcatProperties, Zenon
    <3> QED BY <2>3, <3>1
  <2>5. Len(al_alerts) \in Nat /\ Len(al_alerts) <= AlMaxAlerts
    BY <2>3, LenProperties DEF AlBellInv
  <2>6. n \in Nat /\ n <= AlMaxAlerts /\ n <= Len(all)
    BY <2>4, <2>5, WindowDataAssumption
  <2> HIDE DEF all, n
  <2>7. \A i \in 1 .. n : all[i] \in AlBell
    BY <2>4, <2>6
  <2>8. SubSeq(all, 1, n) \in Seq(AlBell) /\ Len(SubSeq(all, 1, n)) = n
    BY <2>4, <2>6, <2>7, SubSeqProperties
  <2> QED BY <2>2, <2>6, <2>8 DEF AlBellInv
<1> QED BY <1>1, <1>2

LEMMA AlInvInit == AlertsC!Init => AlInv
<1> SUFFICES ASSUME AlertsC!Init PROVE AlInv
  OBVIOUS
<1>1. AlServerInv
  BY DEF AlertsC!Init, AlServerInv, OneOfObj
<1>2. AlLives(al_seen) /\ AlLives(al_file)
  <2> DEFINE all == {[obj |-> o, first |-> 0, last |-> 0, alive |-> TRUE] : o \in AlObjs}
  <2>1. al_now = 1 /\ al_seen = {} /\ al_file \in {{}, all}
    BY DEF AlertsC!Init
  <2> DEFINE Old(o) == [obj |-> o, first |-> 0, last |-> 0, alive |-> TRUE]
  <2>a. \A o \in AlObjs : /\ Old(o) \in AlLife /\ Old(o).obj = o
                        /\ Old(o).first = 0 /\ Old(o).last = 0
    BY DEF AlLife
  <2>b. all = {Old(o) : o \in AlObjs}
    OBVIOUS
  <2> HIDE DEF Old, all
  <2>2. \A x \in all : x \in AlLife /\ x.first <= 1 /\ x.last <= 1
    BY <2>a, <2>b
  <2>3. \A x, y \in all : x.obj = y.obj => x = y
    BY <2>a, <2>b
  <2> QED BY <2>1, <2>2, <2>3 DEF AlLives, OneOfObj
<1>3. AlPastInv
  BY <1>2, Zenon DEF AlertsC!Init, AlPastInv, OneOfObj
<1>4. AlBellInv
  BY WindowDataAssumption DEF AlertsC!Init, AlBellInv
<1> QED BY <1>1, <1>3, <1>4 DEF AlInv

LEMMA AlInvNext == AlInv /\ AlertsC!Next => AlInv' /\ AlertsC!FileStep
<1> SUFFICES ASSUME AlInv, AlertsC!Next
             PROVE  AlInv' /\ AlertsC!FileStep
  OBVIOUS
<1>0. AlServerInv /\ AlPastInv /\ AlBellInv
  BY DEF AlInv
<1>f. al_file' = al_file => AlertsC!FileStep
  BY DEF AlertsC!FileStep
<1>p. ASSUME UNCHANGED <<al_now, AlertsC!past, al_connected, al_reading, al_readFailed>>
      PROVE  AlPastInv' /\ AlertsC!FileStep
  <2>1. AlPastInv'
    BY <1>0, <1>p DEF AlPastInv, AlLives, OneOfObj, AlertsC!past
  <2> QED BY <1>f, <1>p, <2>1 DEF AlertsC!past
<1>s. ASSUME UNCHANGED <<al_now, AlertsC!server, al_epoch>>, al_asks' \subseteq al_asks
      PROVE  AlServerInv'
  BY <1>0, <1>s DEF AlServerInv, AlertsC!server, OneOfObj
<1>b. ASSUME UNCHANGED al_alerts
      PROVE  AlBellInv'
  BY <1>0, <1>b DEF AlBellInv
<1>1. ASSUME AlertsC!Tick
      PROVE  AlInv' /\ AlertsC!FileStep
  <2>1. al_now' \in Nat /\ al_now <= al_now'
    BY <1>0, <1>1 DEF AlertsC!Tick, AlServerInv
  <2>2. al_beat' \in [AlObjs -> Nat] /\ \A o \in AlObjs : al_beat'[o] <= al_now'
    BY <1>0, <1>1, <2>1 DEF AlertsC!Tick, AlServerInv
  <2>3. \A a \in al_asks : \A x \in a.list : x.wakeup <= al_now'
    <3> SUFFICES ASSUME NEW a \in al_asks, NEW x \in a.list
                 PROVE  x.wakeup <= al_now'
      OBVIOUS
    <3>1. x \in AlEntry /\ x.wakeup <= al_now /\ al_now \in Nat
      BY <1>0 DEF AlServerInv
    <3> QED BY <2>1, <3>1 DEF AlEntry
  <2>4. AlServerInv'
    BY <1>0, <1>1, <2>1, <2>2, <2>3 DEF AlertsC!Tick, AlServerInv, OneOfObj, AlertsC!link
  <2>5. \A xs : AlLives(xs) => xs \subseteq AlLife /\ OneOfObj(xs)
                              /\ \A x \in xs : x.first <= al_now' /\ x.last <= al_now'
    <3> SUFFICES ASSUME NEW xs, AlLives(xs)
                 PROVE  \A x \in xs : x.first <= al_now' /\ x.last <= al_now'
      BY DEF AlLives
    <3> SUFFICES ASSUME NEW x \in xs
                 PROVE  x.first <= al_now' /\ x.last <= al_now'
      OBVIOUS
    <3>1. x \in AlLife /\ x.first <= al_now /\ x.last <= al_now /\ al_now \in Nat
      BY <1>0 DEF AlLives, AlServerInv
    <3> QED BY <2>1, <3>1 DEF AlLife
  <2>6. AlPastInv'
    BY <1>0, <1>1, <2>5 DEF AlertsC!Tick, AlPastInv, AlLives, OneOfObj, AlertsC!link, AlertsC!past
  <2> QED BY <1>1, <1>b, <1>f, <2>4, <2>6 DEF AlInv, AlertsC!Tick, AlertsC!past, AlertsC!bell
<1>2. ASSUME NEW o \in AlObjs, AlertsC!Starts(o)
      PROVE  AlInv' /\ AlertsC!FileStep
  <2>1. AlServerInv'
    BY <1>0, <1>2 DEF AlertsC!Starts, AlServerInv, OneOfObj, AlertsC!link
  <2>2. AlBellInv'
    BY <1>0, <1>2, RingIs, Zenon DEF AlertsC!Starts
  <2> QED BY <1>2, <1>p, <2>1, <2>2 DEF AlInv, AlertsC!Starts, AlertsC!link
<1>3. ASSUME NEW o \in AlObjs, AlertsC!Dies(o)
      PROVE  AlInv' /\ AlertsC!FileStep
  <2>1. AlServerInv'
    BY <1>0, <1>3 DEF AlertsC!Dies, AlServerInv, OneOfObj, AlertsC!link
  <2>2. AlBellInv'
    BY <1>0, <1>3, RingIs, Zenon DEF AlertsC!Dies
  <2> QED BY <1>3, <1>p, <2>1, <2>2 DEF AlInv, AlertsC!Dies, AlertsC!link
<1>4. ASSUME NEW o \in AlObjs, AlertsC!Forgets(o)
      PROVE  AlInv' /\ AlertsC!FileStep
  <2>1. AlServerInv'
    BY <1>0, <1>4 DEF AlertsC!Forgets, AlServerInv, OneOfObj, AlertsC!link
  <2> QED BY <1>4, <1>b, <1>p, <2>1 DEF AlInv, AlertsC!Forgets, AlertsC!link, AlertsC!bell
<1>5. ASSUME AlertsC!Connect
      PROVE  AlInv' /\ AlertsC!FileStep
  <2>1. AlServerInv'
    BY <1>0, <1>5 DEF AlertsC!Connect, AlServerInv, OneOfObj, AlertsC!server
  <2>2. AlPastInv'
    BY <1>0, <1>5 DEF AlertsC!Connect, AlPastInv, AlLives, OneOfObj, AlertsC!past
  <2> QED BY <1>5, <1>b, <1>f, <2>1, <2>2 DEF AlInv, AlertsC!Connect, AlertsC!past, AlertsC!bell
<1>6. ASSUME AlertsC!Disconnect
      PROVE  AlInv' /\ AlertsC!FileStep
  <2>1. AlServerInv'
    BY <1>6, <1>s DEF AlertsC!Disconnect
  <2>2. AlLives(al_file)'
    BY <1>0, <1>6 DEF AlertsC!Disconnect, AlPastInv, AlLives, OneOfObj
  <2>3. AlLives({})'
    BY DEF AlLives, OneOfObj
  <2>4. AlPastInv'
    BY <1>6, <2>2, <2>3, Zenon DEF AlertsC!Disconnect, AlPastInv, OneOfObj, AlLives
  <2> QED BY <1>6, <1>b, <1>f, <2>1, <2>4 DEF AlInv, AlertsC!Disconnect, AlertsC!bell
<1>7. ASSUME AlertsC!HistoryRead
      PROVE  AlInv' /\ AlertsC!FileStep
  <2>1. AlServerInv'
    BY <1>7, <1>s DEF AlertsC!HistoryRead
  <2>2. /\ al_now' = al_now /\ al_file' = al_file /\ al_shown' = al_shown
        /\ al_primed' = al_primed /\ al_reading' = FALSE /\ al_connected' = al_connected
        /\ \/ al_seen' = AlertsC!RestoreObjectHistory
           \/ al_seen' = al_seen /\ al_readFailed' = TRUE
    BY <1>7 DEF AlertsC!HistoryRead
  <2>3. AlLives(al_seen') /\ AlLives(al_file) /\ OneOfObj(al_shown)
    BY <1>0, <2>2, RestoredIs DEF AlPastInv
  <2>4. ~al_readFailed' => \A s \in al_file : \E r \in al_seen' : r.obj = s.obj
    BY <1>0, <2>2, RestoredIs DEF AlPastInv
  <2>5. AlPastInv'
    BY <1>0, <2>2, <2>3, <2>4 DEF AlPastInv, AlLives, OneOfObj
  <2> QED BY <1>7, <1>b, <1>f, <2>1, <2>2, <2>5 DEF AlInv, AlertsC!HistoryRead, AlertsC!bell
<1>8. ASSUME AlertsC!AskList
      PROVE  AlInv' /\ AlertsC!FileStep
  <2> DEFINE list == {[obj |-> o, alive |-> o \in al_up, wakeup |-> al_beat[o]] : o \in al_listed}
  <2>1. list \subseteq AlEntry /\ OneOfObj(list) /\ \A x \in list : x.wakeup <= al_now
    <3>1. \A o \in al_listed :
            /\ [obj |-> o, alive |-> o \in al_up, wakeup |-> al_beat[o]] \in AlEntry
            /\ al_beat[o] <= al_now
      BY <1>0 DEF AlServerInv, AlEntry
    <3>2. list \subseteq AlEntry /\ \A x \in list : x.wakeup <= al_now
      BY <3>1
    <3>3. \A x, y \in list : x.obj = y.obj => x = y
      OBVIOUS
    <3> HIDE DEF list
    <3> QED BY <3>2, <3>3 DEF OneOfObj
  <2>2. al_asks' = al_asks \union {[epoch |-> al_epoch, list |-> list]}
    BY <1>8 DEF AlertsC!AskList
  <2> HIDE DEF list
  <2>3. al_asks' \subseteq [epoch : Nat, list : SUBSET AlEntry]
        /\ \A a \in al_asks' : OneOfObj(a.list) /\ \A x \in a.list : x.wakeup <= al_now
    BY <1>0, <2>1, <2>2 DEF AlServerInv
  <2>4. AlServerInv'
    BY <1>0, <1>8, <2>3 DEF AlertsC!AskList, AlServerInv, OneOfObj, AlertsC!server
  <2> QED BY <1>8, <1>b, <1>p, <2>4 DEF AlInv, AlertsC!AskList, AlertsC!bell
<1>9. ASSUME NEW a \in al_asks, AlertsC!ListArrives(a)
      PROVE  AlInv' /\ AlertsC!FileStep
  <2>1. AlServerInv'
    BY <1>9, <1>s DEF AlertsC!ListArrives
  <2>2. CASE a.epoch = al_epoch /\ al_connected
    <3>1. /\ ~al_reading /\ al_connected
          /\ al_shown' = AlertsC!MergeObjects(a.list, al_now)
          /\ al_seen' = AlertsC!ObserveObjects(a.list, al_now)
          /\ al_primed' = TRUE
          /\ al_file' \in {al_file, al_seen'}
          /\ UNCHANGED <<al_now, al_connected, al_reading, al_readFailed, al_alerts>>
      BY <1>9, <2>2 DEF AlertsC!ListArrives, AlertsC!PersistableHistory, AlertsC!bell
    <3>2. /\ al_now \in Nat /\ AlLives(al_seen) /\ AlLives(al_file)
          /\ a.list \in SUBSET AlEntry /\ OneOfObj(a.list) /\ \A x \in a.list : x.wakeup <= al_now
          /\ al_shown \subseteq AlEntry /\ OneOfObj(al_shown)
      BY <1>0 DEF AlServerInv, AlPastInv
    <3>3. AlLives(al_seen') /\ \A s \in al_seen : \E r \in al_seen' : r.obj = s.obj
      BY <3>1, <3>2, ObservedIs
    <3>4. al_shown' \subseteq AlEntry /\ OneOfObj(al_shown')
      BY <3>1, <3>2, MergedIs
    <3>5. ~al_readFailed => \A s \in al_file : \E r \in al_seen' : r.obj = s.obj
      BY <1>0, <3>1, <3>3 DEF AlPastInv
    <3>6. AlLives(al_file')
      BY <3>1, <3>2, <3>3
    <3>7. ~al_readFailed => \A s \in al_file' : \E r \in al_seen' : r.obj = s.obj
      BY <3>1, <3>5
    <3>8. AlPastInv'
      BY <3>1, <3>3, <3>4, <3>6, <3>7 DEF AlPastInv, AlLives, OneOfObj
    <3>9. AlertsC!FileStep
      BY <3>1, <3>5 DEF AlertsC!FileStep
    <3> QED BY <1>b, <2>1, <3>1, <3>8, <3>9 DEF AlInv
  <2>3. CASE ~(a.epoch = al_epoch /\ al_connected)
    BY <1>9, <1>b, <1>p, <2>1, <2>3 DEF AlInv, AlertsC!ListArrives, AlertsC!bell
  <2> QED BY <2>2, <2>3
<1>10. ASSUME NEW a \in al_asks, AlertsC!ListFails(a)
       PROVE  AlInv' /\ AlertsC!FileStep
  <2>1. AlServerInv'
    BY <1>10, <1>s DEF AlertsC!ListFails
  <2> QED BY <1>10, <1>b, <1>p, <2>1 DEF AlInv, AlertsC!ListFails, AlertsC!bell
<1>11. ASSUME AlertsC!OpenTab
       PROVE  AlInv' /\ AlertsC!FileStep
  <2>1. AlServerInv'
    BY <1>11, <1>s DEF AlertsC!OpenTab, AlertsC!link
  <2> QED BY <1>11, <1>b, <1>p, <2>1 DEF AlInv, AlertsC!OpenTab, AlertsC!link
<1>12. ASSUME AlertsC!Clear
       PROVE  AlInv' /\ AlertsC!FileStep
  <2>1. AlServerInv'
    BY <1>12, <1>s DEF AlertsC!Clear, AlertsC!link
  <2>2. AlBellInv'
    BY <1>12, WindowDataAssumption DEF AlertsC!Clear, AlBellInv
  <2> QED BY <1>12, <1>p, <2>1, <2>2 DEF AlInv, AlertsC!Clear, AlertsC!link
<1> QED
  BY <1>1, <1>2, <1>3, <1>4, <1>5, <1>6, <1>7, <1>8, <1>9, <1>10, <1>11,
     <1>12 DEF AlertsC!Next

\* A step of the window that changes nothing of it.
LEMMA AlRests ==
  ASSUME AlInv, UNCHANGED AlertsVars
  PROVE  AlInv' /\ AlertsC!FileStep
<1>1. AlServerInv'
  BY DEF AlInv, AlServerInv, OneOfObj, AlertsVars
<1>2. AlPastInv'
  BY DEF AlInv, AlPastInv, AlLives, OneOfObj, AlertsVars
<1>3. AlBellInv'
  BY DEF AlInv, AlBellInv, AlertsVars
<1>4. AlertsC!FileStep
  BY DEF AlertsC!FileStep, AlertsVars
<1> QED BY <1>1, <1>2, <1>3, <1>4 DEF AlInv

\* A service of which every known object is dead and rang is not taken for a
\* deployment, and the history file loses no object unless it could not be read.
THEOREM LossesRing == Spec => AlertsTrue
<1>1. Init => (which = "Alerts" => AlInv)
  BY AlInvInit DEF Init
<1>2. (which = "Alerts" => AlInv) /\ [Next]_allVars
        => (which = "Alerts" => AlInv)'
  <2> SUFFICES ASSUME which = "Alerts" => AlInv, [Next]_allVars,
                      (which = "Alerts")'
               PROVE  AlInv'
    OBVIOUS
  <2>1. CASE Next
    BY <2>1, ListTurns, AlInvNext
  <2>2. CASE UNCHANGED allVars
    BY <2>2, AlRests DEF allVars
  <2> QED BY <2>1, <2>2
<1>3. (which = "Alerts" => AlInv)
        => (which = "Alerts" => AlertsC!TypeOK /\ AlertsC!LossIsLoud)
  BY AlInvSays
<1>4. (which = "Alerts" => AlInv) /\ [Next]_allVars
        => [which = "Alerts" => AlertsC!FileStep]_allVars
  BY ListTurns, AlInvNext DEF allVars
<1> QED BY <1>1, <1>2, <1>3, <1>4, PTL DEF Spec, AlertsTrue
=============================================================================
