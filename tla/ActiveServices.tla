--------------------------- MODULE ActiveServices ---------------------------
(***************************************************************************)
(* The screen of running transactions: useActiveServices.ts polls the      *)
(* servers, activeModel.ts carries over what a poll did not reach and      *)
(* keeps how long a transaction has held its resource, flowModel.ts moves  *)
(* the dots of the flow chart, ActiveTab.tsx chooses what is shown.        *)
(*                                                                         *)
(* A poll is one query per type, answered while the clock goes on; it may  *)
(* find no connection to an object (`incomplete`), an object may not       *)
(* answer, and the agent's snapshot may miss a transaction that runs.      *)
(* One tick is a period of the poll.                                       *)
(***************************************************************************)
EXTENDS Naturals, FiniteSets

CONSTANTS Objs,         \* the servers chosen (`expected`)
          Txs,          \* transactions that may run
          Resources,    \* what one holds: a query, an outer call, its own code
          Carry,        \* CARRY_MS in ticks
          Window,       \* rowCarryMs in ticks
          MaxTime,      \* bound on the clock
          MaxEpoch      \* bound on the connections

VARIABLES now,
          running,      \* on the servers: {[obj, tx, res, long]}
          epoch,        \* connectionEpoch
          enabled,      \* the tab is open and connected
          asks,         \* polls under way: [epoch, alive, snap]
          busy,         \* of the poll effect that runs now
          rows, missed, stale, carriedRows, at,   \* what the hook gives
          lastRows,     \* [Objs -> [rows, at]] of the last answer of each
          lastSeen,     \* {[row, at]}
          holds,        \* {[tx, res, since]}
          tracks,       \* dots: {[key, phase]}
          returned      \* history: {[key, at]}, when the servers last returned it

feed == <<rows, missed, stale, carriedRows, at, lastRows, lastSeen, holds>>
vars == <<now, running, epoch, enabled, asks, busy, feed, tracks, returned>>

Never   == MaxTime + 1              \* at = null
NoRows  == [o \in Objs |-> [rows |-> {}, at |-> 0]]
RowKey(r) == <<r.obj, r.tx>>
Keys(rs)  == {RowKey(r) : r \in rs}
Late(a)   == [a EXCEPT !.alive = FALSE]

----------------------------------------------------------------------------
\* activeModel.ts.  An object whose list could not be had is "empty"; one that
\* is expected and did not answer is "silent".
Missed(snap) ==
  {o \in Objs : snap[o].kind \in {"empty", "silent"}}

CarryUnreached(snap, t) ==
  LET miss == Missed(snap)
      fresh == UNION {snap[o].rows : o \in Objs \ miss}
      olds == {o \in miss : lastRows[o].rows # {} /\ t - lastRows[o].at <= Carry}
      shown == fresh \union UNION {lastRows[o].rows : o \in olds}
      kept == {s \in lastSeen : /\ RowKey(s.row) \notin Keys(shown)
                                /\ s.row.obj \notin miss
                                /\ t - s.at <= Window
                                /\ s.row.long}
  IN  [rows  |-> shown \union {s.row : s \in kept},
       missed |-> miss,
       stale |-> olds,
       carriedRows |-> {RowKey(s.row) : s \in kept},
       lastRows |-> [o \in Objs |->
                       IF o \notin miss THEN [rows |-> snap[o].rows, at |-> t]
                       ELSE IF o \in olds THEN lastRows[o] ELSE NoRows[o]],
       lastSeen |-> {[row |-> r, at |-> t] : r \in shown} \union kept]

\* Mutant: the clock of a held resource starts anew at each list.
AdvanceHolds_Anew(rs, t) ==
  {LET was == {h \in holds : h.tx = r.tx /\ h.res = r.res}
   IN  [tx |-> r.tx, res |-> r.res, since |-> t] : r \in rs}

\* How long a transaction has been on its resource: kept while it stays.
AdvanceHolds(rs, t) ==
  {LET was == {h \in holds : h.tx = r.tx /\ h.res = r.res}
   IN  IF was # {} THEN CHOOSE h \in was : TRUE
       ELSE [tx |-> r.tx, res |-> r.res, since |-> t] : r \in rs}

\* flowModel.ts: a row that comes enters, one that goes leaves; one that comes
\* back while leaving enters again.  `live` are the rows of no stale server.
AdvanceTracks(live) ==
  {[key |-> k, phase |-> IF \E d \in tracks : d.key = k /\ d.phase = "holding"
                         THEN "holding" ELSE "entering"] : k \in Keys(live)}
  \union {[d EXCEPT !.phase = "leaving"] : d \in {e \in tracks : e.key \notin Keys(live)}}

Settle ==
  /\ \E d \in tracks :
       tracks' = IF d.phase = "leaving" THEN tracks \ {d}
                 ELSE (tracks \ {d}) \union {[d EXCEPT !.phase = "holding"]}
  /\ tracks' # tracks
  /\ UNCHANGED <<now, running, epoch, enabled, asks, busy, feed, returned>>

----------------------------------------------------------------------------
\* The servers.
Begin(x) ==
  /\ ~\E r \in running : r.tx = x
  /\ \E o \in Objs, res \in Resources :
       running' = running \union {[obj |-> o, tx |-> x, res |-> res, long |-> FALSE]}
  /\ UNCHANGED <<now, epoch, enabled, asks, busy, feed, tracks, returned>>

\* It goes on to another resource, or ends.
Moves(r) ==
  /\ \/ running' = running \ {r}
     \/ \E res \in Resources \ {r.res} :
          running' = (running \ {r}) \union {[r EXCEPT !.res = res]}
  /\ UNCHANGED <<now, epoch, enabled, asks, busy, feed, tracks, returned>>

Tick ==
  /\ now < MaxTime
  /\ now' = now + 1
  /\ running' = {[r EXCEPT !.long = TRUE] : r \in running}
  /\ UNCHANGED <<epoch, enabled, asks, busy, feed, tracks, returned>>

\* What the collector may gather of an object: some of what runs there, or
\* nothing, for one of the two reasons.
Gathered(o) ==
  {[kind |-> "rows", rows |-> rs] : rs \in SUBSET {r \in running : r.obj = o}}
    \union {[kind |-> k, rows |-> {}] : k \in {"empty", "silent"}}

----------------------------------------------------------------------------
\* The poll: one at a time for an effect; setInterval, the effect's start and
\* the refresh button all begin it.
Poll ==
  /\ enabled /\ ~busy /\ Cardinality(asks) < 2
  /\ busy' = TRUE
  /\ asks' = asks \union {[epoch |-> epoch, alive |-> TRUE, snap |-> {}]}
  /\ UNCHANGED <<now, running, epoch, enabled, feed, tracks, returned>>

\* The servers of an earlier connection are others: their rows are those of
\* then, and none can be told from a row of now but by the connection.
Gather(a) ==
  /\ a.snap = {}
  /\ \E s \in {f \in [Objs -> UNION {Gathered(o) : o \in Objs}] :
                 \A o \in Objs : f[o] \in Gathered(o)} :
       asks' = (asks \ {a}) \union {[a EXCEPT !.snap = {s}]}
  /\ UNCHANGED <<now, running, epoch, enabled, busy, feed, tracks, returned>>

Arrive(a) ==
  /\ a.snap # {}
  /\ asks' = asks \ {a}
  /\ IF a.alive
     THEN LET snap == CHOOSE f \in a.snap : TRUE
              m == CarryUnreached(snap, now)
              back == UNION {snap[o].rows : o \in Objs}
          IN  /\ rows' = m.rows /\ missed' = m.missed /\ stale' = m.stale
              /\ carriedRows' = m.carriedRows
              /\ lastRows' = m.lastRows /\ lastSeen' = m.lastSeen
              /\ holds' = AdvanceHolds(m.rows, now)
              /\ at' = now
              /\ busy' = FALSE
              /\ tracks' = AdvanceTracks({r \in m.rows : r.obj \notin m.stale})
              /\ returned' = {s \in returned : s.key \notin Keys(back)}
                               \union {[key |-> k, at |-> now] : k \in Keys(back)}
     ELSE UNCHANGED <<feed, busy, tracks, returned>>
  /\ UNCHANGED <<now, running, epoch, enabled>>

PollFails(a) ==
  /\ asks' = asks \ {a}
  /\ busy' = (busy /\ ~a.alive)
  /\ UNCHANGED <<now, running, epoch, enabled, feed, tracks, returned>>

\* Mutant: the last rows survive the end of a connection.
Blank_KeepsLast ==
  /\ rows' = {} /\ missed' = {} /\ stale' = {} /\ carriedRows' = {} /\ at' = Never
  /\ UNCHANGED <<lastRows, lastSeen>> /\ holds' = {}
  /\ returned' = {}

Blank ==
  /\ rows' = {} /\ missed' = {} /\ stale' = {} /\ carriedRows' = {} /\ at' = Never
  /\ lastRows' = NoRows /\ lastSeen' = {} /\ holds' = {}
  /\ returned' = {}

\* The tab is left or the connection ends: the effect is cleaned up, and its
\* next run empties everything.
Disable ==
  /\ enabled
  /\ enabled' = FALSE
  /\ asks' = {Late(a) : a \in asks} /\ busy' = FALSE
  /\ Blank /\ tracks' = {}
  /\ UNCHANGED <<now, running, epoch>>

Enable ==
  /\ ~enabled
  /\ enabled' = TRUE
  /\ UNCHANGED <<now, running, epoch, asks, busy, feed, tracks, returned>>

\* The period or the types change: a new effect, and the carried state stays.
Rekey ==
  /\ enabled /\ asks # {}
  /\ asks' = {Late(a) : a \in asks} /\ busy' = FALSE
  /\ UNCHANGED <<now, running, epoch, enabled, feed, tracks, returned>>

\* The server is switched, in one render: connectionEpoch moves, the first
\* effect empties the feed, the flow chart is another one (key).
Switch ==
  /\ epoch < MaxEpoch
  /\ epoch' = epoch + 1
  /\ running' = {}
  /\ asks' = {Late(a) : a \in asks} /\ busy' = FALSE
  /\ Blank /\ tracks' = {}
  /\ UNCHANGED <<now, enabled>>

Init ==
  /\ now = 0 /\ running = {} /\ epoch = 0 /\ enabled = TRUE
  /\ asks = {} /\ busy = FALSE
  /\ rows = {} /\ missed = {} /\ stale = {} /\ carriedRows = {} /\ at = Never
  /\ lastRows = NoRows /\ lastSeen = {} /\ holds = {} /\ tracks = {}
  /\ returned = {}

Next ==
  \/ \E x \in Txs : Begin(x)
  \/ \E r \in running : Moves(r)
  \/ Tick \/ Poll \/ Disable \/ Enable \/ Rekey \/ Switch \/ Settle
  \/ \E a \in asks : Gather(a) \/ Arrive(a) \/ PollFails(a)

Spec == Init /\ [][Next]_vars
----------------------------------------------------------------------------
TypeOK ==
  /\ stale \subseteq missed /\ missed \subseteq Objs
  /\ carriedRows \subseteq Keys(rows)
  /\ \A k \in Keys(rows) : Cardinality({r \in rows : RowKey(r) = k}) = 1
  /\ \A d \in tracks : d.phase \in {"entering", "holding", "leaving"}

\* Every row on the screen was returned by its server over this connection, not
\* longer ago than the two carries together, and a row the last poll did not
\* return is shown as old, by its server or by itself (activeModel.ts:344-414).
RowsHonest == \A r \in rows :
  \E s \in returned : /\ s.key = RowKey(r)
                      /\ at - s.at <= Carry + Window
                      /\ s.at < at => \/ r.obj \in stale
                                      \/ RowKey(r) \in carriedRows

\* How long a row has held its resource never starts again while the row stays
\* on the screen with that resource, flickering and silent servers included.
HoldsStep ==
  \A h \in holds : (\E r \in rows' : r.tx = h.tx /\ r.res = h.res) => h \in holds'
HoldsStay == [][HoldsStep]_vars
============================================================================
