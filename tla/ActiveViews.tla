----------------------------- MODULE ActiveViews -----------------------------
(***************************************************************************)
(* What the screen of running transactions draws from its feed (see        *)
(* ActiveServices): the gauge, the groups by resource, the list, the chart *)
(* in which a dot enters, holds and leaves (FlowChart.tsx, flowModel.ts),  *)
(* the pools and the rate of transactions picked out of the counter stream *)
(* (usePoolCounters.ts, useTps.ts), which App.tsx asks for, and the dialog *)
(* of a query with its bind values (QueryDetailDialog.tsx).                *)
(*                                                                         *)
(* A row is [obj, tx, sql, api, age]; tx = "" is a row without txid.       *)
(* Pixels are left out: a dot is a row, its phase and its height.          *)
(***************************************************************************)
EXTENDS Integers, FiniteSets, Sequences, FiniteSetsExt, SequencesExt

CONSTANTS Feeds,      \* bound: [rows, stale] a poll may give
          Picks,      \* bound: selections of servers, none of them empty
          PoolOf,     \* [pool -> the server it belongs to], by their names
          Queries,    \* bound: words to find by, with ""
          Levels,     \* bound: values of a counter
          MinY,       \* MIN_Y_MS
          Nice,       \* the values of niceCeil
          Enter, Leave,   \* ENTER_MS, LEAVE_MS
          Step2, Step3,   \* STEP2_MS, STEP3_MS
          MaxTime, MaxEpoch, MaxMoves   \* bounds

VARIABLES now, epoch, moves,
          rows, stale, at,          \* the feed
          picked, query, group,     \* the choices of the user
          tracks, yMax, dots, running,   \* of FlowChart: dots are those drawn last
          detail, queryOf, bind, ask,    \* dialogs; the answer that is waited for
          stream,                   \* counterStreamRef and what was started: [epoch, hashes]
          counters                  \* {[hash, name, value, epoch]}

feed   == <<rows, stale, at>>
choice == <<picked, query, group>>
chart  == <<tracks, yMax, dots, running>>
dialog == <<detail, queryOf, bind, ask>>
taken  == <<stream, counters>>
vars   == <<now, epoch, moves, feed, choice, chart, dialog, taken>>

Never == -1                     \* at = null
NoRow == [obj |-> 0, tx |-> "", sql |-> "", api |-> "", age |-> 0]
NoBind == [kind |-> "none", of |-> NoRow]
All   == <<"all", "">>          \* group = null
User  == moves < MaxMoves /\ moves' = moves + 1

----------------------------------------------------------------------------
\* activeModel.ts.
StepOf(age) == IF age >= Step3 THEN 3 ELSE IF age >= Step2 THEN 2 ELSE 1
ResourceOf(r) == IF r.sql # "" THEN <<"sql", r.sql>>
                 ELSE IF r.api # "" THEN <<"api", r.api>> ELSE <<"cpu", "">>
MatchesRow(r, q) == q = "" \/ q \in {r.tx, r.sql, r.api}
RowKey(r) == <<r.obj, r.tx>>

Mine == {r \in rows : r.obj \in picked}
LiveOf(rs, old) == {r \in rs : r.obj \in picked \ old}
LiveNow == LiveOf(rows, stale)
StepCounts == [s \in 1..3 |-> Cardinality({r \in Mine : StepOf(r.age) = s})]
MaxElapsed(rs) == Max({0} \cup {r.age : r \in rs})
Group(key) == {r \in Mine : ResourceOf(r) = key}
\* groupByResource: the deepest first, the larger of two.
Groups == SetToSortSeq({ResourceOf(r) : r \in Mine},
            LAMBDA a, b : \/ MaxElapsed(Group(a)) > MaxElapsed(Group(b))
                          \/ /\ MaxElapsed(Group(a)) = MaxElapsed(Group(b))
                             /\ Cardinality(Group(a)) > Cardinality(Group(b)))
Shown == {r \in Mine : MatchesRow(r, query) /\ group \in {All, ResourceOf(r)}}

----------------------------------------------------------------------------
\* flowModel.ts.
ElapsedNow(d) == d.row.age + Max({0, now - d.polledAt})
\* Mutant: a dot that is leaving is taken for its row again.
AdvanceTracks_Revives(live, polled) ==
  LET was(r) == {d \in tracks : RowKey(d.row) = RowKey(r) }
      keys == {RowKey(r) : r \in live}
  IN  {IF was(r) # {} THEN [(CHOOSE d \in was(r) : TRUE) EXCEPT !.row = r, !.polledAt = polled]
       ELSE [row |-> r, phase |-> "entering", since |-> now, polledAt |-> polled] : r \in live}
      \cup {IF d.phase = "leaving" THEN d ELSE [d EXCEPT !.phase = "leaving", !.since = now] :
              d \in {e \in tracks : /\ RowKey(e.row) \notin keys
                                    /\ e.phase = "leaving" => now - e.since < Leave}}

AdvanceTracks(live, polled) ==
  LET was(r) == {d \in tracks : RowKey(d.row) = RowKey(r) /\ d.phase # "leaving"}
      keys == {RowKey(r) : r \in live}
  IN  {IF was(r) # {} THEN [(CHOOSE d \in was(r) : TRUE) EXCEPT !.row = r, !.polledAt = polled]
       ELSE [row |-> r, phase |-> "entering", since |-> now, polledAt |-> polled] : r \in live}
      \cup {IF d.phase = "leaving" THEN d ELSE [d EXCEPT !.phase = "leaving", !.since = now] :
              d \in {e \in tracks : /\ RowKey(e.row) \notin keys
                                    /\ e.phase = "leaving" => now - e.since < Leave}}
SettleTracks == {IF d.phase = "entering" /\ now - d.since >= Enter
                 THEN [d EXCEPT !.phase = "holding", !.since = now] ELSE d : d \in tracks}

NiceCeil(v) == Min({n \in Nice : n >= v})
\* Mutant: the axis does not grow.
NextYMax_OnlyShrinks(needed) ==
  LET want == Max({MinY, NiceCeil(needed)})
  IN  IF 2 * want <= yMax THEN want ELSE yMax

NextYMax(needed) ==
  LET want == Max({MinY, NiceCeil(needed)})
  IN  IF want > yMax \/ 2 * want <= yMax THEN want ELSE yMax

\* The loop that draws.
Frame ==
  LET ts == SettleTracks
      y == NextYMax(Max({0} \cup {ElapsedNow(d) : d \in ts}))
  IN  /\ tracks' = ts /\ yMax' = y
      /\ dots' = {[row |-> d.row, phase |-> d.phase, y |-> ElapsedNow(d), of |-> y] : d \in ts}
      /\ running' = Cardinality({d \in ts : d.phase # "leaving"})
      /\ <<tracks', yMax', dots', running'>> # chart
      /\ UNCHANGED <<now, epoch, moves, feed, choice, dialog, taken>>

\* The effect on the feed and on what of it is seen.
Flows(live, polled) ==
  tracks' = IF polled = Never THEN tracks ELSE AdvanceTracks(live, polled)

----------------------------------------------------------------------------
Tick == now < MaxTime /\ now' = now + 1
        /\ UNCHANGED <<epoch, moves, feed, choice, chart, dialog, taken>>

Polled(f) ==
  /\ User /\ rows' = f.rows /\ stale' = f.stale /\ at' = now
  /\ Flows(LiveOf(f.rows, f.stale), now)
  /\ UNCHANGED <<now, epoch, choice, yMax, dots, running, dialog, taken>>

\* App.tsx: the counters of the picked servers and of the pools below them are asked for,
\* once for each set of them and for each connection.
PoolHashes(ps) == {h \in DOMAIN PoolOf : PoolOf[h] \in ps}
Wanted(ps) == ps \cup PoolHashes(ps)
\* Mutant: the stream is kept when only the connection changed.
Streams_SameHashes(ps, e) ==
  stream' = IF stream.hashes = Wanted(ps) THEN stream
            ELSE [epoch |-> e, hashes |-> Wanted(ps)]

Streams(ps, e) ==
  stream' = IF stream.epoch = e /\ stream.hashes = Wanted(ps) THEN stream
            ELSE [epoch |-> e, hashes |-> Wanted(ps)]

Pick(ps) ==
  /\ User /\ picked' = ps /\ ps # picked
  /\ Flows({r \in rows : r.obj \in ps \ stale}, at) /\ Streams(ps, epoch)
  /\ UNCHANGED <<now, epoch, feed, query, group, yMax, dots, running, dialog, counters>>

\* Another server, in one render: the feed is emptied and the chart is another one.  The
\* stream of the old connection has ended; the dialogs and the counters stay.
Switch ==
  /\ epoch < MaxEpoch /\ epoch' = epoch + 1
  /\ rows' = {} /\ stale' = {} /\ at' = Never
  /\ tracks' = {} /\ yMax' = MinY /\ dots' = {} /\ running' = 0
  /\ Streams(picked, epoch')
  /\ UNCHANGED <<now, moves, choice, dialog, counters>>

CounterData(h, name, v) ==
  /\ User /\ stream.epoch = epoch /\ h \in stream.hashes
  /\ name \in (IF h \in DOMAIN PoolOf THEN {"active", "max"} ELSE {"TPS"})
  /\ counters' = {c \in counters : <<c.hash, c.name>> # <<h, name>>}
                 \cup {[hash |-> h, name |-> name, value |-> v, epoch |-> epoch]}
  /\ UNCHANGED <<now, epoch, feed, choice, chart, dialog, stream>>

----------------------------------------------------------------------------
\* A dialog covers the screen; a row without txid has none to show.
Free == queryOf = NoRow /\ detail.tx = ""
Type(q) == Free /\ User /\ query' = q /\ q # query
           /\ UNCHANGED <<now, epoch, feed, picked, group, chart, dialog, taken>>
OnSelect(key) == Free /\ User /\ group' = (IF group = key THEN All ELSE key) /\ group' # group
                 /\ UNCHANGED <<now, epoch, feed, picked, query, chart, dialog, taken>>
PickRow(r) == Free /\ User /\ r.tx # "" /\ detail' = r
              /\ UNCHANGED <<now, epoch, feed, choice, chart, queryOf, bind, ask, taken>>
\* pickNearest, of the dots drawn last: not of those that leave.
PickDot(d) == Free /\ User /\ d.phase # "leaving" /\ detail' = d.row
              /\ UNCHANGED <<now, epoch, feed, choice, chart, queryOf, bind, ask, taken>>
CloseDetail == detail # NoRow /\ detail' = NoRow
               /\ UNCHANGED <<now, epoch, moves, feed, choice, chart, queryOf, bind, ask, taken>>

\* The dialog of a statement asks what the thread binds just then.
PickQuery(r) ==
  /\ Free /\ User /\ ResourceOf(r)[1] # "cpu" /\ queryOf' = r
  /\ IF r.sql # "" /\ r.tx # "" THEN bind' = [kind |-> "loading", of |-> r] /\ ask' = r
     ELSE bind' = [kind |-> "gone", of |-> r] /\ UNCHANGED ask
  /\ UNCHANGED <<now, epoch, feed, choice, chart, detail, taken>>
\* The collector tells the thread as it finds it: another statement of the transaction is
\* "moved", none is "gone".  Closing the dialog drops the answer.
ThreadDetail(found) ==
  /\ ask # NoRow /\ ask' = NoRow
  /\ bind' = IF found = NoRow THEN [kind |-> "gone", of |-> ask]
             ELSE IF found.sql # ask.sql THEN [kind |-> "moved", of |-> ask]
             ELSE [kind |-> "ok", of |-> found]
  /\ UNCHANGED <<now, epoch, moves, feed, choice, chart, detail, queryOf, taken>>
AskFails ==
  /\ ask # NoRow /\ ask' = NoRow
  /\ bind' = [kind |-> "error", of |-> ask]
  /\ UNCHANGED <<now, epoch, moves, feed, choice, chart, detail, queryOf, taken>>
CloseQuery == /\ queryOf # NoRow /\ queryOf' = NoRow /\ bind' = NoBind /\ ask' = NoRow
              /\ UNCHANGED <<now, epoch, moves, feed, choice, chart, detail, taken>>
\* Those that hang on the same thing, of all that is picked.
Same == Group(ResourceOf(queryOf))
OpenStack(r) == /\ queryOf # NoRow /\ r \in Same /\ r.tx # ""
                /\ queryOf' = NoRow /\ bind' = NoBind /\ ask' = NoRow /\ detail' = r
                /\ UNCHANGED <<now, epoch, moves, feed, choice, chart, taken>>

----------------------------------------------------------------------------
\* poolModel.ts, useTps.ts: what the counters show.
Counter(h, name) == {c.value : c \in {x \in counters : x.hash = h /\ x.name = name}}
UsagePct(h) ==      \* -1 when it cannot be told
  IF Counter(h, "active") = {} \/ Counter(h, "max") = {} \/ Counter(h, "max") = {0} THEN -1
  ELSE Min({100, (100 * Max(Counter(h, "active"))) \div Max(Counter(h, "max"))})
PoolLevel(h) == IF UsagePct(h) < 0 THEN "unknown" ELSE IF UsagePct(h) >= 90 THEN "full"
                ELSE IF UsagePct(h) >= 70 THEN "warn" ELSE "ok"
BuildPools == SetToSortSeq(PoolHashes(picked), LAMBDA a, b : UsagePct(a) > UsagePct(b))
TpsOf == {c \in counters : c.name = "TPS"}
Tps == IF TpsOf = {} THEN Never
       ELSE MapThenSumSet(LAMBDA c : c.value, {c \in TpsOf : c.hash \in picked})

Init ==
  /\ now = 0 /\ epoch = 0 /\ moves = 0
  /\ rows = {} /\ stale = {} /\ at = Never
  /\ picked \in Picks /\ query = "" /\ group = All
  /\ tracks = {} /\ yMax = MinY /\ dots = {} /\ running = 0
  /\ detail = NoRow /\ queryOf = NoRow /\ bind = NoBind /\ ask = NoRow
  /\ stream = [epoch |-> 0, hashes |-> Wanted(picked)] /\ counters = {}

Next ==
  \/ Tick \/ Frame \/ Switch \/ CloseDetail \/ CloseQuery \/ AskFails
  \/ \E f \in Feeds : Polled(f)
  \/ \E ps \in Picks : Pick(ps)
  \/ \E h \in Wanted(picked), v \in Levels, name \in {"active", "max", "TPS"} : CounterData(h, name, v)
  \/ \E q \in Queries : Type(q)
  \/ \E key \in Range(Groups) \cup {All} : OnSelect(key)
  \/ \E r \in Shown : PickRow(r) \/ PickQuery(r)
  \/ \E d \in dots : PickDot(d)
  \/ \E r \in {NoRow} \cup {x \in UNION {f.rows : f \in Feeds} : x.tx = ask.tx} : ThreadDetail(r)
  \/ \E r \in rows : OpenStack(r)

Spec == Init /\ [][Next]_vars

----------------------------------------------------------------------------
(* The chart and the head of the screen tell of the same transactions as   *)
(* the list: the dots that do not leave are the rows of the picked servers *)
(* that were reached, each once, with its present figures; no dot that is  *)
(* drawn stands above the axis, and the axis is never far above them; the  *)
(* groups share the rows out; bind values are shown of the statement the   *)
(* dialog is of.  Selections, silent servers, rows that come back while    *)
(* they leave and late answers included.                                   *)
ScreenTrue ==
  LET staying == {d \in tracks : d.phase # "leaving"}
  IN  /\ at # Never => {d.row : d \in staying} = LiveNow
      /\ \A d, e \in tracks : RowKey(d.row) = RowKey(e.row) => d = e
      /\ \A d \in dots : d.y <= d.of
      /\ dots # {} => yMax <= Max({MinY, 5 * Max({d.y : d \in dots})})
      /\ MapThenSumSet(LAMBDA s : StepCounts[s], 1..3)
           = FoldFunction(+, 0, [key \in Range(Groups) |-> Cardinality(Group(key))])
      /\ Groups # <<>> => MaxElapsed(Group(Groups[1])) = MaxElapsed(Mine)
      /\ bind.kind = "ok" => bind.of.tx = queryOf.tx /\ bind.of.sql = queryOf.sql

(* The counters are asked for over the present connection and for what is  *)
(* picked, the pools below it included; the same names on another server   *)
(* have the same hashes, and are asked for again.                          *)
StreamFollows == stream = [epoch |-> epoch, hashes |-> Wanted(picked)]

(* Claimed by flowModel.ts: a dot that goes out to the right is done.  It  *)
(* also goes when its server was not reached and when the selection        *)
(* changes.                                                                *)
DoneMeansGone ==
  [][\A d \in tracks' : d.phase = "leaving" /\ (\E e \in tracks : e.row = d.row /\ e.phase # "leaving")
       => d.row \notin rows']_vars

(* Claimed by usePoolCounters.ts of old figures that seem present ones:    *)
(* what is shown of the pools came over this connection.                   *)
PoolsOfConnection == \A c \in counters : c.hash \in Wanted(picked) => c.epoch = epoch

(* The list says that nothing runs only when nothing does.  It also says   *)
(* so when the word or the group leaves nothing.                           *)
EmptyTells == at # Never /\ Shown = {} => Mine = {}
=============================================================================
