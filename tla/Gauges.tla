------------------------------- MODULE Gauges -------------------------------
(***************************************************************************)
(* One stream of counters, three readers.  The strip (useKpiSamples.ts)    *)
(* folds an update over the picked servers as it comes and keeps the       *)
(* folded values; the grid (useInstanceKpis.ts, instanceRows.ts) keeps the *)
(* last value of each picked server; a chart (CounterChart.tsx,            *)
(* counterSeries.ts) keeps the updates as they are and folds them when it  *)
(* draws.  Tiles and gauges grade what they show by thresholds (gauge.ts,  *)
(* threshold.ts).                                                          *)
(*                                                                         *)
(* A listener that is given up before it was registered is taken off when  *)
(* it is (subscribe.ts), and hears what comes until then.  An update is    *)
(* [kpi, vals], vals a function from servers to values.                    *)
(***************************************************************************)
EXTENDS Integers, Sequences, FiniteSets, FiniteSetsExt, Functions, Listing

CONSTANTS Objs, Values,   \* bounds: servers, values of a counter
          Kpis,           \* KPI_DEFS
          Averaged,       \* those of them that totalMode averages
          Capable,        \* those that isTotalCapable
          ServiceOf,      \* [Objs -> the service, or "" for one without]
          Thresholds,     \* [Kpis -> [warn, danger, on]]
          Nice,           \* the values of niceMax
          Cap,            \* MAX_COUNTER_SAMPLES
          Stale,          \* STALE_AFTER_MS
          MaxTime, MaxMoves   \* bounds

VARIABLES now, moves,
          enabled,        \* connected and on this screen
          visible,        \* the picked servers
          fold,           \* "each", "total" or "service": of the charts
          late,           \* selections of listeners given up and not yet taken off
          strip,          \* [Kpis -> [value, samples]]
          grid,           \* {[obj, kpi, value]}
          lastReceived,   \* of the strip; Never = null
          updates,        \* [Kpis -> what the chart keeps]
          sent,           \* history: {[obj, kpi, value]}, the last the stream sent
          crossed         \* history: a listener that was given up heard something
vars == <<now, moves, enabled, visible, fold, late, strip, grid, lastReceived, updates, sent, crossed>>

Never == -1
User  == moves < MaxMoves /\ moves' = moves + 1
NoStrip == [k \in Kpis |-> [value |-> Never, samples |-> <<>>]]
Updates == UNION {[os -> Values] : os \in SUBSET Objs}

----------------------------------------------------------------------------
\* aggregate: nothing to add up is no value.
Aggregate(kpi, f) ==
  IF DOMAIN f = {} THEN Never
  ELSE IF kpi \in Averaged THEN SumOf(f) \div Cardinality(DOMAIN f) ELSE SumOf(f)
Appended(s, v) == LET t == Append(s, v) IN IF Len(t) > Cap THEN Tail(t) ELSE t

\* useKpiSamples, for each listener that hears: a value that cannot be folded is thrown away.
StripHears(st, kpi, vals, picked) ==
  LET v == Aggregate(kpi, Restrict(vals, picked \cap DOMAIN vals))
  IN  IF v = Never THEN st
      ELSE [st EXCEPT ![kpi] = [value |-> v, samples |-> Appended(@.samples, v)]]
StripAfter(st, kpi, vals, hear) ==
  LET each == Enumerated(hear)
      upTo[n \in 0..Len(each)] == IF n = 0 THEN st ELSE StripHears(upTo[n - 1], kpi, vals, each[n])
  IN  upTo[Len(each)]
\* useInstanceKpis.
GridHears(g, kpi, vals, picked) ==
  LET of == picked \cap DOMAIN vals
  IN  {c \in g : c.kpi # kpi \/ c.obj \notin of} \cup {[obj |-> o, kpi |-> kpi, value |-> vals[o]] : o \in of}

\* A stream that has stopped may have one more update on its way, which only the
\* listeners that were given up hear.  (That of a chart, which no selection gives up,
\* is taken to be off in time.)
CounterData(kpi, vals) ==
  /\ User
  /\ enabled \/ late # {}
  /\ LET hear == (IF enabled THEN {visible} ELSE {}) \cup late
     IN  /\ strip' = StripAfter(strip, kpi, vals, hear)
         /\ grid' = GridHears(grid, kpi, vals, UNION hear)
  /\ updates' = IF enabled THEN [updates EXCEPT ![kpi] = Appended(@, vals)] ELSE updates
  /\ lastReceived' = now /\ crossed' = (crossed \/ late # {})
  /\ sent' = {s \in sent : s.kpi # kpi \/ s.obj \notin DOMAIN vals}
             \cup {[obj |-> o, kpi |-> kpi, value |-> vals[o]] : o \in DOMAIN vals}
  /\ UNCHANGED <<now, enabled, visible, fold, late>>

\* Mutant: the cells of the servers taken off stay.
Pick_KeepsGrid(ps) ==
  /\ User /\ ps # visible /\ visible' = ps
  /\ UNCHANGED grid
  /\ late' \in IF enabled THEN {late, late \cup {visible}} ELSE {late}
  /\ UNCHANGED <<now, enabled, fold, strip, lastReceived, updates, sent, crossed>>

\* The selection: cells of servers that are not in it go at once, the listeners are
\* others; the one given up may not have been registered yet.
Pick(ps) ==
  /\ User /\ ps # visible /\ visible' = ps
  /\ grid' = {c \in grid : c.obj \in ps}
  /\ late' \in IF enabled THEN {late, late \cup {visible}} ELSE {late}
  /\ UNCHANGED <<now, enabled, fold, strip, lastReceived, updates, sent, crossed>>
TakenOff(p) ==
  /\ late' = late \ {p}
  /\ UNCHANGED <<now, moves, enabled, visible, fold, strip, grid, lastReceived, updates, sent, crossed>>

\* Leaving the screen or the connection empties all three.
Disable ==
  /\ User /\ enabled /\ enabled' = FALSE
  /\ strip' = NoStrip /\ grid' = {} /\ lastReceived' = Never
  /\ updates' = [k \in Kpis |-> <<>>] /\ sent' = {} /\ crossed' = FALSE
  /\ late' \in {late, late \cup {visible}}
  /\ UNCHANGED <<now, visible, fold>>
Enable ==
  /\ ~enabled /\ enabled' = TRUE
  /\ UNCHANGED <<now, moves, visible, fold, late, strip, grid, lastReceived, updates, sent, crossed>>
Fold(f) ==
  /\ User /\ fold' = f /\ f # fold
  /\ UNCHANGED <<now, enabled, visible, late, strip, grid, lastReceived, updates, sent, crossed>>
Tick ==
  /\ now < MaxTime /\ now' = now + 1
  /\ UNCHANGED <<moves, enabled, visible, fold, late, strip, grid, lastReceived, updates, sent, crossed>>

----------------------------------------------------------------------------
\* KpiStrip, every other second.
Status == IF ~enabled THEN "idle" ELSE IF lastReceived = Never THEN "waiting"
          ELSE IF now - lastReceived > Stale THEN "stale" ELSE "live"

\* threshold.ts.
Grade(kpi, v) == LET th == Thresholds[kpi]
                 IN  IF ~th.on \/ v = Never THEN "none" ELSE IF v >= th.danger THEN "danger"
                     ELSE IF v >= th.warn THEN "warn" ELSE "ok"
Rank(g) == CASE g = "none" -> 0 [] g = "ok" -> 1 [] g = "warn" -> 2 [] g = "danger" -> 3

\* instanceRows.ts: the worst of a server, and among equals the one nearest to its
\* threshold (or farthest past it); a cell without threshold presses nothing.
Cells(o) == {c \in grid : c.obj = o}
Pressure(c) == LET th == Thresholds[c.kpi]      \* in hundredths; -1 when there is no threshold
               IN  IF ~th.on THEN -1 ELSE IF th.warn > 0 THEN (100 * c.value) \div th.warn ELSE 100 * c.value
Worse(c, d) == \/ Rank(Grade(c.kpi, c.value)) > Rank(Grade(d.kpi, d.value))
               \/ /\ Grade(c.kpi, c.value) = Grade(d.kpi, d.value) /\ Pressure(c) > Pressure(d)
WorstOf(o) == CHOOSE c \in Cells(o) : \A d \in Cells(o) : ~Worse(d, c)
GradeOf(o) == LET c == WorstOf(o) IN Grade(c.kpi, c.value)
BuildRows ==
  LET of == {c.obj : c \in grid}
  IN  SortedSet(of, {p \in of \X of : Rank(GradeOf(p[1])) > Rank(GradeOf(p[2]))})
CountByGrade(g) == Cardinality({o \in Range(BuildRows) : GradeOf(o) = g})

\* gauge.ts: the end of the scale, and the zones on it.
NiceMax(v) == IF v <= 0 THEN 1 ELSE Min({n \in Nice : n >= v})
\* Mutant: the scale ends at the threshold.
GaugeScale_Tight(kpi) ==
  LET th == Thresholds[kpi]
      peak == Max({0} \cup Range(strip[kpi].samples))
  IN  IF th.on THEN NiceMax(th.danger) ELSE IF peak <= 0 THEN Never ELSE NiceMax(peak)

GaugeScale(kpi) ==
  LET th == Thresholds[kpi]
      peak == Max({0} \cup Range(strip[kpi].samples))
  IN  IF th.on THEN NiceMax((3 * th.danger + 1) \div 2) ELSE IF peak <= 0 THEN Never ELSE NiceMax(peak)
Zone(kpi, at) == LET th == Thresholds[kpi]
                 IN  IF ~th.on THEN "none" ELSE IF th.danger <= at /\ th.danger < GaugeScale(kpi) THEN "danger"
                     ELSE IF th.warn <= at /\ th.warn < GaugeScale(kpi) THEN "warn" ELSE "ok"
Needle(kpi) == Min({strip[kpi].value, GaugeScale(kpi)})

\* counterSeries.ts: what a chart draws of its updates, by the present selection and fold;
\* a counter that has no total is drawn by server whatever is asked.
KeyOf(o, drawn) == CASE drawn = "total" -> <<"total", "">>
                     [] drawn = "service" /\ ServiceOf[o] # "" -> <<"service", ServiceOf[o]>>
                     [] OTHER -> <<"each", o>>
FoldSeries(kpi, vals) ==
  LET drawn == IF kpi \in Capable THEN fold ELSE "each"
      shown == DOMAIN vals \cap visible
      keys == {KeyOf(o, drawn) : o \in shown}
  IN  [k \in keys |-> Aggregate(kpi, Restrict(vals, {o \in shown : KeyOf(o, drawn) = k}))]
ShownObjectCount(kpi) == Cardinality(visible \cap UNION {DOMAIN u : u \in Range(updates[kpi])})

Init ==
  /\ now = 0 /\ moves = 0 /\ enabled = TRUE /\ visible = Objs /\ fold = "each" /\ late = {}
  /\ strip = NoStrip /\ grid = {} /\ lastReceived = Never
  /\ updates = [k \in Kpis |-> <<>>] /\ sent = {} /\ crossed = FALSE

Next ==
  \/ \E k \in Kpis, vals \in Updates : CounterData(k, vals)
  \/ \E ps \in SUBSET Objs \ {{}} : Pick(ps)
  \/ \E p \in late : TakenOff(p)
  \/ \E f \in {"each", "total", "service"} : Fold(f)
  \/ Disable \/ Enable \/ Tick

Spec == Init /\ [][Next]_vars

----------------------------------------------------------------------------
(* The three tell of one stream: the cells of the grid are of the picked   *)
(* servers and have the last value each sent, however the selection went   *)
(* to and fro, as long as no listener heard what it should not; the lines of a *)
(* chart, however folded, add up to what the picked servers sent; the      *)
(* needle of a gauge stands in the zone of the grade the tile is coloured  *)
(* with; and the first server of the grid is one of the worst.             *)
GaugesTrue ==
  /\ ~crossed => grid \subseteq {s \in sent : s.obj \in visible}
  /\ \A k \in Kpis :
       /\ Len(strip[k].samples) <= Cap /\ Len(updates[k]) <= Cap
       /\ k \in Capable \ Averaged =>
            \A u \in Range(updates[k]) :
              SumOf(FoldSeries(k, u)) = SumOf(Restrict(u, DOMAIN u \cap visible))
       /\ strip[k].value # Never =>
            /\ Zone(k, Needle(k)) = Grade(k, strip[k].value)
            /\ GaugeScale(k) # Never /\ strip[k].value > GaugeScale(k) => Zone(k, Needle(k)) \in {"danger", "none"}
  /\ \A c \in grid : Rank(Grade(c.kpi, c.value)) <= Rank(GradeOf(BuildRows[1]))

(* Claimed by useInstanceKpis.ts: the cell of a server that was taken out  *)
(* of the selection goes on the spot.  A listener given up before it was   *)
(* registered puts it back, for good.                                      *)
GridOfPicked == \A c \in grid : c.obj \in visible

(* Claimed by useKpiSamples.ts: a server that was taken out does not live  *)
(* on in the folded value.  Only values that come afterwards leave it out. *)
StripOfPicked == \A k \in Kpis : strip[k].value # Never =>
                   strip[k].value = Aggregate(k, [o \in visible \cap {s.obj : s \in {x \in sent : x.kpi = k}} |->
                                       (CHOOSE s \in sent : s.obj = o /\ s.kpi = k).value])
=============================================================================
