--------------------------- MODULE MCWindowCharts ---------------------------
(***************************************************************************)
(* The charts, tables and trees of the window: one small instance of       *)
(* each component.  The components share no state, so that one run takes   *)
(* them beside each other: a behaviour is of the one that "which" names.   *)
(***************************************************************************)
EXTENDS Integers, Sequences, FiniteSets

CONSTANTS GaObjs, GaValues, GaKpis, GaAveraged, GaCapable, GaServiceOf, GaThresholds, GaNice,
          GaCap, GaStale, GaMaxTime, GaMaxMoves,   \* of Gauges
          TpObjs, TpKinds, TpExternal, TpAnswers, TpAgentSets, TpPlaces, TpSlow,
          TpMaxMoves, TpMaxAsks,   \* of Topology
          TxTxs, TxFound, TxWords, TxNames, TxElapsed, TxLimit, TxTotal, TxMinCol, TxMinUrl,
          TxWidth, TxMaxRules, TxMaxMoves,   \* of TxTable
          PvTxs, PvProfiles, PvTexts, PvBodyHits, PvSelections, PvBatch, PvMaxDepth,
          PvMaxMoves   \* of ProfileView

ASSUME WindowChartsAssumption ==
  /\ IsFiniteSet(GaObjs) /\ GaValues \subseteq Nat /\ GaCap \in Nat /\ GaNice \subseteq Int
  /\ \A k \in GaKpis : LET th == GaThresholds[k]
                      IN  /\ th.on \in BOOLEAN /\ th.warn \in Int /\ th.danger \in Int
                          /\ th.on => \E n \in GaNice : n >= (3 * th.danger + 1) \div 2
  /\ TpAnswers \subseteq Seq([from : TpObjs, to : TpObjs, type : TpKinds,
                             count : Nat, errors : Nat, elapsed : Nat])
  /\ IsFiniteSet(TxTxs) /\ \A x \in TxTxs : x.time \in Nat /\ x.elapsed \in Nat
  /\ TxLimit \in Nat /\ TxTotal \in Nat /\ TxMinUrl \in Nat
  /\ TxMinCol \in Nat /\ TxWidth \in Nat /\ TxMinCol <= TxWidth

PvSteps == [kind : STRING, name : STRING, has : SUBSET PvTexts, ms : Nat, parent : Nat,
            to : PvTxs \cup {"nobody"}, long : BOOLEAN]

ASSUME ProfilesAssumption ==
  /\ \A x \in PvTxs : PvProfiles[x] \in Seq(PvSteps)
  /\ "" \in PvTexts /\ \A q \in PvTexts \ {""}, pretty \in BOOLEAN : PvBodyHits[q][pretty] \in Nat
  /\ PvSelections \subseteq Seq(PvTxs) /\ PvBatch \in Nat
  /\ \A s \in PvSelections : \A i, j \in DOMAIN s : s[i] = s[j] => i = j

\* What the cfg gives Gauges: two servers, one of them without a service, two counters, values on
\* a threshold and beyond the scale.
OneService == [o \in {"a", "c"} |-> IF o = "c" THEN "" ELSE "s"]
TwoThresholds == [tps |-> [warn |-> 0, danger |-> 5, on |-> TRUE], elapsed |-> [warn |-> 2, danger |-> 3, on |-> TRUE]]

\* What the cfg gives Topology: a caller from outside, two kinds of call of one pair, and
\* a call of itself.
TpRow(f, t, k, c, e) == [from |-> f, to |-> t, type |-> k, count |-> c, errors |-> e, elapsed |-> c]
TpRows == {TpRow(0, 1, "in", 2, 0), TpRow(1, 2, "api", 2, 1), TpRow(1, 2, "db", 3, 0), TpRow(1, 1, "api", 1, 0)}
TwoRows == {<<>>} \cup [1..1 -> TpRows] \cup [1..2 -> TpRows]
OneOrTwo == {{1}, {1, 2}}

\* What the cfg gives TxTable: three transactions for a list of two, so that one is cut.
TxRow(i, t, e, s, ip, err) == [id |-> i, time |-> t, elapsed |-> e, service |-> s, ip |-> ip, error |-> err]
ThreeTxs == {TxRow("a", 1, 3, "/o", "10", FALSE), TxRow("b", 2, 1, "/p", "10", TRUE), TxRow("c", 3, 2, "/o", "11", FALSE)}
FoundIn == [n \in {"/o", "/p", "10", "11"} |->
              CASE n = "/o" -> {"u"} [] n = "/p" -> {"u", "v"} [] n = "10" -> {"v"} [] OTHER -> {}]

\* What the cfg gives ProfileView: two profiles, one with two statements of one text and a
\* step of an unknown kind.
PvStep(k, n, h, m, p, t, l) == [kind |-> k, name |-> n, has |-> h, ms |-> m, parent |-> p, to |-> t, long |-> l]
TwoProfiles ==
  [x |-> <<PvStep("Sql", "s", {"u"}, 2, 0, "nobody", TRUE), PvStep("Method", "m", {"u", "v"}, 1, 1, "nobody", FALSE),
           PvStep("Sql", "s", {"u"}, 3, 2, "nobody", TRUE), PvStep("Unknown", "", {}, 0, 0, "nobody", FALSE)>>,
   y |-> <<PvStep("ThreadCall", "c", {"v"}, 1, 2, "x", FALSE), PvStep("Message", "g", {}, 0, 1, "nobody", FALSE)>>]
TwoTexts == [u |-> [b \in BOOLEAN |-> IF b THEN 2 ELSE 1], v |-> [b \in BOOLEAN |-> 0]]
BothOrOne == {<<"x", "y">>, <<"y">>}

VARIABLE which   \* the component this behaviour is of
VARIABLES
  cv_mode, cv_now, cv_items, cv_dirty, cv_lastAt, cv_needs, cv_status, cv_connected,
  cv_active, cv_errorOnly, cv_ceiling, cv_frozen, cv_rect, cv_from, cv_chosen, cv_pic,
  cv_mapped, cv_skipped, cv_range, cv_sent, cv_moves   \* ChartView
VARIABLES
  ga_now, ga_moves, ga_enabled, ga_visible, ga_fold, ga_late, ga_strip, ga_grid,
  ga_lastReceived, ga_updates, ga_sent, ga_crossed   \* Gauges
VARIABLES
  av_now, av_epoch, av_moves, av_rows, av_stale, av_at, av_picked, av_query, av_group,
  av_tracks, av_yMax, av_dots, av_running, av_detail, av_queryOf, av_bind, av_ask,
  av_stream, av_counters   \* ActiveViews
VARIABLES
  tp_open, tp_rows, tp_error, tp_loadedOnce, tp_asks, tp_agents, tp_layout, tp_hover,
  tp_drilled, tp_moves   \* Topology
VARIABLES
  tt_caller, tt_steps, tt_shown, tt_known, tt_trace, tt_asked, tt_mode, tt_showSql,
  tt_showApiCall, tt_flow, tt_fetching, tt_traceRun, tt_flowRun, tt_moves   \* TraceTrees
VARIABLES
  tx_filter, tx_draftExclude, tx_known, tx_picked, tx_resolving, tx_missed,
  tx_selectedXLogs, tx_searchHits, tx_sort, tx_widths, tx_showY, tx_saved, tx_file,
  tx_saving, tx_moves   \* TxTable
VARIABLES
  pv_tab, pv_loaded, pv_panelQuery, pv_hitIdx, pv_picked, pv_profileMode, pv_expanded,
  pv_sort, pv_dialog, pv_fullText, pv_chosen, pv_search, pv_gen, pv_cancelled,
  pv_onTheWay, pv_asked, pv_lost, pv_moves   \* ProfileView

----------------------------------------------------------------------------
\* Three transactions for a store of two, on a plot of a few pixels; a day of twelve ticks.
ChartViewC == INSTANCE ChartView WITH
  Values <- {1, 3}, Ceilings <- {1, 2}, Height <- 2, Span <- 1, Stale <- 1, Half <- 1,
  Radius <- 1, Cap <- 2, Places <- {<<0, 0>>, <<1, 2>>}, DayLength <- 12, MinSpan <- 2,
  MaxSpan <- 8, MaxTime <- 2, MaxSent <- 3, MaxMoves <- 2, mode <- cv_mode,
  now <- cv_now, items <- cv_items, dirty <- cv_dirty, lastAt <- cv_lastAt,
  needs <- cv_needs, status <- cv_status, connected <- cv_connected,
  active <- cv_active, errorOnly <- cv_errorOnly, ceiling <- cv_ceiling,
  frozen <- cv_frozen, rect <- cv_rect, from <- cv_from, chosen <- cv_chosen,
  pic <- cv_pic, mapped <- cv_mapped, skipped <- cv_skipped, range <- cv_range,
  sent <- cv_sent, moves <- cv_moves
ChartViewOff ==
  /\ cv_mode = 0 /\ cv_now = 0 /\ cv_items = 0 /\ cv_dirty = 0 /\ cv_lastAt = 0
  /\ cv_needs = 0 /\ cv_status = 0 /\ cv_connected = 0 /\ cv_active = 0
  /\ cv_errorOnly = 0 /\ cv_ceiling = 0 /\ cv_frozen = 0 /\ cv_rect = 0
  /\ cv_from = 0 /\ cv_chosen = 0 /\ cv_pic = 0 /\ cv_mapped = 0 /\ cv_skipped = 0
  /\ cv_range = 0 /\ cv_sent = 0 /\ cv_moves = 0
ChartViewVars ==
  <<cv_mode, cv_now, cv_items, cv_dirty, cv_lastAt, cv_needs, cv_status, cv_connected,
    cv_active, cv_errorOnly, cv_ceiling, cv_frozen, cv_rect, cv_from, cv_chosen,
    cv_pic, cv_mapped, cv_skipped, cv_range, cv_sent, cv_moves>>

----------------------------------------------------------------------------
GaugesC == INSTANCE Gauges WITH
  Objs <- GaObjs, Values <- GaValues, Kpis <- GaKpis, Averaged <- GaAveraged,
  Capable <- GaCapable, ServiceOf <- GaServiceOf, Thresholds <- GaThresholds, Nice <- GaNice,
  Cap <- GaCap, Stale <- GaStale, MaxTime <- GaMaxTime, MaxMoves <- GaMaxMoves, now <- ga_now,
  moves <- ga_moves, enabled <- ga_enabled, visible <- ga_visible, fold <- ga_fold,
  late <- ga_late, strip <- ga_strip, grid <- ga_grid, lastReceived <- ga_lastReceived,
  updates <- ga_updates, sent <- ga_sent, crossed <- ga_crossed
GaugesOff ==
  /\ ga_now = 0 /\ ga_moves = 0 /\ ga_enabled = 0 /\ ga_visible = 0 /\ ga_fold = 0
  /\ ga_late = 0 /\ ga_strip = 0 /\ ga_grid = 0 /\ ga_lastReceived = 0
  /\ ga_updates = 0 /\ ga_sent = 0 /\ ga_crossed = 0
GaugesVars ==
  <<ga_now, ga_moves, ga_enabled, ga_visible, ga_fold, ga_late, ga_strip, ga_grid,
    ga_lastReceived, ga_updates, ga_sent, ga_crossed>>

----------------------------------------------------------------------------
\* Two servers and the pool of one; rows that appear, change their statement, go, and
\* stay of a server that was not reached.
AvRow(o, x, s, a, g) == [obj |-> o, tx |-> x, sql |-> s, api |-> a, age |-> g]
AvFeeds == {[rows |-> {}, stale |-> {}],
            [rows |-> {AvRow(1, "x", "q", "", 0)}, stale |-> {}],
            [rows |-> {AvRow(1, "x", "q", "p", 2), AvRow(2, "y", "", "", 0)}, stale |-> {}],
            [rows |-> {AvRow(1, "x", "q2", "", 2), AvRow(2, "y", "q", "", 3)}, stale |-> {1}],
            [rows |-> {AvRow(2, "y", "", "p", 1)}, stale |-> {2}]}
AvPools == [h \in {7} |-> 1]
ActiveViewsC == INSTANCE ActiveViews WITH
  Feeds <- AvFeeds, Picks <- {{1}, {1, 2}}, PoolOf <- AvPools, Queries <- {"", "q"},
  Levels <- {2, 3}, MinY <- 1, Nice <- {1, 2, 5, 10, 20}, Enter <- 1, Leave <- 1,
  Step2 <- 1, Step3 <- 3, MaxTime <- 2, MaxEpoch <- 1, MaxMoves <- 3, now <- av_now,
  epoch <- av_epoch, moves <- av_moves, rows <- av_rows, stale <- av_stale,
  at <- av_at, picked <- av_picked, query <- av_query, group <- av_group,
  tracks <- av_tracks, yMax <- av_yMax, dots <- av_dots, running <- av_running,
  detail <- av_detail, queryOf <- av_queryOf, bind <- av_bind, ask <- av_ask,
  stream <- av_stream, counters <- av_counters
ActiveViewsOff ==
  /\ av_now = 0 /\ av_epoch = 0 /\ av_moves = 0 /\ av_rows = 0 /\ av_stale = 0
  /\ av_at = 0 /\ av_picked = 0 /\ av_query = 0 /\ av_group = 0 /\ av_tracks = 0
  /\ av_yMax = 0 /\ av_dots = 0 /\ av_running = 0 /\ av_detail = 0 /\ av_queryOf = 0
  /\ av_bind = 0 /\ av_ask = 0 /\ av_stream = 0 /\ av_counters = 0
ActiveViewsVars ==
  <<av_now, av_epoch, av_moves, av_rows, av_stale, av_at, av_picked, av_query,
    av_group, av_tracks, av_yMax, av_dots, av_running, av_detail, av_queryOf, av_bind,
    av_ask, av_stream, av_counters>>

----------------------------------------------------------------------------
TopologyC == INSTANCE Topology WITH
  External <- TpExternal, Answers <- TpAnswers, AgentSets <- TpAgentSets, Places <- TpPlaces,
  Slow <- TpSlow, MaxMoves <- TpMaxMoves, MaxAsks <- TpMaxAsks, open <- tp_open, rows <- tp_rows,
  error <- tp_error, loadedOnce <- tp_loadedOnce, asks <- tp_asks, agents <- tp_agents,
  layout <- tp_layout, hover <- tp_hover, drilled <- tp_drilled, moves <- tp_moves
TopologyOff ==
  /\ tp_open = 0 /\ tp_rows = 0 /\ tp_error = 0 /\ tp_loadedOnce = 0 /\ tp_asks = 0
  /\ tp_agents = 0 /\ tp_layout = 0 /\ tp_hover = 0 /\ tp_drilled = 0 /\ tp_moves = 0
TopologyVars ==
  <<tp_open, tp_rows, tp_error, tp_loadedOnce, tp_asks, tp_agents, tp_layout, tp_hover,
    tp_drilled, tp_moves>>

----------------------------------------------------------------------------
\* Three transactions of a trace and one alone: chains, forks and circles of callers, calls
\* repeated and lost.
TtGxid == [x \in {"a", "b", "c", "d"} |-> IF x = "d" THEN "0" ELSE "g"]
TtBegin == [a |-> 0, b |-> 1, c |-> 1, d |-> 0]
TtElapsed == [a |-> 3, b |-> 2, c |-> 0, d |-> 1]
TtStep(k, h, t) == [kind |-> k, hash |-> h, to |-> t]
TtS1 == <<TtStep("Sql", 1, "0"), TtStep("Sql", 1, "0"), TtStep("ApiCall", 2, "b")>>
TtS2 == <<TtStep("ThreadCall", 2, "c"), TtStep("ApiCall", 2, "c"), TtStep("ApiCall", 3, "b")>>
TtAnswers == {<<>>, <<"a", "b">>, <<"b", "c", "a">>, <<"c", "a", "b">>, <<"b", "b", "a">>}
TtC(x, y, z) == [a |-> x, b |-> y, c |-> z, d |-> "d"]
TtCallers == {TtC("a", "b", "c"), TtC("a", "a", "b"), TtC("a", "a", "a"), TtC("c", "c", "c"),
              TtC("b", "a", "c"), TtC("c", "a", "b"), TtC("a", "c", "b")}
TtP(x, y, z) == [a |-> x, b |-> y, c |-> z, d |-> <<>>]
TtProfiles == {TtP(TtS1, <<>>, <<>>), TtP(TtS1, TtS2, <<>>), TtP(TtS2, TtS1, <<>>),
               TtP(TtS2, TtS2, TtS1), TtP(<<>>, TtS2, <<>>)}
TraceTreesC == INSTANCE TraceTrees WITH
  Txs <- {"a", "b", "c", "d"}, Gxid <- TtGxid, Begin <- TtBegin, Elapsed <- TtElapsed,
  Answers <- TtAnswers, Callers <- TtCallers, Profiles <- TtProfiles, MaxMoves <- 3,
  caller <- tt_caller, steps <- tt_steps, shown <- tt_shown, known <- tt_known,
  trace <- tt_trace, asked <- tt_asked, mode <- tt_mode, showSql <- tt_showSql,
  showApiCall <- tt_showApiCall, flow <- tt_flow, fetching <- tt_fetching,
  traceRun <- tt_traceRun, flowRun <- tt_flowRun, moves <- tt_moves
TraceTreesOff ==
  /\ tt_caller = 0 /\ tt_steps = 0 /\ tt_shown = 0 /\ tt_known = 0 /\ tt_trace = 0
  /\ tt_asked = 0 /\ tt_mode = 0 /\ tt_showSql = 0 /\ tt_showApiCall = 0
  /\ tt_flow = 0 /\ tt_fetching = 0 /\ tt_traceRun = 0 /\ tt_flowRun = 0
  /\ tt_moves = 0
TraceTreesVars ==
  <<tt_caller, tt_steps, tt_shown, tt_known, tt_trace, tt_asked, tt_mode, tt_showSql,
    tt_showApiCall, tt_flow, tt_fetching, tt_traceRun, tt_flowRun, tt_moves>>

----------------------------------------------------------------------------
TxTableC == INSTANCE TxTable WITH
  Txs <- TxTxs, Found <- TxFound, Words <- TxWords, Names <- TxNames, Elapsed <- TxElapsed,
  Limit <- TxLimit, Total <- TxTotal, MinCol <- TxMinCol, MinUrl <- TxMinUrl,
  Width <- TxWidth, MaxRules <- TxMaxRules, MaxMoves <- TxMaxMoves, filter <- tx_filter,
  draftExclude <- tx_draftExclude, known <- tx_known, picked <- tx_picked,
  resolving <- tx_resolving, missed <- tx_missed, selectedXLogs <- tx_selectedXLogs,
  searchHits <- tx_searchHits, sort <- tx_sort, widths <- tx_widths, showY <- tx_showY,
  saved <- tx_saved, file <- tx_file, saving <- tx_saving, moves <- tx_moves
TxTableOff ==
  /\ tx_filter = 0 /\ tx_draftExclude = 0 /\ tx_known = 0 /\ tx_picked = 0
  /\ tx_resolving = 0 /\ tx_missed = 0 /\ tx_selectedXLogs = 0 /\ tx_searchHits = 0
  /\ tx_sort = 0 /\ tx_widths = 0 /\ tx_showY = 0 /\ tx_saved = 0 /\ tx_file = 0
  /\ tx_saving = 0 /\ tx_moves = 0
TxTableVars ==
  <<tx_filter, tx_draftExclude, tx_known, tx_picked, tx_resolving, tx_missed,
    tx_selectedXLogs, tx_searchHits, tx_sort, tx_widths, tx_showY, tx_saved, tx_file,
    tx_saving, tx_moves>>

----------------------------------------------------------------------------
ProfileViewC == INSTANCE ProfileView WITH
  Txs <- PvTxs, Profiles <- PvProfiles, Texts <- PvTexts, BodyHits <- PvBodyHits,
  Selections <- PvSelections, Batch <- PvBatch, MaxDepth <- PvMaxDepth, MaxMoves <- PvMaxMoves,
  tab <- pv_tab, loaded <- pv_loaded,
  panelQuery <- pv_panelQuery, hitIdx <- pv_hitIdx, picked <- pv_picked,
  profileMode <- pv_profileMode, expanded <- pv_expanded, sort <- pv_sort,
  dialog <- pv_dialog, fullText <- pv_fullText, chosen <- pv_chosen,
  search <- pv_search, gen <- pv_gen, cancelled <- pv_cancelled,
  onTheWay <- pv_onTheWay, asked <- pv_asked, lost <- pv_lost, moves <- pv_moves
ProfileViewOff ==
  /\ pv_tab = 0 /\ pv_loaded = 0 /\ pv_panelQuery = 0 /\ pv_hitIdx = 0
  /\ pv_picked = 0 /\ pv_profileMode = 0 /\ pv_expanded = 0 /\ pv_sort = 0
  /\ pv_dialog = 0 /\ pv_fullText = 0 /\ pv_chosen = 0 /\ pv_search = 0
  /\ pv_gen = 0 /\ pv_cancelled = 0 /\ pv_onTheWay = 0 /\ pv_asked = 0
  /\ pv_lost = 0 /\ pv_moves = 0
ProfileViewVars ==
  <<pv_tab, pv_loaded, pv_panelQuery, pv_hitIdx, pv_picked, pv_profileMode,
    pv_expanded, pv_sort, pv_dialog, pv_fullText, pv_chosen, pv_search, pv_gen,
    pv_cancelled, pv_onTheWay, pv_asked, pv_lost, pv_moves>>

----------------------------------------------------------------------------
\* One behaviour is of one component; the variables of the others keep 0.
Init ==
  \/ /\ which = "ChartView" /\ ChartViewC!Init
     /\ GaugesOff /\ ActiveViewsOff /\ TopologyOff /\ TraceTreesOff /\ TxTableOff
     /\ ProfileViewOff
  \/ /\ which = "Gauges" /\ GaugesC!Init
     /\ ChartViewOff /\ ActiveViewsOff /\ TopologyOff /\ TraceTreesOff /\ TxTableOff
     /\ ProfileViewOff
  \/ /\ which = "ActiveViews" /\ ActiveViewsC!Init
     /\ ChartViewOff /\ GaugesOff /\ TopologyOff /\ TraceTreesOff /\ TxTableOff
     /\ ProfileViewOff
  \/ /\ which = "Topology" /\ TopologyC!Init
     /\ ChartViewOff /\ GaugesOff /\ ActiveViewsOff /\ TraceTreesOff /\ TxTableOff
     /\ ProfileViewOff
  \/ /\ which = "TraceTrees" /\ TraceTreesC!Init
     /\ ChartViewOff /\ GaugesOff /\ ActiveViewsOff /\ TopologyOff /\ TxTableOff
     /\ ProfileViewOff
  \/ /\ which = "TxTable" /\ TxTableC!Init
     /\ ChartViewOff /\ GaugesOff /\ ActiveViewsOff /\ TopologyOff /\ TraceTreesOff
     /\ ProfileViewOff
  \/ /\ which = "ProfileView" /\ ProfileViewC!Init
     /\ ChartViewOff /\ GaugesOff /\ ActiveViewsOff /\ TopologyOff /\ TraceTreesOff
     /\ TxTableOff

ChartViewTurn ==
  /\ which = "ChartView" /\ ChartViewC!Next
  /\ UNCHANGED <<which, GaugesVars, ActiveViewsVars, TopologyVars, TraceTreesVars,
                 TxTableVars, ProfileViewVars>>
GaugesTurn ==
  /\ which = "Gauges" /\ GaugesC!Next
  /\ UNCHANGED <<which, ChartViewVars, ActiveViewsVars, TopologyVars, TraceTreesVars,
                 TxTableVars, ProfileViewVars>>
ActiveViewsTurn ==
  /\ which = "ActiveViews" /\ ActiveViewsC!Next
  /\ UNCHANGED <<which, ChartViewVars, GaugesVars, TopologyVars, TraceTreesVars,
                 TxTableVars, ProfileViewVars>>
TopologyTurn ==
  /\ which = "Topology" /\ TopologyC!Next
  /\ UNCHANGED <<which, ChartViewVars, GaugesVars, ActiveViewsVars, TraceTreesVars,
                 TxTableVars, ProfileViewVars>>
TraceTreesTurn ==
  /\ which = "TraceTrees" /\ TraceTreesC!Next
  /\ UNCHANGED <<which, ChartViewVars, GaugesVars, ActiveViewsVars, TopologyVars,
                 TxTableVars, ProfileViewVars>>
TxTableTurn ==
  /\ which = "TxTable" /\ TxTableC!Next
  /\ UNCHANGED <<which, ChartViewVars, GaugesVars, ActiveViewsVars, TopologyVars,
                 TraceTreesVars, ProfileViewVars>>
ProfileViewTurn ==
  /\ which = "ProfileView" /\ ProfileViewC!Next
  /\ UNCHANGED <<which, ChartViewVars, GaugesVars, ActiveViewsVars, TopologyVars,
                 TraceTreesVars, TxTableVars>>

Next ==
  \/ ChartViewTurn \/ GaugesTurn \/ ActiveViewsTurn \/ TopologyTurn
  \/ TraceTreesTurn \/ TxTableTurn \/ ProfileViewTurn

allVars == <<which, ChartViewVars, GaugesVars, ActiveViewsVars, TopologyVars, TraceTreesVars,
  TxTableVars, ProfileViewVars>>
Spec == Init /\ [][Next]_allVars

----------------------------------------------------------------------------
\* A painted canvas shows what the store holds and leads to it, and the wheel stays
\* within a day (XLogChartRenderer.ts, useXLogCanvas.ts, timeRange.ts).
ChartTrue ==
  /\ [](which = "ChartView" => ChartViewC!CanvasTrue)
  /\ [][which = "ChartView" => ChartViewC!WheelStep]_allVars

\* Strip, grid and charts of Visualize tell of one stream (useKpiSamples.ts,
\* useInstanceKpis.ts, counterSeries.ts, gauge.ts).
CountersTrue == which = "Gauges" => GaugesC!GaugesTrue

\* Chart, list and head of the active screen tell of the same rows, and the counters
\* are asked for over the present connection (ActiveTab.tsx, flowModel.ts).
ActiveScreenTrue == which = "ActiveViews" => ActiveViewsC!ScreenTrue /\ ActiveViewsC!StreamFollows

\* The map of calls has every call of the answer once (topologyGraph.ts, TopologyPanel.tsx).
TopologyTrue == which = "Topology" => TopologyC!GraphTrue

\* The trees of a trace leave nobody out and invent nothing (callTree.ts, flowTree.ts).
TreesTrue == which = "TraceTrees" => TraceTreesC!TreesWhole

\* The table of transactions lists what passes the filter, slowest first cut last
\* (XLogTable.tsx, xlogFilter.ts).
TableListTrue ==
  /\ [](which = "TxTable" => TxTableC!TableTrue)
  /\ [][which = "TxTable" => TxTableC!DragStep]_allVars

\* The counters of hits of a profile are true, and a search over profiles found what
\* there is (XLogDetailPanel.tsx, useProfileSearch.ts).
ProfileTrue == which = "ProfileView" => ProfileViewC!HitsTrue /\ ProfileViewC!SearchExact
=============================================================================
