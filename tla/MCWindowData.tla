---------------------------- MODULE MCWindowData ----------------------------
(***************************************************************************)
(* The data of the window: one small instance of                           *)
(* each component.  The components share no state, so that one run takes   *)
(* them beside each other: a behaviour is of the one that "which" names.   *)
(***************************************************************************)
EXTENDS Integers, Sequences, FiniteSets

CONSTANTS s1, s2   \* two servers
CONSTANTS PcTargets, PcLastTick, PcMaxUser,   \* of PastChart
          AkQuestions, AkMaxAsks,             \* of Askers
          WsHits, WsRanges, WsPiece, WsParallel, WsCap, WsPageCount, WsDays,
          WsMaxRuns, WsMaxSwitches, WsMaxFaults,   \* of WideSearch
          AsObjs, AsTxs, AsResources, AsCarry, AsWindow, AsMaxTime,
          AsMaxEpoch,                         \* of ActiveServices
          AlObjs, AlGrace, AlGap, AlOverlap, AlKeep, AlMaxAlerts, AlMaxTime,
          AlMaxTurns, AlMaxAsks               \* of Alerts

ASSUME WindowDataAssumption ==
  /\ PcLastTick \in Nat /\ AkMaxAsks \in Nat
  /\ AsCarry \in Nat /\ AsWindow \in Nat /\ AsMaxTime \in Nat
  /\ IsFiniteSet(WsHits) /\ \A x \in WsHits : x.t \in Nat /\ x.id \in Nat
  /\ WsRanges \subseteq Nat \X Nat
  /\ WsPiece \in Nat \ {0} /\ WsParallel \in Nat \ {0} /\ WsPageCount \in Nat \ {0}
  /\ WsDays \subseteq Nat
  /\ IsFiniteSet(AlObjs)
  /\ AlGrace \in Nat /\ AlOverlap \in Nat \ {0} /\ AlMaxAlerts \in Nat

\* What the cfg gives WideSearch: rows of two servers, one of an object that is gone.
WsHit(i, t, s, g) == [id |-> i, t |-> t, server |-> s, gone |-> g]
FiveHits == {WsHit(1, 0, "s", FALSE), WsHit(2, 1, "s", TRUE), WsHit(3, 2, "s", FALSE),
             WsHit(4, 2, "s", FALSE), WsHit(6, 1, "t", FALSE)}
ThreeTicks == {<<0, 3>>}

VARIABLE which   \* the component this behaviour is of
VARIABLES
  lc_now, lc_user, lc_connected, lc_epoch, lc_past, lc_selected, lc_range, lc_items,
  lc_hasHistory, lc_maxItems, lc_pausedAt, lc_stream, lc_covered, lc_timer, lc_load,
  lc_loading, lc_holed, lc_behind   \* LiveChart
VARIABLES
  pc_user, pc_connected, pc_view, pc_target, pc_loaded, pc_copies, pc_load, pc_loading,
  pc_error, pc_truncated, pc_seams, pc_disturbed   \* PastChart
VARIABLES
  pg_wide, pg_times, pg_interval, pg_pieces, pg_next, pg_seen, pg_pages, pg_stop,
  pg_result   \* Paging
VARIABLES
  ws_server, ws_switches, ws_showWideSearch, ws_wideRunning, ws_wideProgress,
  ws_wideCancel, ws_wideTruncated, ws_selected, ws_runs, ws_answer, ws_faults   \* WideSearch
VARIABLES
  ak_hook, ak_q, ak_shown, ak_loading, ak_err, ak_asks, ak_sent   \* Askers
VARIABLES
  as_now, as_running, as_epoch, as_enabled, as_asks, as_busy, as_rows, as_missed,
  as_stale, as_carriedRows, as_at, as_lastRows, as_lastSeen, as_holds, as_tracks,
  as_returned   \* ActiveServices
VARIABLES
  al_now, al_up, al_beat, al_turns, al_listed, al_epoch, al_connected, al_reading,
  al_readFailed, al_asks, al_seen, al_primed, al_shown, al_file, al_alerts, al_unread,
  al_tab   \* Alerts

----------------------------------------------------------------------------
\* Two servers, two connections, a clock of two ticks and two commands: enough for a
\* backfill to be cut by each of a pause, a selection, a range and a disconnect.
LiveChartC == INSTANCE LiveChart WITH
  Objects <- {s1, s2}, Ranges <- {2, 3}, Caps <- {30}, Latest <- 1, MinFill <- 1,
  DayStart <- 1, Start <- 3, MaxTime <- 4, MaxEpoch <- 2, MaxUser <- 2, now <- lc_now,
  user <- lc_user, connected <- lc_connected, epoch <- lc_epoch, past <- lc_past,
  selected <- lc_selected, range <- lc_range, items <- lc_items,
  hasHistory <- lc_hasHistory, maxItems <- lc_maxItems, pausedAt <- lc_pausedAt,
  stream <- lc_stream, covered <- lc_covered, timer <- lc_timer, load <- lc_load,
  loading <- lc_loading, holed <- lc_holed, behind <- lc_behind
LiveChartOff ==
  /\ lc_now = 0 /\ lc_user = 0 /\ lc_connected = 0 /\ lc_epoch = 0 /\ lc_past = 0
  /\ lc_selected = 0 /\ lc_range = 0 /\ lc_items = 0 /\ lc_hasHistory = 0
  /\ lc_maxItems = 0 /\ lc_pausedAt = 0 /\ lc_stream = 0 /\ lc_covered = 0
  /\ lc_timer = 0 /\ lc_load = 0 /\ lc_loading = 0 /\ lc_holed = 0 /\ lc_behind = 0
LiveChartVars ==
  <<lc_now, lc_user, lc_connected, lc_epoch, lc_past, lc_selected, lc_range, lc_items,
    lc_hasHistory, lc_maxItems, lc_pausedAt, lc_stream, lc_covered, lc_timer, lc_load,
    lc_loading, lc_holed, lc_behind>>

----------------------------------------------------------------------------
\* Two selections over four ticks: every way two intervals lie to each other.
PastChartC == INSTANCE PastChart WITH
  Targets <- PcTargets, LastTick <- PcLastTick, MaxUser <- PcMaxUser, user <- pc_user,
  connected <- pc_connected, view <- pc_view, target <- pc_target, loaded <- pc_loaded,
  copies <- pc_copies, load <- pc_load, loading <- pc_loading, error <- pc_error,
  truncated <- pc_truncated, seams <- pc_seams, disturbed <- pc_disturbed
PastChartOff ==
  /\ pc_user = 0 /\ pc_connected = 0 /\ pc_view = 0 /\ pc_target = 0
  /\ pc_loaded = 0 /\ pc_copies = 0 /\ pc_load = 0 /\ pc_loading = 0 /\ pc_error = 0
  /\ pc_truncated = 0 /\ pc_seams = 0 /\ pc_disturbed = 0
PastChartVars ==
  <<pc_user, pc_connected, pc_view, pc_target, pc_loaded, pc_copies, pc_load,
    pc_loading, pc_error, pc_truncated, pc_seams, pc_disturbed>>

----------------------------------------------------------------------------
\* Up to five rows at six times in pages of two, so that pages end in the middle of
\* an instant, pieces are empty, and both the page limit and the cap are met.
PgSorted(n) == {s \in [1 .. n -> 0 .. 5] : \A i \in 1 .. n - 1 : s[i] <= s[i + 1]}
PgContents == PgSorted(1) \cup PgSorted(3) \cup PgSorted(5)
PagingC == INSTANCE Paging WITH
  Contents <- PgContents, Intervals <- {<<0, 5>>, <<1, 4>>}, PageCount <- 2,
  Width <- 3, Parallel <- 2, MaxPages <- 6, Cap <- 3, wide <- pg_wide,
  times <- pg_times, interval <- pg_interval, pieces <- pg_pieces, next <- pg_next,
  seen <- pg_seen, pages <- pg_pages, stop <- pg_stop, result <- pg_result
PagingOff ==
  /\ pg_wide = 0 /\ pg_times = 0 /\ pg_interval = 0 /\ pg_pieces = 0 /\ pg_next = 0
  /\ pg_seen = 0 /\ pg_pages = 0 /\ pg_stop = 0 /\ pg_result = 0
PagingVars ==
  <<pg_wide, pg_times, pg_interval, pg_pieces, pg_next, pg_seen, pg_pages, pg_stop,
    pg_result>>

----------------------------------------------------------------------------
\* Two searches over two pieces with two workers, a cap of two rows, a match of an object
\* that is gone, a switch and a failing request.
WideSearchC == INSTANCE WideSearch WITH
  Hits <- WsHits, Ranges <- WsRanges, Piece <- WsPiece, Parallel <- WsParallel,
  Cap <- WsCap, PageCount <- WsPageCount, Days <- WsDays, MaxRuns <- WsMaxRuns,
  MaxSwitches <- WsMaxSwitches, MaxFaults <- WsMaxFaults,
  server <- ws_server, switches <- ws_switches, showWideSearch <- ws_showWideSearch,
  wideRunning <- ws_wideRunning, wideProgress <- ws_wideProgress,
  wideCancel <- ws_wideCancel, wideTruncated <- ws_wideTruncated,
  selected <- ws_selected, runs <- ws_runs, answer <- ws_answer, faults <- ws_faults
WideSearchOff ==
  /\ ws_server = 0 /\ ws_switches = 0 /\ ws_showWideSearch = 0 /\ ws_wideRunning = 0
  /\ ws_wideProgress = 0 /\ ws_wideCancel = 0 /\ ws_wideTruncated = 0
  /\ ws_selected = 0 /\ ws_runs = 0 /\ ws_answer = 0 /\ ws_faults = 0
WideSearchVars ==
  <<ws_server, ws_switches, ws_showWideSearch, ws_wideRunning, ws_wideProgress,
    ws_wideCancel, ws_wideTruncated, ws_selected, ws_runs, ws_answer, ws_faults>>

----------------------------------------------------------------------------
\* Four queries in flight, for two questions.
AskersC == INSTANCE Askers WITH
  Questions <- AkQuestions, MaxAsks <- AkMaxAsks, hook <- ak_hook, q <- ak_q, shown <- ak_shown,
  loading <- ak_loading, err <- ak_err, asks <- ak_asks, sent <- ak_sent
AskersOff ==
  /\ ak_hook = 0 /\ ak_q = 0 /\ ak_shown = 0 /\ ak_loading = 0 /\ ak_err = 0
  /\ ak_asks = 0 /\ ak_sent = 0
AskersVars ==
  <<ak_hook, ak_q, ak_shown, ak_loading, ak_err, ak_asks, ak_sent>>

----------------------------------------------------------------------------
\* One server that may be silent for longer than it is carried, over two connections.
Active == INSTANCE ActiveServices WITH
  Objs <- AsObjs, Txs <- AsTxs, Resources <- AsResources, Carry <- AsCarry,
  Window <- AsWindow, MaxTime <- AsMaxTime, MaxEpoch <- AsMaxEpoch, now <- as_now, running <- as_running, epoch <- as_epoch,
  enabled <- as_enabled, asks <- as_asks, busy <- as_busy, rows <- as_rows,
  missed <- as_missed, stale <- as_stale, carriedRows <- as_carriedRows, at <- as_at,
  lastRows <- as_lastRows, lastSeen <- as_lastSeen, holds <- as_holds,
  tracks <- as_tracks, returned <- as_returned
ActiveServicesOff ==
  /\ as_now = 0 /\ as_running = 0 /\ as_epoch = 0 /\ as_enabled = 0 /\ as_asks = 0
  /\ as_busy = 0 /\ as_rows = 0 /\ as_missed = 0 /\ as_stale = 0
  /\ as_carriedRows = 0 /\ as_at = 0 /\ as_lastRows = 0 /\ as_lastSeen = 0
  /\ as_holds = 0 /\ as_tracks = 0 /\ as_returned = 0
ActiveServicesVars ==
  <<as_now, as_running, as_epoch, as_enabled, as_asks, as_busy, as_rows, as_missed,
    as_stale, as_carriedRows, as_at, as_lastRows, as_lastSeen, as_holds, as_tracks,
    as_returned>>

----------------------------------------------------------------------------
\* Two objects that start and die while a list is on its way; a second connection.
AlertsC == INSTANCE Alerts WITH
  Objs <- AlObjs, Grace <- AlGrace, Gap <- AlGap, Overlap <- AlOverlap, Keep <- AlKeep,
  MaxAlerts <- AlMaxAlerts, MaxTime <- AlMaxTime, MaxTurns <- AlMaxTurns,
  MaxAsks <- AlMaxAsks, now <- al_now, up <- al_up,
  beat <- al_beat, turns <- al_turns, listed <- al_listed, epoch <- al_epoch,
  connected <- al_connected, reading <- al_reading, readFailed <- al_readFailed,
  asks <- al_asks, seen <- al_seen, primed <- al_primed, shown <- al_shown,
  file <- al_file, alerts <- al_alerts, unread <- al_unread, tab <- al_tab
AlertsOff ==
  /\ al_now = 0 /\ al_up = 0 /\ al_beat = 0 /\ al_turns = 0 /\ al_listed = 0
  /\ al_epoch = 0 /\ al_connected = 0 /\ al_reading = 0 /\ al_readFailed = 0
  /\ al_asks = 0 /\ al_seen = 0 /\ al_primed = 0 /\ al_shown = 0 /\ al_file = 0
  /\ al_alerts = 0 /\ al_unread = 0 /\ al_tab = 0
AlertsVars ==
  <<al_now, al_up, al_beat, al_turns, al_listed, al_epoch, al_connected, al_reading,
    al_readFailed, al_asks, al_seen, al_primed, al_shown, al_file, al_alerts,
    al_unread, al_tab>>

----------------------------------------------------------------------------
\* One behaviour is of one component; the variables of the others keep 0.
Init ==
  \/ /\ which = "LiveChart" /\ LiveChartC!Init
     /\ PastChartOff /\ PagingOff /\ WideSearchOff /\ AskersOff /\ ActiveServicesOff
     /\ AlertsOff
  \/ /\ which = "PastChart" /\ PastChartC!Init
     /\ LiveChartOff /\ PagingOff /\ WideSearchOff /\ AskersOff /\ ActiveServicesOff
     /\ AlertsOff
  \/ /\ which = "Paging" /\ PagingC!Init
     /\ LiveChartOff /\ PastChartOff /\ WideSearchOff /\ AskersOff
     /\ ActiveServicesOff /\ AlertsOff
  \/ /\ which = "WideSearch" /\ WideSearchC!Init
     /\ LiveChartOff /\ PastChartOff /\ PagingOff /\ AskersOff /\ ActiveServicesOff
     /\ AlertsOff
  \/ /\ which = "Askers" /\ AskersC!Init
     /\ LiveChartOff /\ PastChartOff /\ PagingOff /\ WideSearchOff
     /\ ActiveServicesOff /\ AlertsOff
  \/ /\ which = "ActiveServices" /\ Active!Init
     /\ LiveChartOff /\ PastChartOff /\ PagingOff /\ WideSearchOff /\ AskersOff
     /\ AlertsOff
  \/ /\ which = "Alerts" /\ AlertsC!Init
     /\ LiveChartOff /\ PastChartOff /\ PagingOff /\ WideSearchOff /\ AskersOff
     /\ ActiveServicesOff

LiveChartTurn ==
  /\ which = "LiveChart" /\ LiveChartC!Next
  /\ UNCHANGED <<which, PastChartVars, PagingVars, WideSearchVars, AskersVars,
                 ActiveServicesVars, AlertsVars>>
PastChartTurn ==
  /\ which = "PastChart" /\ PastChartC!Next
  /\ UNCHANGED <<which, LiveChartVars, PagingVars, WideSearchVars, AskersVars,
                 ActiveServicesVars, AlertsVars>>
PagingTurn ==
  /\ which = "Paging" /\ PagingC!Next
  /\ UNCHANGED <<which, LiveChartVars, PastChartVars, WideSearchVars, AskersVars,
                 ActiveServicesVars, AlertsVars>>
WideSearchTurn ==
  /\ which = "WideSearch" /\ WideSearchC!Next
  /\ UNCHANGED <<which, LiveChartVars, PastChartVars, PagingVars, AskersVars,
                 ActiveServicesVars, AlertsVars>>
AskersTurn ==
  /\ which = "Askers" /\ AskersC!Next
  /\ UNCHANGED <<which, LiveChartVars, PastChartVars, PagingVars, WideSearchVars,
                 ActiveServicesVars, AlertsVars>>
ActiveServicesTurn ==
  /\ which = "ActiveServices" /\ Active!Next
  /\ UNCHANGED <<which, LiveChartVars, PastChartVars, PagingVars, WideSearchVars,
                 AskersVars, AlertsVars>>
AlertsTurn ==
  /\ which = "Alerts" /\ AlertsC!Next
  /\ UNCHANGED <<which, LiveChartVars, PastChartVars, PagingVars, WideSearchVars,
                 AskersVars, ActiveServicesVars>>

Next ==
  \/ LiveChartTurn \/ PastChartTurn \/ PagingTurn \/ WideSearchTurn \/ AskersTurn
  \/ ActiveServicesTurn \/ AlertsTurn

allVars == <<which, LiveChartVars, PastChartVars, PagingVars, WideSearchVars, AskersVars,
  ActiveServicesVars, AlertsVars>>
Spec == Init /\ [][Next]_allVars
        /\ WF_PagingVars(/\ which = "Paging"
                         /\ \/ PagingC!SlicesEnd \/ PagingC!SearchEnds
                            \/ \E i \in DOMAIN pg_pieces :
                                 PagingC!SlicePage(i) \/ PagingC!SearchPage(i))

----------------------------------------------------------------------------
\* The live chart: the buffer is of the connected server alone; what counts as
\* filled has no gap but those the code knows of; a paused screen loses no point
\* (XLogDataStore.ts, useLiveBackfill.ts, useXLogStream.ts).
LiveBufferTrue ==
  /\ [](which = "LiveChart" => LiveChartC!OneServer /\ LiveChartC!Filled)
  /\ [][which = "LiveChart" => LiveChartC!PauseStep]_allVars

\* The past chart holds one selection, and each point of the interval that counts
\* as held, once (usePastXLog.ts).
PastBufferTrue == which = "PastChart" => PastChartC!PastOneTarget /\ PastChartC!PastExact

\* A paged load or search that says it is complete is, one that was stopped has
\* everything before the time it names, and each ends (pastXLog.ts, wideSearchAll.ts).
PagingTrue ==
  /\ [](which = "Paging" => PagingC!ResultTrue)
  /\ <>(which = "Paging" => pg_result # PagingC!Running \/ (~pg_wide /\ pg_stop = "aborted"))

\* The list of a wide search holds every match before the time it names (App.tsx:1288-1432).
WideSearchTrue == which = "WideSearch" => WideSearchC!WideTrue

\* A panel never rests on the answer to an earlier question, and one that says it
\* is loading waits for an answer: for the hooks that cancel (Askers).
AskersTrue == which = "Askers" => AskersC!TypeOK /\ AskersC!ShownIsAsked /\ AskersC!SpinnerTrue

\* A row of the active list was returned by its server over this connection and not
\* too long ago, and its clock is not set back (activeModel.ts, useActiveServices.ts).
ActiveListTrue ==
  /\ [](which = "ActiveServices" => Active!TypeOK /\ Active!RowsHonest)
  /\ [][which = "ActiveServices" => Active!HoldsStep]_allVars

\* The loss of a whole service rings, and the file of what lived when loses nothing
\* (alertGroups.ts, App.tsx:739-831).
AlertsTrue ==
  /\ [](which = "Alerts" => AlertsC!TypeOK /\ AlertsC!LossIsLoud)
  /\ [][which = "Alerts" => AlertsC!FileStep]_allVars
=============================================================================
