-------------------------- MODULE MCWindowScreens ---------------------------
(***************************************************************************)
(* The tabs, lists and settings of the window: one small instance of       *)
(* each component.  The components share no state, so that one run takes   *)
(* them beside each other: a behaviour is of the one that "which" names.   *)
(***************************************************************************)
EXTENDS Integers, Sequences, FiniteSets, TLC

CONSTANTS d1, d2   \* two transactions, or two tasks
CONSTANTS DtTxids, DtMaxTabs, DtMaxSpawn, DtMaxRuns,    \* of Details
          PkTasks, PkService, PkDays, PkMaxMoves,   \* of Picker
          InJvms, InOthers, InLists, InNames, InCommands, InDangerous,
          InHeapVisible, InTotalPages, InMaxMoves,  \* of Inspector
          ApMaxChanges, ApMaxCalls, ApMaxFails,     \* of AppSettings
          SlHosts, SlUsers, SlNames, SlMaxSteps     \* of ServerList

InKinds == {"threads", "heap", "active", "sockets", "stack", "dump", "classes", "properties"}
InRows  == [id : STRING, n : Int, busy : BOOLEAN, txid : BOOLEAN, hit : BOOLEAN]

\* A detail tab stays beside the viewed one when room is made; the collector
\* answers a list of every kind with rows.
ASSUME WindowScreensAssumption ==
  /\ DtMaxTabs \in Nat /\ DtMaxTabs >= 2
  /\ InLists \in [InKinds -> SUBSET Seq(InRows)]

Two == Permutations({d1, d2})
OneService == [t \in {d1, d2} |-> "s"]
\* Lists of up to two rows, of a JVM and of a host.
InRow(i, n, b, t, h) == [id |-> i, n |-> n, busy |-> b, txid |-> t, hit |-> h]
InP == InRow("p", 1, FALSE, FALSE, TRUE)
ShortLists == [threads |-> {<<InP, InRow("q", 0, TRUE, FALSE, FALSE)>>},
               heap |-> {<<InP, InRow("q", 2, FALSE, FALSE, FALSE)>>},
               active |-> {<<InP, InRow("q", 2, FALSE, TRUE, FALSE)>>},
               sockets |-> {<<InP, InRow("q", 2, FALSE, FALSE, TRUE)>>},
               stack |-> {<<InP, InRow("q", 1, FALSE, FALSE, FALSE)>>},
               dump |-> {<<>>, <<InP, InRow("q", 1, FALSE, FALSE, FALSE)>>},
               classes |-> {<<InP>>}, properties |-> {<<InP>>}]

VARIABLE which   \* the component this behaviour is of
VARIABLES
  tw_main, tw_hydrated, tw_reg, tw_seen, tw_used, tw_unsaved, tw_win, tw_toMain,
  tw_init, tw_file, tw_made, tw_user, tw_run, tw_alive, tw_hasty, tw_missed   \* TabWindows
VARIABLES
  dt_tabs, dt_active, dt_seen, dt_loads, dt_spawned, dt_asked, dt_pending, dt_restored,
  dt_missed, dt_note, dt_file, dt_opening, dt_connected, dt_runs   \* Details
VARIABLES
  pk_world, pk_objects, pk_ran, pk_tab, pk_active, pk_daily, pk_dayKey, pk_reading,
  pk_seen, pk_frame, pk_due, pk_met, pk_clicked, pk_moves   \* Picker
VARIABLES
  in_inspect, in_page, in_rows, in_answered, in_loading, in_error, in_loads, in_query,
  in_busy, in_ops, in_text, in_wanted, in_thread, in_action, in_running, in_moves   \* Inspector
VARIABLES
  ce_file, ce_dialog, ce_mode, ce_text, ce_entries, ce_edits, ce_draft, ce_asked,
  ce_error, ce_sent, ce_base, ce_made, ce_busy, ce_saves   \* ConfigEdits
VARIABLES
  ap_mem, ap_disk, ap_shown, ap_calls, ap_dialog, ap_copy, ap_told, ap_changes,
  ap_fails   \* AppSettings
VARIABLES
  sl_servers, sl_current, sl_conn, sl_form, sl_asked, sl_byHand, sl_last, sl_steps   \* ServerList

----------------------------------------------------------------------------
\* A main window and two more, two tabs each and what comes in beyond, a restart, four operations.
TabWindowsC == INSTANCE TabWindows WITH
  MaxTabs <- 2, MaxPanes <- 2, Labels <- {1, 2}, MaxId <- 4, MaxRun <- 2, MaxUser <- 4,
  main <- tw_main, hydrated <- tw_hydrated, reg <- tw_reg, seen <- tw_seen,
  used <- tw_used, unsaved <- tw_unsaved, win <- tw_win, toMain <- tw_toMain,
  init <- tw_init, file <- tw_file, made <- tw_made, user <- tw_user, run <- tw_run,
  alive <- tw_alive, hasty <- tw_hasty, missed <- tw_missed
TabWindowsOff ==
  /\ tw_main = 0 /\ tw_hydrated = 0 /\ tw_reg = 0 /\ tw_seen = 0 /\ tw_used = 0
  /\ tw_unsaved = 0 /\ tw_win = 0 /\ tw_toMain = 0 /\ tw_init = 0 /\ tw_file = 0
  /\ tw_made = 0 /\ tw_user = 0 /\ tw_run = 0 /\ tw_alive = 0 /\ tw_hasty = 0
  /\ tw_missed = 0
TabWindowsVars ==
  <<tw_main, tw_hydrated, tw_reg, tw_seen, tw_used, tw_unsaved, tw_win, tw_toMain,
    tw_init, tw_file, tw_made, tw_user, tw_run, tw_alive, tw_hasty, tw_missed>>

----------------------------------------------------------------------------
\* Two transactions in two tabs, two loads under way, a restart.
DetailsC == INSTANCE Details WITH
  Txids <- DtTxids, MaxTabs <- DtMaxTabs, MaxSpawn <- DtMaxSpawn, MaxRuns <- DtMaxRuns,
  tabs <- dt_tabs,
  active <- dt_active, seen <- dt_seen, loads <- dt_loads, spawned <- dt_spawned,
  asked <- dt_asked, pending <- dt_pending, restored <- dt_restored,
  missed <- dt_missed, note <- dt_note, file <- dt_file, opening <- dt_opening,
  connected <- dt_connected, runs <- dt_runs
DetailsOff ==
  /\ dt_tabs = 0 /\ dt_active = 0 /\ dt_seen = 0 /\ dt_loads = 0 /\ dt_spawned = 0
  /\ dt_asked = 0 /\ dt_pending = 0 /\ dt_restored = 0 /\ dt_missed = 0
  /\ dt_note = 0 /\ dt_file = 0 /\ dt_opening = 0 /\ dt_connected = 0 /\ dt_runs = 0
DetailsVars ==
  <<dt_tabs, dt_active, dt_seen, dt_loads, dt_spawned, dt_asked, dt_pending,
    dt_restored, dt_missed, dt_note, dt_file, dt_opening, dt_connected, dt_runs>>

----------------------------------------------------------------------------
\* Two tasks of one service that start, die and leave; a day of the past.
PickerC == INSTANCE Picker WITH
  Tasks <- PkTasks, Service <- PkService, Days <- PkDays, MaxMoves <- PkMaxMoves,
  world <- pk_world, objects <- pk_objects, ran <- pk_ran, tab <- pk_tab,
  active <- pk_active, daily <- pk_daily, dayKey <- pk_dayKey, reading <- pk_reading,
  seen <- pk_seen, frame <- pk_frame, due <- pk_due, met <- pk_met,
  clicked <- pk_clicked, moves <- pk_moves
PickerOff ==
  /\ pk_world = 0 /\ pk_objects = 0 /\ pk_ran = 0 /\ pk_tab = 0 /\ pk_active = 0
  /\ pk_daily = 0 /\ pk_dayKey = 0 /\ pk_reading = 0 /\ pk_seen = 0 /\ pk_frame = 0
  /\ pk_due = 0 /\ pk_met = 0 /\ pk_clicked = 0 /\ pk_moves = 0
PickerVars ==
  <<pk_world, pk_objects, pk_ran, pk_tab, pk_active, pk_daily, pk_dayKey, pk_reading,
    pk_seen, pk_frame, pk_due, pk_met, pk_clicked, pk_moves>>

----------------------------------------------------------------------------
\* One JVM and one host.
InspectorC == INSTANCE Inspector WITH
  Jvms <- InJvms, Others <- InOthers, Lists <- InLists, Names <- InNames,
  Commands <- InCommands, Dangerous <- InDangerous, HeapVisible <- InHeapVisible,
  TotalPages <- InTotalPages, MaxMoves <- InMaxMoves, inspect <- in_inspect, page <- in_page, rows <- in_rows,
  answered <- in_answered, loading <- in_loading, error <- in_error, loads <- in_loads,
  query <- in_query, busy <- in_busy, ops <- in_ops, text <- in_text,
  wanted <- in_wanted, thread <- in_thread, action <- in_action, running <- in_running,
  moves <- in_moves
InspectorOff ==
  /\ in_inspect = 0 /\ in_page = 0 /\ in_rows = 0 /\ in_answered = 0
  /\ in_loading = 0 /\ in_error = 0 /\ in_loads = 0 /\ in_query = 0 /\ in_busy = 0
  /\ in_ops = 0 /\ in_text = 0 /\ in_wanted = 0 /\ in_thread = 0 /\ in_action = 0
  /\ in_running = 0 /\ in_moves = 0
InspectorVars ==
  <<in_inspect, in_page, in_rows, in_answered, in_loading, in_error, in_loads,
    in_query, in_busy, in_ops, in_text, in_wanted, in_thread, in_action, in_running,
    in_moves>>

----------------------------------------------------------------------------
\* Files of up to three lines over two keys, with repeated keys and comments.
ConfigEditsC == INSTANCE ConfigEdits WITH
  Keys <- {"a", "b"}, Values <- {0, 1}, Slashes <- {0}, MaxSaves <- 1, file <- ce_file,
  dialog <- ce_dialog, mode <- ce_mode, text <- ce_text, entries <- ce_entries,
  edits <- ce_edits, draft <- ce_draft, asked <- ce_asked, error <- ce_error,
  sent <- ce_sent, base <- ce_base, made <- ce_made, busy <- ce_busy, saves <- ce_saves
ConfigEditsOff ==
  /\ ce_file = 0 /\ ce_dialog = 0 /\ ce_mode = 0 /\ ce_text = 0 /\ ce_entries = 0
  /\ ce_edits = 0 /\ ce_draft = 0 /\ ce_asked = 0 /\ ce_error = 0 /\ ce_sent = 0
  /\ ce_base = 0 /\ ce_made = 0 /\ ce_busy = 0 /\ ce_saves = 0
ConfigEditsVars ==
  <<ce_file, ce_dialog, ce_mode, ce_text, ce_entries, ce_edits, ce_draft, ce_asked,
    ce_error, ce_sent, ce_base, ce_made, ce_busy, ce_saves>>

----------------------------------------------------------------------------
\* Three changes, two calls at once, a write that fails.
AppSettingsC == INSTANCE AppSettings WITH
  MaxChanges <- ApMaxChanges, MaxCalls <- ApMaxCalls, MaxFails <- ApMaxFails,
  mem <- ap_mem, disk <- ap_disk, shown <- ap_shown, calls <- ap_calls, dialog <- ap_dialog, copy <- ap_copy,
  told <- ap_told, changes <- ap_changes, fails <- ap_fails
AppSettingsOff ==
  /\ ap_mem = 0 /\ ap_disk = 0 /\ ap_shown = 0 /\ ap_calls = 0 /\ ap_dialog = 0
  /\ ap_copy = 0 /\ ap_told = 0 /\ ap_changes = 0 /\ ap_fails = 0
AppSettingsVars ==
  <<ap_mem, ap_disk, ap_shown, ap_calls, ap_dialog, ap_copy, ap_told, ap_changes,
    ap_fails>>

----------------------------------------------------------------------------
\* Two hosts and two users; a name that is also a host.
ServerListC == INSTANCE ServerList WITH
  Hosts <- SlHosts, Users <- SlUsers, Names <- SlNames, MaxSteps <- SlMaxSteps,
  servers <- sl_servers, current <- sl_current, conn <- sl_conn, form <- sl_form,
  asked <- sl_asked, byHand <- sl_byHand, last <- sl_last, steps <- sl_steps
ServerListOff ==
  /\ sl_servers = 0 /\ sl_current = 0 /\ sl_conn = 0 /\ sl_form = 0 /\ sl_asked = 0
  /\ sl_byHand = 0 /\ sl_last = 0 /\ sl_steps = 0
ServerListVars ==
  <<sl_servers, sl_current, sl_conn, sl_form, sl_asked, sl_byHand, sl_last, sl_steps>>

----------------------------------------------------------------------------
\* One behaviour is of one component; the variables of the others keep 0.
Init ==
  \/ /\ which = "TabWindows" /\ TabWindowsC!Init
     /\ DetailsOff /\ PickerOff /\ InspectorOff /\ ConfigEditsOff /\ AppSettingsOff
     /\ ServerListOff
  \/ /\ which = "Details" /\ DetailsC!Init
     /\ TabWindowsOff /\ PickerOff /\ InspectorOff /\ ConfigEditsOff
     /\ AppSettingsOff /\ ServerListOff
  \/ /\ which = "Picker" /\ PickerC!Init
     /\ TabWindowsOff /\ DetailsOff /\ InspectorOff /\ ConfigEditsOff
     /\ AppSettingsOff /\ ServerListOff
  \/ /\ which = "Inspector" /\ InspectorC!Init
     /\ TabWindowsOff /\ DetailsOff /\ PickerOff /\ ConfigEditsOff /\ AppSettingsOff
     /\ ServerListOff
  \/ /\ which = "ConfigEdits" /\ ConfigEditsC!Init
     /\ TabWindowsOff /\ DetailsOff /\ PickerOff /\ InspectorOff /\ AppSettingsOff
     /\ ServerListOff
  \/ /\ which = "AppSettings" /\ AppSettingsC!Init
     /\ TabWindowsOff /\ DetailsOff /\ PickerOff /\ InspectorOff /\ ConfigEditsOff
     /\ ServerListOff
  \/ /\ which = "ServerList" /\ ServerListC!Init
     /\ TabWindowsOff /\ DetailsOff /\ PickerOff /\ InspectorOff /\ ConfigEditsOff
     /\ AppSettingsOff

TabWindowsTurn ==
  /\ which = "TabWindows" /\ TabWindowsC!Next
  /\ UNCHANGED <<which, DetailsVars, PickerVars, InspectorVars, ConfigEditsVars,
                 AppSettingsVars, ServerListVars>>
DetailsTurn ==
  /\ which = "Details" /\ DetailsC!Next
  /\ UNCHANGED <<which, TabWindowsVars, PickerVars, InspectorVars, ConfigEditsVars,
                 AppSettingsVars, ServerListVars>>
PickerTurn ==
  /\ which = "Picker" /\ PickerC!Next
  /\ UNCHANGED <<which, TabWindowsVars, DetailsVars, InspectorVars, ConfigEditsVars,
                 AppSettingsVars, ServerListVars>>
InspectorTurn ==
  /\ which = "Inspector" /\ InspectorC!Next
  /\ UNCHANGED <<which, TabWindowsVars, DetailsVars, PickerVars, ConfigEditsVars,
                 AppSettingsVars, ServerListVars>>
ConfigEditsTurn ==
  /\ which = "ConfigEdits" /\ ConfigEditsC!Next
  /\ UNCHANGED <<which, TabWindowsVars, DetailsVars, PickerVars, InspectorVars,
                 AppSettingsVars, ServerListVars>>
AppSettingsTurn ==
  /\ which = "AppSettings" /\ AppSettingsC!Next
  /\ UNCHANGED <<which, TabWindowsVars, DetailsVars, PickerVars, InspectorVars,
                 ConfigEditsVars, ServerListVars>>
ServerListTurn ==
  /\ which = "ServerList" /\ ServerListC!Next
  /\ UNCHANGED <<which, TabWindowsVars, DetailsVars, PickerVars, InspectorVars,
                 ConfigEditsVars, AppSettingsVars>>

Next ==
  \/ TabWindowsTurn \/ DetailsTurn \/ PickerTurn \/ InspectorTurn \/ ConfigEditsTurn
  \/ AppSettingsTurn \/ ServerListTurn

allVars == <<which, TabWindowsVars, DetailsVars, PickerVars, InspectorVars, ConfigEditsVars,
  AppSettingsVars, ServerListVars>>
Spec == Init /\ [][Next]_allVars

----------------------------------------------------------------------------
\* A tab that nobody closed is in a window or on its way to one, every window can
\* show what it has, and once all is quiet the file holds it (App.tsx, xlogTabs.ts,
\* detached/).
TabsTrue ==
  which = "TabWindows" =>
    TabWindowsC!NothingLost /\ TabWindowsC!ScreensShowable /\ TabWindowsC!SettledSaved

\* A detail tab that spins has a load under way, and opening or answering closes
\* none and reopens none (useXLogDetailTabs.ts).
DetailsTrue ==
  /\ [](which = "Details" => DetailsC!TypeOK /\ DetailsC!SpinsTruly)
  /\ [][which = "Details" => DetailsC!ViewedStep]_allVars

\* What a tab asks for is what is picked in it (groupSelection.ts, App.tsx:1191-1243).
PickerTrue == which = "Picker" => PickerC!AskedIsPicked

\* The inspector shows the text that was asked for last (ObjectInspector.tsx).
InspectorTrue == which = "Inspector" => InspectorC!TextIsPicked

\* A save of the form changes what was drafted and nothing else (configEdits.ts).
ConfigTrue == [][which = "ConfigEdits" => ConfigEditsC!SavesStep]_allVars

\* config.json keeps what it was told: a reported change of the AI connection stays
\* (commands.rs:2339-2353), and a remembered password goes only when the user lets
\* it (ConnectionDialog.tsx, App.tsx:862-940).
SettingsTrue ==
  /\ [](which = "AppSettings" => AppSettingsC!McpKept)
  /\ [][which = "ServerList" => ServerListC!PassStep]_allVars
=============================================================================
