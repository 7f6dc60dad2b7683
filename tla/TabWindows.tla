----------------------------- MODULE TabWindows -----------------------------
(***************************************************************************)
(* The main window, the windows detached from it, and the file: App.tsx    *)
(* with detached/protocol.ts, registry.ts and windows.ts.  A tab belongs   *)
(* to one window and moves between them in events.  The main window keeps  *)
(* the registry of the detached windows and is the only one that writes    *)
(* the file.  The events of one window are delivered in order; the main    *)
(* window handles them with what it has last rendered (`seen').            *)
(***************************************************************************)
EXTENDS XLogTabs, TLC

CONSTANTS
    Labels,     \* the names xlogwin-1, xlogwin-2, ... in the order they are given
    MaxId,      \* bound: tabs made
    MaxUser,    \* bound: operations of the user
    MaxRun      \* bound: times the program is started

Default == 0    \* the conditions a window starts with

VARIABLES
    main,       \* xlogTabs of the main window
    hydrated,   \* "reading", "read", "failed": getConfig of the main window
    reg,        \* xlogWindows: label -> what that window shows
    seen,       \* xlogWindowsRef: reg as last rendered
    used,       \* usedWindowLabelsRef
    unsaved,    \* the 600 ms timer of the save effect is set
    win,        \* the detached windows: label -> their state
    toMain,     \* events on their way to the main window
    init,       \* labels with an `init' event on its way, and what it holds
    file,       \* config.json: tabs, windows
    made, user, run,
    alive,      \* history: the tabs made or read and not closed by the user
    hasty,      \* history: tabs of a window that was closed before it had them,
                \* or made in a window that was already leaving
    missed      \* history: the last write of the file failed

screen == <<main, hydrated, reg, seen, used, unsaved>>
counts == <<made, user, run>>
vars == <<screen, win, toMain, init, file, counts, alive, hasty, missed>>

Closed == [st |-> "closed"]
Blank  == [st |-> "blank", s |-> Alone(Default)]
Shows(s) == [st |-> "open", s |-> s, due |-> TRUE, snap |-> <<>>, leaving |-> FALSE]

Init ==
    /\ main = Alone(Default) /\ hydrated = "reading"
    /\ reg = <<>> /\ seen = <<>> /\ used = {} /\ unsaved = FALSE
    /\ win = [l \in Labels |-> Closed]
    /\ toMain = <<>> /\ init = <<>>
    /\ file = [main |-> FromTabs(Alone(1)), wins |-> <<>>]
    /\ made = 1 /\ user = 0 /\ run = 1
    /\ alive = {} /\ hasty = {} /\ missed = FALSE

Set(w, l, v) == [k \in DOMAIN w \cup {l} |-> IF k = l THEN v ELSE w[k]]
Drop(w, l) == [k \in DOMAIN w \ {l} |-> w[k]]

(* nextWindowLabel: a name above every one in use.                         *)
\* Mutant: a label counts as used while its window is open only.
FreshLabel_Open == {l \in Labels : \A k \in DOMAIN seen : k < l}

FreshLabel == {l \in Labels : \A k \in used \cup DOMAIN seen : k < l}

Acts == hydrated # "reading" /\ user < MaxUser /\ user' = user + 1
Rendered == seen = reg

(***************************************************************************)
(* Starting: the configuration is read once.  The screen counts as read    *)
(* whether or not that worked, and from then on changes are saved.         *)
(***************************************************************************)
Boot ==
    /\ hydrated = "reading" /\ hydrated' = "read"
    /\ main' = ToTabs(file.main)
    /\ reg' = file.wins /\ seen' = file.wins
    /\ used' = used \cup DOMAIN file.wins
    /\ win' = [l \in Labels |-> IF l \in DOMAIN file.wins THEN Blank ELSE Closed]
    /\ unsaved' = TRUE
    /\ alive' = Range(Ids(main')) \cup UNION {Range(file.wins[l].tabs) : l \in DOMAIN file.wins}
    /\ UNCHANGED <<toMain, init, file, counts, hasty, missed>>

BootFails ==
    /\ hydrated = "reading" /\ hydrated' = "failed"
    /\ main' = Alone(Default) /\ alive' = {}
    /\ unsaved' = TRUE
    /\ UNCHANGED <<reg, seen, used, win, toMain, init, file, counts, hasty, missed>>

(* Every window shows what it has been told: refs follow the state.        *)
Render == /\ seen # reg /\ seen' = reg
          /\ UNCHANGED <<main, hydrated, reg, used, unsaved, win, toMain, init, file,
                         counts, alive, hasty, missed>>

-----------------------------------------------------------------------------
(* A window that could not be opened gives its tabs to the main window.    *)
OpenWindow(l, content, m, r) ==
    \/ /\ win' = [win EXCEPT ![l] = Blank]
       /\ reg' = Set(r, l, content) /\ main' = m
    \/ /\ main' = ImportTabs(m, content.tabs)
       /\ reg' = Drop(r, l) /\ UNCHANGED win

(* openDetached *)
OpenDetached(ids, m) ==
    IF ids = <<>> \/ FreshLabel = {} THEN main' = m /\ UNCHANGED <<reg, used, win>>
    ELSE LET l == CHOOSE x \in FreshLabel : \A y \in FreshLabel : x <= y
         IN /\ used' = used \cup {l}
            /\ OpenWindow(l, [tabs |-> ids, panes |-> <<1>>, active |-> 1], m, reg)

(* The tab row, the split view and the chart of the main window.           *)
MainEdits ==
    /\ Acts /\ Rendered
    /\ \/ /\ made < MaxId /\ Len(main.tabs) < MaxTabs
          /\ main' = AddTab(main, made + 1)
          /\ made' = made + 1 /\ alive' = alive \cup {made + 1}
       \/ \E k \in Keys(main) :
             /\ main' = CloseTab(main, k) /\ main' # main
             /\ alive' = alive \ (Range(Ids(main)) \ Range(Ids(main')))
             /\ UNCHANGED made
       \/ \E k \in Keys(main) :
             /\ \/ main' = Activate(main, k)
                \/ main' = ClosePane(main, k)
                \/ \E t \in Range(main.panes), side \in {"center", "before", "after"} :
                      main' = DropTab(main, k, t, side)
             /\ main' # main
             /\ UNCHANGED <<made, alive>>
    /\ unsaved' = TRUE
    /\ UNCHANGED <<hydrated, reg, seen, used, win, toMain, init, file, run, hasty, missed>>

(* handleXLogTabDetach in the main window: the tab leaves at once.         *)
MainDetaches ==
    /\ Acts /\ Rendered /\ Len(main.tabs) > 1 /\ FreshLabel # {}
    /\ \E i \in DOMAIN main.tabs :
          OpenDetached(<<main.tabs[i].id>>, CloseTab(main, main.tabs[i].key))
    /\ unsaved' = TRUE
    /\ UNCHANGED <<hydrated, seen, toMain, init, file, made, run, alive, hasty, missed>>

(***************************************************************************)
(* A detached window asks for its tabs until it has them; it shows them    *)
(* only once.                                                              *)
(***************************************************************************)
Event(t, l, ids, rest) == [type |-> t, label |-> l, tabs |-> ids, more |-> rest]
Emit(e) == toMain' = Append(toMain, e)

Hello(l) ==
    /\ win[l].st = "blank"
    /\ ~\E i \in DOMAIN toMain : toMain[i].type = "hello" /\ toMain[i].label = l
    /\ l \notin DOMAIN init
    /\ Emit(Event("hello", l, <<>>, FALSE))
    /\ UNCHANGED <<screen, win, init, file, counts, alive, hasty, missed>>

InitArrives(l) ==
    /\ l \in DOMAIN init /\ init' = Drop(init, l)
    /\ win' = IF win[l].st = "blank"
              THEN [win EXCEPT ![l] = Shows(ToTabs(init[l]))] ELSE win
    /\ UNCHANGED <<screen, toMain, file, counts, alive, hasty, missed>>

(* The snapshot of a window: 600 ms after a change its content is taken,   *)
(* and sent when the place of the window is known.                         *)
\* Mutant: a change made while a snapshot waits is taken as sent.
TakeSnapshot_Late(l) ==
    /\ win[l].st = "open" /\ win[l].due 
    /\ win' = [win EXCEPT ![l].due = FALSE,
                          ![l].snap = IF @ = <<>> THEN <<FromTabs(win[l].s)>> ELSE @]
    /\ UNCHANGED <<screen, toMain, init, file, counts, alive, hasty, missed>>

TakeSnapshot(l) ==
    /\ win[l].st = "open" /\ win[l].due /\ win[l].snap = <<>>
    /\ win' = [win EXCEPT ![l].due = FALSE, ![l].snap = <<FromTabs(win[l].s)>>]
    /\ UNCHANGED <<screen, toMain, init, file, counts, alive, hasty, missed>>

SendSnapshot(l) ==
    /\ win[l].st = "open" /\ win[l].snap # <<>>
    /\ Emit(Event("snapshot", l, <<>>, win[l].snap[1]))
    /\ win' = [win EXCEPT ![l].snap = <<>>]
    /\ UNCHANGED <<screen, init, file, counts, alive, hasty, missed>>

WindowEdits(l) ==
    /\ Acts /\ win[l].st = "open"
    /\ LET s == win[l].s IN
       \/ /\ made < MaxId /\ Len(s.tabs) < MaxTabs
          /\ win' = [win EXCEPT ![l].s = AddTab(s, made + 1), ![l].due = TRUE]
          /\ made' = made + 1 /\ alive' = alive \cup {made + 1}
          /\ hasty' = IF win[l].leaving THEN hasty \cup {made + 1} ELSE hasty
       \/ \E k \in Keys(s) :
             /\ Len(s.tabs) > 1
             /\ win' = [win EXCEPT ![l].s = CloseTab(s, k), ![l].due = TRUE]
             /\ alive' = alive \ {s.tabs[TabAt(s, k)].id}
             /\ UNCHANGED <<made, hasty>>
    /\ UNCHANGED <<screen, toMain, init, file, run, missed>>

(* handleXLogTabDetach in a detached window: the main window opens it.     *)
WindowDetaches(l) ==
    /\ Acts /\ win[l].st = "open" /\ Len(win[l].s.tabs) > 1 /\ FreshLabel # {}
    /\ \E i \in DOMAIN win[l].s.tabs :
          /\ Emit(Event("detach", l, <<win[l].s.tabs[i].id>>, FALSE))
          /\ win' = [win EXCEPT ![l].s = CloseTab(win[l].s, win[l].s.tabs[i].key),
                                ![l].due = TRUE]
    /\ UNCHANGED <<screen, init, file, made, run, alive, hasty, missed>>

(* handleSendTabToMain: the last tab takes the window with it.             *)
SendTabToMain(l) ==
    /\ Acts /\ win[l].st = "open"
    /\ LET s == win[l].s
           last == Len(s.tabs) <= 1
       IN \E i \in DOMAIN s.tabs :
            /\ Emit(Event("merge", l, <<s.tabs[i].id>>, last))
            /\ win' = IF last THEN [win EXCEPT ![l].leaving = TRUE]
                      ELSE [win EXCEPT ![l].s = CloseTab(s, s.tabs[i].key), ![l].due = TRUE]
    /\ UNCHANGED <<screen, init, file, made, run, alive, hasty, missed>>

(* handleMergeWindow, and the end of a window that sent everything: it is  *)
(* there until the event has been handed over.                             *)
MergeWindow(l) ==
    /\ Acts /\ win[l].st = "open"
    /\ Emit(Event("merge", l, Ids(win[l].s), TRUE))
    /\ win' = [win EXCEPT ![l].leaving = TRUE]
    /\ UNCHANGED <<screen, init, file, made, run, alive, hasty, missed>>

Destroy(l) ==
    /\ win[l].st = "open" /\ win[l].leaving
    /\ win' = [win EXCEPT ![l] = Closed]
    /\ UNCHANGED <<screen, toMain, init, file, counts, alive, hasty, missed>>

(* The user closes the window: its tabs, whatever it shows, go home.       *)
CloseWindow(l) ==
    /\ Acts /\ win[l].st \in {"open", "blank"}
    /\ Emit(Event("merge", l, Ids(win[l].s), TRUE))
    /\ hasty' = IF win[l].st = "blank" /\ l \in DOMAIN reg
                THEN hasty \cup Range(reg[l].tabs) ELSE hasty
    /\ win' = [win EXCEPT ![l] = Closed]
    /\ UNCHANGED <<screen, init, file, made, run, alive, missed>>

-----------------------------------------------------------------------------
(* The main window handles the next event.                                 *)
Deliver ==
    /\ toMain # <<>> /\ hydrated # "reading"
    /\ toMain' = Tail(toMain)
    /\ LET e == Head(toMain) IN
       CASE e.type = "hello" ->
              /\ init' = IF e.label \in DOMAIN seen
                         THEN Set(init, e.label, seen[e.label]) ELSE init
              /\ UNCHANGED <<main, reg, used, unsaved, win>>
         [] e.type = "snapshot" ->
              /\ reg' = IF e.label \in DOMAIN seen THEN Set(reg, e.label, e.more) ELSE reg
              /\ unsaved' = (unsaved \/ reg' # reg)
              /\ UNCHANGED <<main, used, win, init>>
         [] e.type = "merge" ->
              /\ main' = ImportTabs(main, Ids(ToTabs([tabs |-> e.tabs, panes |-> <<>>, active |-> 1])))
              /\ reg' = IF e.more THEN Drop(reg, e.label) ELSE reg
              /\ unsaved' = TRUE
              /\ UNCHANGED <<used, win, init>>
         [] OTHER ->
              /\ OpenDetached(e.tabs, main)
              /\ unsaved' = TRUE
              /\ UNCHANGED init
    /\ UNCHANGED <<hydrated, seen, file, counts, alive, hasty, missed>>

(* The save effect of the main window; a failed write is not repeated.     *)
Save ==
    /\ unsaved /\ Rendered /\ hydrated # "reading"
    /\ unsaved' = FALSE
    /\ \/ /\ file' = [main |-> FromTabs(main), wins |-> seen] /\ missed' = FALSE
       \/ /\ missed' = TRUE /\ user < MaxUser /\ UNCHANGED file
    /\ user' = IF missed' THEN user + 1 ELSE user
    /\ UNCHANGED <<main, hydrated, reg, seen, used, win, toMain, init, made, run, alive, hasty>>

(* The main window is closed, or the program ends: every window goes with  *)
(* it, and the next run starts from the file.                              *)
Restart ==
    /\ run < MaxRun /\ run' = run + 1 /\ hydrated # "reading"
    /\ hydrated' = "reading" /\ main' = Alone(Default)
    /\ reg' = <<>> /\ seen' = <<>> /\ used' = {} /\ unsaved' = FALSE
    /\ win' = [l \in Labels |-> Closed] /\ toMain' = <<>> /\ init' = <<>>
    /\ alive' = {} /\ hasty' = {} /\ missed' = FALSE
    /\ UNCHANGED <<file, made, user>>

Next ==
    \/ Boot \/ BootFails \/ Render \/ MainEdits \/ MainDetaches \/ Deliver \/ Save \/ Restart
    \/ \E l \in Labels :
          \/ Hello(l) \/ InitArrives(l) \/ TakeSnapshot(l) \/ SendSnapshot(l)
          \/ WindowEdits(l) \/ WindowDetaches(l) \/ SendTabToMain(l) \/ MergeWindow(l)
          \/ Destroy(l) \/ CloseWindow(l)

Spec == Init /\ [][Next]_vars

-----------------------------------------------------------------------------
(* Every window can show its tabs, whatever was closed, dropped, imported  *)
(* or read from the file: the panes exist, each once, and the active one   *)
(* is among them (xlogTabs.ts:50, `panes').                                *)
ScreensShowable ==
    /\ Showable(main)
    /\ \A l \in Labels : win[l].st = "open" => Showable(win[l].s)

InHand ==
    Range(Ids(main))
    \cup UNION {Range(Ids(win[l].s)) : l \in {k \in Labels : win[k].st = "open"}}
    \cup UNION {Range(reg[l].tabs) : l \in {k \in DOMAIN reg : win[k].st = "blank"}}
    \cup UNION {Range(toMain[i].tabs) : i \in DOMAIN toMain}

(* A tab nobody closed is somewhere: in a window, in an event, or kept for *)
(* a window that has not asked for it yet (App.tsx:973-1070).  The tabs of a *)
(* window closed before it got them are not: see ClosingReturns.           *)
NothingLost == alive \ hasty \subseteq InHand

(* What App.tsx:631-632 says of closing a window: its tabs go back to the  *)
(* main window, none is lost.                                              *)
ClosingReturns == alive \subseteq InHand

Quiet == /\ hydrated = "read" /\ Rendered /\ ~unsaved /\ ~missed
         /\ toMain = <<>> /\ init = <<>>
         /\ \A l \in Labels : \/ win[l].st = "closed"
                              \/ /\ win[l].st = "open" /\ ~win[l].due
                                 /\ win[l].snap = <<>> /\ ~win[l].leaving

(* Once everything has settled the file holds what the screens show, so    *)
(* that a program that dies then comes back as it was (App.tsx:646, 700).  *)
SettledSaved ==
    Quiet => /\ file.main = FromTabs(main)
             /\ \A l \in Labels : win[l].st = "open" =>
                   l \in DOMAIN file.wins /\ file.wins[l] = FromTabs(win[l].s)

(* What App.tsx:571-572 says of a configuration that could not be read:    *)
(* the defaults on the screen do not replace it.                           *)
FailedReadKeeps == [][hydrated = "failed" /\ user = 0 => UNCHANGED file]_vars
=============================================================================
