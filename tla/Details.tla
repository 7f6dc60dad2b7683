------------------------------ MODULE Details ------------------------------
(***************************************************************************)
(* The tabs of opened transactions: hooks/useXLogDetailTabs.ts, the loader *)
(* of one profile (hooks/useXLogDetail.ts), what is remembered of them in  *)
(* the configuration file (hooks/openDetails.ts) and the effects of        *)
(* App.tsx that save them, restore them after a start and drop them when   *)
(* the connection ends; the list of saved profiles                         *)
(* (components/SavedProfileDialog.tsx).                                    *)
(*                                                                         *)
(* React may run a state updater when it is queued or at the next render,  *)
(* so what `open` learns from inside its updater (`alreadyOpen`) may still *)
(* be FALSE when it is read.                                               *)
(***************************************************************************)
EXTENDS Naturals, Sequences, FiniteSets, SequencesExt, Listing

CONSTANTS Txids,        \* transactions
          MaxTabs,      \* MAX_DETAIL_TABS
          MaxSpawn,     \* bound: profile loads started
          MaxRuns       \* bound: starts of the application

VARIABLES tabs,         \* <<[key, loading, err, prof]>>, left to right
          active,       \* key of the viewed tab, or None
          seen,         \* keys, the longest unseen first (touchedAt)
          loads,        \* loads under way: [key, id]
          spawned,      \* loads started
          asked,        \* restore and openByTxid queries under way: {[key, restore]}
          pending,      \* open_details read at the start
          restored,     \* restoredRef
          missed,       \* restored details that failed, so far
          note,         \* restoreMissed, what the window says
          file,         \* open_details in config.json
          opening,      \* the saved profile being read, or None
          connected,
          runs

vars == <<tabs, active, seen, loads, spawned, asked, pending, restored, missed,
          note, file, opening, connected, runs>>

None == [kind |-> "none", id |-> "none"]
Live(x)  == [kind |-> "txid", id |-> x]
Saved(x) == [kind |-> "file", id |-> x]      \* `file:<txid>:<saved_at>`
Keys == {Live(x) : x \in Txids} \union {Saved(x) : x \in Txids}

Tab(k, loading) == [key |-> k, loading |-> loading, err |-> FALSE, prof |-> ~loading]
KeysOf(ts) == {ts[i].key : i \in DOMAIN ts}
At(ts, k)  == CHOOSE i \in DOMAIN ts : ts[i].key = k
Without(ts, k) == Only(ts, {t \in ToSet(ts) : t.key # k})
Touch(s, k) == Append(Only(s, ToSet(s) \ {k}), k)

\* The longest unseen tab other than the viewed one makes room.
Room(ts) ==
  LET others == Only(seen, ToSet(seen) \ {active})
  IN  IF Len(ts) >= MaxTabs /\ others # <<>> THEN Without(ts, Head(others)) ELSE ts

\* The updater shared by `open` and `openSaved`.
Show(k, loading) ==
  /\ active' = k
  /\ tabs' = IF k \in KeysOf(tabs) THEN tabs ELSE Append(Room(tabs), Tab(k, loading))
  /\ seen' = Touch(Only(seen, KeysOf(tabs')), k)

\* `open`: the tab, and a load unless the tab was seen to be open already.
Open(x) ==
  /\ Show(Live(x), TRUE)
  /\ \/ /\ Live(x) \in KeysOf(tabs)
        /\ UNCHANGED <<loads, spawned>>
     \/ /\ spawned < MaxSpawn
        /\ spawned' = spawned + 1
        /\ loads' = loads \union {[key |-> Live(x), id |-> spawned]}

OpenRow(x) ==
  /\ Open(x)
  /\ UNCHANGED <<asked, pending, restored, missed, note, file, opening, connected, runs>>

\* Mutant: a late answer opens its tab again.
Loaded_Reopens ==
  \E l \in loads : \E ok \in BOOLEAN :
    /\ loads' = loads \ {l}
    /\ tabs' = IF l.key \notin KeysOf(tabs) THEN Append(tabs, Tab(l.key, FALSE))
               ELSE LET i == At(tabs, l.key)
                    IN  [tabs EXCEPT ![i].loading = FALSE, ![i].err = ~ok,
                                     ![i].prof = IF ok THEN TRUE ELSE @]
    /\ UNCHANGED <<active, seen, spawned, asked, pending, restored, missed, note,
                   file, opening, connected, runs>>

\* Mutant: a failed load leaves the tab loading.
Loaded_SpinsOn ==
  \E l \in loads : \E ok \in BOOLEAN :
    /\ loads' = loads \ {l}
    /\ tabs' = IF l.key \notin KeysOf(tabs) THEN tabs
               ELSE LET i == At(tabs, l.key)
                    IN  [tabs EXCEPT ![i].loading = ~ok, ![i].err = ~ok,
                                     ![i].prof = IF ok THEN TRUE ELSE @]
    /\ UNCHANGED <<active, seen, spawned, asked, pending, restored, missed, note,
                   file, opening, connected, runs>>

\* The answer of a load: dropped when the tab has been closed meanwhile.
Loaded ==
  \E l \in loads : \E ok \in BOOLEAN :
    /\ loads' = loads \ {l}
    /\ tabs' = IF l.key \notin KeysOf(tabs) THEN tabs
               ELSE LET i == At(tabs, l.key)
                    IN  [tabs EXCEPT ![i].loading = FALSE, ![i].err = ~ok,
                                     ![i].prof = IF ok THEN TRUE ELSE @]
    /\ UNCHANGED <<active, seen, spawned, asked, pending, restored, missed, note,
                   file, opening, connected, runs>>

\* SavedProfileDialog.open: one file at a time; the tab needs no query.
ReadSaved(x) ==
  /\ opening = None
  /\ opening' = Saved(x)
  /\ UNCHANGED <<tabs, active, seen, loads, spawned, asked, pending, restored,
                 missed, note, file, connected, runs>>

SavedRead ==
  /\ opening # None
  /\ opening' = None
  /\ \/ Show(opening, FALSE)
     \/ UNCHANGED <<tabs, active, seen>>
  /\ UNCHANGED <<loads, spawned, asked, pending, restored, missed, note, file,
                 connected, runs>>

Close(k) ==
  /\ k \in KeysOf(tabs)
  /\ LET i == At(tabs, k)
         rest == Without(tabs, k)
     IN  /\ tabs' = rest
         /\ seen' = Only(seen, ToSet(seen) \ {k})
         /\ active' = IF active # k THEN active
                      ELSE IF rest = <<>> THEN None
                      ELSE rest[IF i <= Len(rest) THEN i ELSE Len(rest)].key
  /\ UNCHANGED <<loads, spawned, asked, pending, restored, missed, note, file,
                 opening, connected, runs>>

CloseAll ==
  /\ tabs # <<>>
  /\ tabs' = <<>> /\ active' = None /\ seen' = <<>>
  /\ UNCHANGED <<loads, spawned, asked, pending, restored, missed, note, file,
                 opening, connected, runs>>

Activate(k) ==
  /\ k \in KeysOf(tabs)
  /\ active' = k
  /\ seen' = Touch(seen, k)
  /\ UNCHANGED <<tabs, loads, spawned, asked, pending, restored, missed, note,
                 file, opening, connected, runs>>

\* The next or the previous tab, round the end.
Cycle ==
  /\ tabs # <<>>
  /\ LET n == Len(tabs)
         i == IF active \in KeysOf(tabs) THEN At(tabs, active) - 1 ELSE 0
     IN  \E step \in {1, n - 1} :
           LET k == tabs[((i + step) % n) + 1].key
           IN  active' = k /\ seen' = Touch(seen, k)
  /\ UNCHANGED <<tabs, loads, spawned, asked, pending, restored, missed, note,
                 file, opening, connected, runs>>

----------------------------------------------------------------------------
\* openDetails.ts: what is written of the tabs, and what is read back.
FromTabs(ts) ==
  LET live == Only(ts, {t \in ToSet(ts) : t.key.kind = "txid"})
  IN  [i \in DOMAIN live |-> live[i].key.id]
Normalize(list) ==
  LET first == {i \in DOMAIN list : \A j \in 1..(i - 1) : list[j] # list[i]}
      once == Only([i \in DOMAIN list |-> i], first)
      n == IF Len(once) < MaxTabs THEN Len(once) ELSE MaxTabs
  IN  [i \in 1..n |-> list[once[i]]]

\* The save effect, 600 ms after the last change of the tabs or of the layout.
Save ==
  /\ file' = FromTabs(tabs)
  /\ UNCHANGED <<tabs, active, seen, loads, spawned, asked, pending, restored,
                 missed, note, opening, connected, runs>>

\* The restore effect: once in a run, at the first connection.
Restore ==
  /\ connected /\ ~restored /\ pending # <<>>
  /\ restored' = TRUE
  /\ asked' = asked \union {[key |-> Live(pending[i]), restore |-> TRUE]
                            : i \in DOMAIN pending}
  /\ UNCHANGED <<tabs, active, seen, loads, spawned, pending, missed, note, file,
                 opening, connected, runs>>

\* openByTxid: a transaction named in a summary or in an alert.
Ask(x) ==
  /\ connected
  /\ asked' = asked \union {[key |-> Live(x), restore |-> FALSE]}
  /\ UNCHANGED <<tabs, active, seen, loads, spawned, pending, restored, missed,
                 note, file, opening, connected, runs>>

\* getXLogDetail answers: the tab opens, or a restored one counts as missed;
\* the note is set when the last of the restored ones has answered.
Answered ==
  \E a \in asked :
    /\ asked' = asked \ {a}
    /\ \/ Open(a.key.id) /\ UNCHANGED missed
       \/ /\ missed' = IF a.restore THEN missed + 1 ELSE missed
          /\ UNCHANGED <<tabs, active, seen, loads, spawned>>
    /\ note' = IF a.restore /\ ~\E b \in asked' : b.restore THEN missed' ELSE note
    /\ UNCHANGED <<pending, restored, file, opening, connected, runs>>

\* The note fades.
NoteFades ==
  /\ note > 0
  /\ note' = 0
  /\ UNCHANGED <<tabs, active, seen, loads, spawned, asked, pending, restored,
                 missed, file, opening, connected, runs>>

Connect ==
  /\ ~connected
  /\ connected' = TRUE
  /\ UNCHANGED <<tabs, active, seen, loads, spawned, asked, pending, restored,
                 missed, note, file, opening, runs>>

\* onDisconnected closes every tab; the queries under way go on.
Disconnect ==
  /\ connected
  /\ connected' = FALSE
  /\ tabs' = <<>> /\ active' = None /\ seen' = <<>>
  /\ UNCHANGED <<loads, spawned, asked, pending, restored, missed, note, file,
                 opening, runs>>

\* The application ends, and starts again from the file.
Restart ==
  /\ runs < MaxRuns
  /\ runs' = runs + 1
  /\ tabs' = <<>> /\ active' = None /\ seen' = <<>>
  /\ loads' = {} /\ asked' = {} /\ opening' = None
  /\ pending' = Normalize(file)
  /\ restored' = FALSE /\ missed' = 0 /\ note' = 0
  /\ connected' = FALSE
  /\ UNCHANGED <<spawned, file>>

Init ==
  /\ tabs = <<>> /\ active = None /\ seen = <<>>
  /\ loads = {} /\ spawned = 0 /\ asked = {} /\ opening = None
  /\ file \in {<<>>} \union {<<x>> : x \in Txids}
  /\ pending = Normalize(file)
  /\ restored = FALSE /\ missed = 0 /\ note = 0
  /\ connected = FALSE
  /\ runs = 0

Next ==
  \/ \E x \in Txids : OpenRow(x) \/ ReadSaved(x) \/ Ask(x)
  \/ \E k \in Keys : Close(k) \/ Activate(k)
  \/ Loaded \/ SavedRead \/ CloseAll \/ Cycle \/ Save \/ Restore \/ Answered
  \/ NoteFades \/ Connect \/ Disconnect \/ Restart

Spec == Init /\ [][Next]_vars
----------------------------------------------------------------------------
TypeOK ==
  /\ Len(tabs) <= MaxTabs
  /\ Cardinality(KeysOf(tabs)) = Len(tabs)
  /\ active \in KeysOf(tabs) \union {None}
  /\ ToSet(seen) = KeysOf(tabs) /\ Len(seen) = Len(tabs)
  /\ \A l \in loads : l.key.kind = "txid"
  /\ opening \in {Saved(x) : x \in Txids} \union {None}

\* A tab that says it is loading has a load of its own under way: closing a
\* tab while it loads and opening it again, or opening it twice in one render,
\* never leaves a tab that spins for ever (useXLogDetailTabs.ts:155-190).
SpinsTruly == \A i \in DOMAIN tabs :
  tabs[i].loading => \E l \in loads : l.key = tabs[i].key

\* Opening makes room without closing the tab that is being viewed, and an
\* answer that comes late never brings a closed tab back (the comments of
\* useXLogDetailTabs.ts:92-93 and 130).
ViewedStep ==
  /\ (active # None /\ Len(tabs') >= Len(tabs)) => active \in KeysOf(tabs')
  /\ (loads' # loads /\ spawned' = spawned) => KeysOf(tabs') \subseteq KeysOf(tabs)
ViewedStays == [][ViewedStep]_vars

\* What was open when the application ended is asked for again before the
\* file that remembers it is written over (App.tsx:1503 "the tabs open when it
\* was closed come back").  Does not hold: the save effect writes the tabs of
\* the window, none yet, while the connection is still to be made.
RemembersUntilRestored == [][
  (pending # <<>> /\ ~restored /\ runs' = runs) => ToSet(pending) \subseteq ToSet(file')
  ]_vars
============================================================================
