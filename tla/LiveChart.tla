----------------------------- MODULE LiveChart -----------------------------
(***************************************************************************)
(* The live XLog chart of one pane: the window's XLog stream as the        *)
(* application opens it (App.tsx), the buffer it fills (XLogDataStore,     *)
(* useXLogStream), the past part of the window that is loaded behind it    *)
(* (useLiveBackfill, planBackfill), the pause (pauseModel) and the reset   *)
(* at a new connection (useConnectionReset).                               *)
(*                                                                         *)
(* Every object ends one transaction per tick, and the collector keeps     *)
(* them all: a point is an object, the tick and the connection it was read *)
(* from.  React runs the effects of a render together, so an action of the *)
(* user carries the cleanups and the effects of the render it causes.      *)
(***************************************************************************)
EXTENDS Integers, Sequences, FiniteSets

CONSTANTS
    Objects,       \* the objects of the collectors
    Ranges,        \* timeRangeMs: the widths of the window, in ticks
    Caps,          \* bufferMax: the limits of the buffer
    Latest,        \* how many ticks the first answer of a stream goes back
    MinFill,       \* MIN_BACKFILL_MS, in ticks
    DayStart,      \* midnight: nothing older is loaded
    Start, MaxTime,    \* the clock runs from Start to MaxTime
    MaxEpoch, MaxUser  \* bounds: connections, and commands of the user

VARIABLES
    now,           \* serverNow()
    user,          \* how many commands the user has given (bound)
    connected, epoch, past, selected, range,   \* what the screen shows
    items, hasHistory, maxItems,               \* XLogDataStore
    pausedAt,      \* PauseState.at, or Never
    stream,        \* the objects of the open stream and the time read so far
    covered,       \* coveredRef: the servers that were filled once, or Forgotten
    timer,         \* BACKFILL_DELAY_MS is running
    load,          \* the run of loadPastXLogs, or NoLoad
    loading,       \* the state the notice is drawn from
    holed,         \* history: the objects with a gap the code accepts
    behind         \* history: the objects filled up to the edge of another

screen == <<connected, epoch, past, selected, range>>
store == <<items, hasHistory, maxItems>>
fill == <<covered, timer, load, loading>>
history == <<holed, behind>>
vars == <<now, user, screen, store, pausedAt, stream, fill, history>>

Never == -1
Forgotten == {Never}
NoLoad == [jobs |-> <<>>, aborted |-> TRUE, of |-> 0]
Closed == [objs |-> {}, upTo |-> Never]
Max(a, b) == IF a > b THEN a ELSE b
Elements(s) == {s[i] : i \in DOMAIN s}
Times(hs, from, to) == {[h |-> h, t |-> t, e |-> epoch] : h \in hs, t \in from .. to}

\* The points of a set in the order of their time.
InOrder(set) ==
    LET Before(p, q) == p.t < q.t \/ (p.t = q.t /\ p.h # q.h
                          /\ p.h = CHOOSE h \in {p.h, q.h} : TRUE)
    IN  CHOOSE s \in [1 .. Cardinality(set) -> set] :
          /\ Elements(s) = set
          /\ \A i, j \in DOMAIN s : i < j => Before(s[i], s[j])

-----------------------------------------------------------------------------
(* The buffer.                                                             *)

Cutoff(r) == now - r

\* prune: with history mixed in everything is looked at, else the prefix.
InWindow(s, r) ==
    LET Young(p) == p.t >= Cutoff(r)
        first == {i \in DOMAIN s : Young(s[i])}
    IN  IF hasHistory THEN SelectSeq(s, Young)
        ELSE IF first = {} THEN <<>>
        ELSE SubSeq(s, CHOOSE i \in first : \A j \in first : i <= j, Len(s))

\* prune: beyond the limit the front of the array goes, whatever its time.
Capped(s) == SubSeq(s, Max(0, Len(s) - maxItems) + 1, Len(s))

Oldest(hs) ==
    LET ts == {p.t : p \in {q \in Elements(items) : q.h \in hs}}
    IN  IF ts = {} THEN Never ELSE CHOOSE t \in ts : \A u \in ts : t <= u

\* Mutant: the range of a paused screen is not stretched by the pause.
PruneRange_Plain == range

PruneRange == IF pausedAt = Never THEN range ELSE range + Max(0, now - pausedAt)
FrozenWindow == (pausedAt - range) .. pausedAt

-----------------------------------------------------------------------------
(* The plan of the backfill.                                               *)

WindowStart == Max(now - range, DayStart)

\* planBackfill: a job for the servers picked since, one for those known.
Plan ==
    LET known == IF covered = Forgotten THEN {} ELSE covered
        fresh == IF covered = Forgotten THEN {} ELSE selected \ known
        old == IF covered = Forgotten THEN selected ELSE selected \cap known
        Edge(t) == IF t = Never THEN now ELSE t
        Job(hs, edge) ==
            IF hs # {} /\ edge - WindowStart >= MinFill
            THEN <<[objs |-> hs, left |-> Times(hs, WindowStart, edge)]>> ELSE <<>>
    IN  [fresh |-> fresh,
         jobs |-> Job(fresh, Edge(Oldest(fresh))) \o Job(old, Edge(Oldest(Objects))),
         next |-> known \cup selected]

-----------------------------------------------------------------------------
(* The effects of a render.                                                *)

\* What a load that is cut short leaves out: its servers count as filled.
Lost == IF load.aborted THEN {} ELSE UNION {j.objs : j \in Elements(load.jobs)}

\* useLiveBackfill: the cleanup aborts, then the timer starts again.
Refill(forget, enabled, sel) ==
    /\ load' = [load EXCEPT !.aborted = TRUE]
    /\ covered' = IF forget \/ ~enabled THEN Forgotten ELSE covered
    /\ timer' = (enabled /\ sel # {})
    /\ UNCHANGED loading

\* App: the stream is opened for what is selected, and closed for nothing.
Open(sel, live) ==
    stream' = IF live THEN [objs |-> sel, upTo |-> Never] ELSE Closed

Clear ==
    /\ items' = <<>>
    /\ hasHistory' = FALSE
    /\ pausedAt' = Never
    /\ UNCHANGED maxItems

Command == user < MaxUser /\ user' = user + 1

-----------------------------------------------------------------------------
(* Time, the stream and the loads.                                         *)

\* A tick is longer than the interval of the polls.
Tick ==
    /\ now < MaxTime
    /\ stream.objs # {} => stream.upTo = now
    /\ now' = now + 1
    /\ UNCHANGED <<user, screen, store, pausedAt, stream, fill, history>>

\* A poll answers the latest points first, then those since the last poll;
\* the handler appends the batch (addBatch).
Poll ==
    /\ stream.objs # {}
    /\ stream.upTo < now
    /\ LET from == IF stream.upTo = Never THEN Max(0, now - Latest) ELSE stream.upTo
       IN  items' = items \o InOrder(Times(stream.objs, from + 1, now))
    /\ stream' = [stream EXCEPT !.upTo = now]
    /\ UNCHANGED <<now, user, screen, hasHistory, maxItems, pausedAt, fill, history>>

Prune ==
    /\ items' = Capped(InWindow(items, PruneRange))
    /\ items' # items
    /\ holed' = IF Len(items') = maxItems THEN Objects ELSE holed
    /\ UNCHANGED <<now, user, screen, hasHistory, maxItems, pausedAt, stream, fill, behind>>

\* The timer fires: what is covered is recorded before it is loaded.  The
\* first bundle of the stream has come by then: two seconds are four polls.
StartFill ==
    /\ timer
    /\ stream.upTo # Never
    /\ timer' = FALSE
    /\ covered' = Plan.next
    /\ IF Plan.jobs = <<>> THEN UNCHANGED <<load, loading>>
       ELSE /\ load' = [jobs |-> Plan.jobs, aborted |-> FALSE, of |-> epoch]
            /\ loading' = TRUE
    /\ behind' = behind \cup {h \in selected \ Plan.fresh : Oldest({h}) # Oldest(Objects)}
    /\ UNCHANGED <<now, user, screen, store, pausedAt, stream, holed>>

\* Mutant: pages of an aborted load are still taken.
Heard_Always == TRUE

\* Is the answer of a page still wanted?
Heard == ~load.aborted

Rest(left) == IF left = {} THEN Tail(load.jobs)
              ELSE <<[Head(load.jobs) EXCEPT !.left = left]>> \o Tail(load.jobs)

\* A page of one of the slices that are asked at once arrives: one tick of it.
Page ==
    /\ load.jobs # <<>>
    /\ \E t \in {p.t : p \in Head(load.jobs).left} :
         LET page == {p \in Head(load.jobs).left : p.t = t}
             rest == Rest(Head(load.jobs).left \ page)
         IN  IF Heard
             THEN /\ items' = items \o InOrder(page)
                  /\ hasHistory' = TRUE
                  /\ load' = IF rest = <<>> THEN NoLoad ELSE [load EXCEPT !.jobs = rest]
                  /\ loading' = (rest # <<>>)
                  /\ holed' = holed \cup (IF t < WindowStart THEN Head(load.jobs).objs ELSE {})
             ELSE load' = NoLoad /\ UNCHANGED <<items, hasHistory, loading, holed>>
    /\ UNCHANGED <<now, user, screen, maxItems, pausedAt, stream, covered, timer, behind>>

LoadFails ==
    /\ load.jobs # <<>>
    /\ load' = NoLoad
    /\ loading' = IF load.aborted THEN loading ELSE FALSE
    /\ holed' = holed \cup Lost
    /\ UNCHANGED <<now, user, screen, store, pausedAt, stream, covered, timer, behind>>

-----------------------------------------------------------------------------
(* The user, and the connection.                                           *)

Select(sel) ==
    /\ Command /\ connected /\ sel # selected
    /\ selected' = sel
    /\ Refill(FALSE, ~past, sel)
    /\ Open(sel, ~past)
    /\ holed' = holed \cup Lost \cup (selected \ sel)
    /\ UNCHANGED <<now, connected, epoch, past, range, store, pausedAt, behind>>

SetRange(r) ==
    /\ Command /\ r # range
    /\ range' = r
    /\ Refill(FALSE, connected /\ ~past, selected)
    /\ holed' = holed \cup Lost
    /\ UNCHANGED <<now, connected, epoch, past, selected, store, pausedAt, stream, behind>>

\* The past keeps the live buffer, but nothing is received meanwhile.
SetMode(p) ==
    /\ Command /\ connected /\ p # past
    /\ past' = p
    /\ pausedAt' = IF p THEN Never ELSE pausedAt
    /\ Refill(FALSE, ~p, selected)
    /\ Open(selected, ~p)
    /\ holed' = holed \cup selected
    /\ UNCHANGED <<now, connected, epoch, selected, range, store, behind>>

TogglePause ==
    /\ Command /\ ~past
    /\ pausedAt' = IF pausedAt = Never THEN now ELSE Never
    /\ UNCHANGED <<now, screen, store, stream, fill, history>>

\* F5 over the connection that is there: the buffer is filled from the start.
Refresh ==
    /\ Command /\ connected /\ ~past
    /\ Clear
    /\ Refill(TRUE, TRUE, selected)
    /\ Open(selected, TRUE)
    /\ holed' = {} /\ behind' = {}
    /\ UNCHANGED <<now, screen>>

Disconnect ==
    /\ Command /\ connected
    /\ connected' = FALSE
    /\ Clear
    /\ Refill(FALSE, FALSE, selected)
    /\ Open({}, FALSE)
    /\ holed' = {} /\ behind' = {}
    /\ UNCHANGED <<now, epoch, past, selected, range>>

\* A connection, or the end of one and the next in a single render.
Connect ==
    /\ epoch < MaxEpoch
    /\ Command
    /\ connected' = TRUE
    /\ epoch' = epoch + 1
    /\ Clear
    /\ Refill(TRUE, ~past, selected)
    /\ Open(selected, ~past)
    /\ holed' = {} /\ behind' = {}
    /\ UNCHANGED <<now, past, selected, range>>

-----------------------------------------------------------------------------
Init ==
    /\ now = Start /\ user = 0
    /\ connected = TRUE /\ epoch = 1 /\ past = FALSE
    /\ selected = {} /\ range \in Ranges
    /\ items = <<>> /\ hasHistory = FALSE /\ maxItems \in Caps
    /\ pausedAt = Never
    /\ stream = Closed
    /\ covered = Forgotten /\ timer = FALSE /\ load = NoLoad /\ loading = FALSE
    /\ holed = {} /\ behind = {}

Next ==
    \/ Tick \/ Poll \/ Prune \/ StartFill \/ Page \/ LoadFails
    \/ \E sel \in SUBSET Objects : Select(sel)
    \/ \E r \in Ranges : SetRange(r)
    \/ \E p \in BOOLEAN : SetMode(p)
    \/ TogglePause \/ Refresh \/ Disconnect \/ Connect

Spec == Init /\ [][Next]_vars

-----------------------------------------------------------------------------
(* Properties.                                                             *)

\* The buffer holds points of the collector that is connected, and of no
\* other: the hashes are those of names, so those of the next collector may
\* be the same and the filter of the screen would let the old points pass.
OneServer == \A p \in Elements(items) : p.e = epoch

\* Once the selected servers count as filled and nothing is under way, every
\* point of the window the stream has reached is in the buffer, for each
\* server without a gap the code leaves: one that was deselected, a load cut
\* short, a page that the window had left behind when it came, a visit to the
\* past, the limit of the buffer; and but for those planned with the edge of
\* another server.
Settled == ~timer /\ load.jobs = <<>> /\ covered # Forgotten /\ ~past /\ connected
InBuffer(h, t) == \E p \in Elements(items) : p.h = h /\ p.t = t
Filled ==
    Settled => \A h \in (selected \cap covered) \ (holed \cup behind),
                  t \in WindowStart .. stream.upTo : InBuffer(h, t)

\* The same with no regard to the edge: planBackfill says that a server of the
\* first plan has been received since the connection, so that the oldest point
\* of the buffer is the edge of each.
FilledFromAnyEdge ==
    Settled => \A h \in (selected \cap covered) \ holed,
                  t \in WindowStart .. stream.upTo : InBuffer(h, t)

\* Between two looks at a paused screen no point of the frozen window goes,
\* as long as the limit of the buffer is not reached.
PauseStep ==
    pausedAt # Never /\ pausedAt' = pausedAt /\ range' = range /\ Len(items) <= maxItems
        => \A p \in Elements(items) : p.t \in FrozenWindow => p \in Elements(items')
PauseKeeps == [][PauseStep]_vars

\* Beyond the limit the buffer drops the oldest points, as it says.
CapDropsOldest ==
    [][now' = now /\ user' = user =>
         \A p \in Elements(items) \ Elements(items'), q \in Elements(items') : p.t <= q.t]_vars
=============================================================================
