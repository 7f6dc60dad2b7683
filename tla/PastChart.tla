----------------------------- MODULE PastChart -----------------------------
(***************************************************************************)
(* The XLog chart of one pane over an interval of the past (usePastXLog):  *)
(* a buffer of its own that is filled with the parts of the view it lacks  *)
(* (planFetch), and that the effects of a new connection empty.            *)
(*                                                                         *)
(* Every target (a list of objects) has one transaction per tick.  An      *)
(* interval has both of its ends, here and in the query of the collector.  *)
(***************************************************************************)
EXTENDS Integers, Sequences, FiniteSets

CONSTANTS
    Targets,     \* the lists of objects the user looks at
    LastTick,    \* the ticks of the past are 0 .. LastTick
    MaxUser      \* bound: the commands of the user

VARIABLES
    user, connected,
    view,        \* range: the interval on the screen, or NoView in the live mode
    target,      \* objHashes
    loaded,      \* loadedRef: the interval the buffer holds, or NoView
    copies,      \* the buffer: how often it holds each point
    load,        \* the run of loadPastXLogs, or NoLoad
    loading, error, truncated,   \* what the screen is told
    seams,       \* history: the ticks at which two parts were joined
    disturbed    \* history: a load was aborted, cut or failed since all was reloaded

history == <<seams, disturbed>>
vars == <<user, connected, view, target, loaded, copies, load, loading, error, truncated, history>>
told == <<loading, error, truncated>>

Ticks == 0 .. LastTick
Points == Targets \X Ticks
Intervals == {[s |-> s, e |-> e] : s \in Ticks, e \in Ticks}
Views == {v \in Intervals : v.s < v.e}
NoView == [s |-> 1, e |-> 0]
NoLoad == [parts |-> <<>>, left |-> {}, of |-> CHOOSE t \in Targets : TRUE,
           then |-> NoView, aborted |-> TRUE]
Empty == [p \in Points |-> 0]
Within(v, w) == v.s >= w.s /\ v.e <= w.e
Apart(v, w) == v.e < w.s \/ v.s > w.e
Min(a, b) == IF a < b THEN a ELSE b
Max(a, b) == IF a > b THEN a ELSE b

-----------------------------------------------------------------------------
\* Mutant: the part on the right of what is held is not planned.
PlanFetch_LeftOnly(v, held) ==
    IF held = NoView \/ Apart(v, held) THEN [reset |-> TRUE, fetch |-> <<v>>, loaded |-> v]
    ELSE IF Within(v, held) THEN [reset |-> FALSE, fetch |-> <<>>, loaded |-> held]
    ELSE [reset |-> FALSE,
          fetch |-> (IF v.s < held.s THEN <<[s |-> v.s, e |-> held.s]>> ELSE <<>>)
                    \o <<>>,
          loaded |-> [s |-> Min(v.s, held.s), e |-> Max(v.e, held.e)]]

\* planFetch: what the view lacks, and whether what is held can be kept.
PlanFetch(v, held) ==
    IF held = NoView \/ Apart(v, held) THEN [reset |-> TRUE, fetch |-> <<v>>, loaded |-> v]
    ELSE IF Within(v, held) THEN [reset |-> FALSE, fetch |-> <<>>, loaded |-> held]
    ELSE [reset |-> FALSE,
          fetch |-> (IF v.s < held.s THEN <<[s |-> v.s, e |-> held.s]>> ELSE <<>>)
                    \o (IF v.e > held.e THEN <<[s |-> held.e, e |-> v.e]>> ELSE <<>>),
          loaded |-> [s |-> Min(v.s, held.s), e |-> Max(v.e, held.e)]]

Begin(parts, of, then) ==
    [parts |-> parts, left |-> Head(parts).s .. Head(parts).e, of |-> of,
     then |-> then, aborted |-> FALSE]

Busy == load.parts # <<>>
Live == Busy /\ ~load.aborted

\* The effect of a render that changed the view, the target or the nonce: the
\* load before it is aborted, and what the new view lacks is loaded.
Effect(v, tg, held, buffer) ==
    LET plan == PlanFetch(v, held)
        kept == IF plan.reset THEN Empty ELSE buffer
    IN  /\ disturbed' = (held # NoView /\ v # NoView /\ (disturbed \/ Live))
        /\ IF v = NoView
           THEN /\ copies' = Empty /\ loaded' = NoView /\ seams' = {}
                /\ load' = [load EXCEPT !.aborted = TRUE]
                /\ error' = FALSE /\ truncated' = FALSE /\ UNCHANGED loading
           ELSE /\ copies' = kept
                /\ seams' = IF plan.reset THEN {} ELSE seams \cup {held.s, held.e}
                /\ IF plan.fetch = <<>>
                   THEN /\ loaded' = plan.loaded
                        /\ load' = [load EXCEPT !.aborted = TRUE]
                        /\ UNCHANGED told
                   ELSE /\ load' = Begin(plan.fetch, tg, plan.loaded)
                        /\ loading' = TRUE /\ error' = FALSE
                        /\ truncated' = (truncated /\ ~plan.reset)
                        /\ loaded' = held

Command == user < MaxUser /\ user' = user + 1

-----------------------------------------------------------------------------
(* The user and the connection.                                            *)

Look(v) ==
    /\ Command /\ v # view
    /\ view' = v
    /\ Effect(v, target, loaded, copies)
    /\ UNCHANGED <<connected, target>>

Aim(tg) ==
    /\ Command /\ tg # target
    /\ target' = tg
    /\ Effect(view, tg, NoView, copies)
    /\ UNCHANGED <<connected, view>>

Reload ==
    /\ Command
    /\ Effect(view, target, NoView, copies)
    /\ UNCHANGED <<connected, view, target>>

\* useConnectionReset: the end of a connection empties the buffer, the next
\* one empties it and loads the view again.
Disconnect ==
    /\ Command /\ connected
    /\ connected' = FALSE
    /\ copies' = Empty
    /\ UNCHANGED <<view, target, loaded, load, told, history>>

Connect ==
    /\ Command
    /\ connected' = TRUE
    /\ Effect(view, target, NoView, Empty)
    /\ UNCHANGED <<view, target>>

-----------------------------------------------------------------------------
(* The load.                                                               *)

\* Mutant: a page of an aborted load is added.
Page_Unasked ==
    /\ Busy
    /\ \E t \in load.left :
         /\ load' = [load EXCEPT !.left = @ \ {t}]
         /\ copies' = [copies EXCEPT ![<<load.of, t>>] = Min(2, @ + 1)]
    /\ UNCHANGED <<user, connected, view, target, loaded, told, history>>

\* A page arrives, of one of the slices of the part.
Page ==
    /\ Busy
    /\ \E t \in load.left :
         /\ load' = [load EXCEPT !.left = @ \ {t}]
         /\ copies' = IF load.aborted THEN copies
                      ELSE [copies EXCEPT ![<<load.of, t>>] = Min(2, @ + 1)]
    /\ UNCHANGED <<user, connected, view, target, loaded, told, history>>

\* The last progress of a part says whether it was cut at MAX_PAGES; the next
\* part begins, or the interval counts as held.
PartEnds ==
    /\ Busy
    /\ \E cut \in BOOLEAN :
         /\ ~cut => load.left = {}
         /\ disturbed' = (disturbed \/ (cut /\ ~load.aborted))
         /\ truncated' = IF load.aborted THEN truncated ELSE cut
    /\ IF load.aborted THEN load' = NoLoad /\ UNCHANGED <<loaded, loading>>
       ELSE IF Len(load.parts) > 1
       THEN /\ load' = Begin(Tail(load.parts), load.of, load.then)
            /\ UNCHANGED <<loaded, loading>>
       ELSE load' = NoLoad /\ loaded' = load.then /\ loading' = FALSE
    /\ UNCHANGED <<user, connected, view, target, copies, error, seams>>

LoadFails ==
    /\ Busy
    /\ load' = NoLoad
    /\ IF load.aborted THEN UNCHANGED <<loading, error>> ELSE loading' = FALSE /\ error' = TRUE
    /\ disturbed' = (disturbed \/ ~load.aborted)
    /\ UNCHANGED <<user, connected, view, target, loaded, copies, truncated, seams>>

Init ==
    /\ user = 0 /\ connected = TRUE
    /\ view = NoView /\ target \in Targets
    /\ loaded = NoView /\ copies = Empty /\ load = NoLoad
    /\ loading = FALSE /\ error = FALSE /\ truncated = FALSE
    /\ seams = {} /\ disturbed = FALSE

Next ==
    \/ \E v \in Views \cup {NoView} : Look(v)
    \/ \E tg \in Targets : Aim(tg)
    \/ Reload \/ Disconnect \/ Connect
    \/ Page \/ PartEnds \/ LoadFails

Spec == Init /\ [][Next]_vars

-----------------------------------------------------------------------------
(* Properties.                                                             *)

\* The buffer never mixes two targets: what is held for other objects answers
\* another question, also when their load is still under way.
PastOneTarget == \A p \in Points : copies[p] > 0 => p[1] = target

\* When no load was cut, aborted or failed since the whole was last loaded,
\* the interval that counts as held is held: each of its points is there, once
\* (twice at a seam, which both parts ask for), and nothing else is.
PastExact ==
    connected /\ ~disturbed /\ ~Busy =>
      \A t \in Ticks : /\ (t \in loaded.s .. loaded.e) <=> (copies[<<target, t>>] > 0)
                       /\ copies[<<target, t>>] > 1 => t \in seams

\* loadedRef is the interval that has been received: looking inside of it loads
\* nothing, so a point that is missing from it stays missing.
PastHeld ==
    connected /\ ~truncated => \A t \in loaded.s .. loaded.e : copies[<<target, t>>] > 0

\* A part that is joined to what is held brings each point once, but at seams.
PastOnce == \A p \in Points : copies[p] > 1 => p[2] \in seams

\* The chart says that it is loading while it is.
LoadingTruthful == loading => Live
=============================================================================
