------------------------------- MODULE Askers -------------------------------
(***************************************************************************)
(* The hooks and panels that ask the server a question, derived from what  *)
(* the user has chosen, and show the answer: related transactions, their   *)
(* profiles, objects of a day, statistics of a type, the distribution of a *)
(* range, counters of the past, summaries, the topology, the inspector...  *)
(*                                                                         *)
(* Each is a React effect keyed by its question, or a `load` called by     *)
(* one.  They differ in what the effect does with the answers under way,   *)
(* with what is on the screen and with the spinner; a Policy says how, and *)
(* is read from the code of each hook.  One behaviour is one hook.         *)
(***************************************************************************)
EXTENDS Naturals, FiniteSets

CONSTANTS Questions,    \* what can be asked for: a transaction, a day, a kind...
          MaxAsks       \* bound: queries sent

VARIABLES hook,         \* whose policy this behaviour follows
          q,            \* the question of the present render, or None
          shown,        \* the question the result on the screen answers, or None
          loading,      \* the spinner
          err,          \* an error is shown
          asks,         \* queries under way: [id, q, live]
          sent

vars == <<hook, q, shown, loading, err, asks, sent>>

None == "none"

(***************************************************************************)
(* guarded  the cleanup of the effect makes earlier answers be dropped     *)
(* wipes    asking takes the earlier result off the screen                 *)
(* empties  having nothing to ask takes it off the screen                  *)
(* spins    there is a spinner; stops: nothing to ask turns it off         *)
(* quiet    asking clears the error; heals: a good answer clears it        *)
(* tells    a failure is shown; drops: and takes the result off the screen *)
(* again    the same question is asked again, by a timer or a button       *)
(***************************************************************************)
Policy(yes) == [f \in {"guarded", "wipes", "empties", "spins", "stops", "quiet",
                       "heals", "tells", "drops", "again"} |-> f \in yes]

CallTrace ==
  Policy({"guarded", "wipes", "empties", "spins", "stops", "quiet", "heals", "tells", "drops"})
FlowProfiles ==
  Policy({"guarded", "wipes", "empties", "spins", "stops", "quiet", "heals", "tells", "drops"})
PastCandidates == Policy({"guarded", "empties"})
ObjTypeStats   == Policy({"guarded", "empties", "stops", "heals", "tells", "again"})
RangeInsight   == Policy({"guarded", "empties", "spins", "quiet", "tells", "again"})
PastCounters   == Policy({"guarded", "empties", "spins", "quiet", "tells", "again"})
FiveMinChart   == Policy({"guarded", "heals", "tells", "drops", "again"})
ThreadDetail   == Policy({"guarded", "heals", "tells", "drops"})
QueryBind      == Policy({"guarded", "heals", "tells", "drops"})
SavedList      == Policy({"guarded", "heals", "tells", "drops"})
Summary        == Policy({"spins", "quiet", "tells", "again"})
Topology       == Policy({"spins", "heals", "tells", "again"})
Inspector      == Policy({"spins", "quiet", "tells", "again"})

Policies ==
  [callTrace |-> CallTrace, flowProfiles |-> FlowProfiles,
   pastCandidates |-> PastCandidates, objTypeStats |-> ObjTypeStats,
   rangeInsight |-> RangeInsight, pastCounters |-> PastCounters,
   fiveMinChart |-> FiveMinChart, threadDetail |-> ThreadDetail,
   queryBind |-> QueryBind, savedList |-> SavedList, summary |-> Summary,
   topology |-> Topology, inspector |-> Inspector]

P == Policies[hook]

\* Mutant: the effect has no cleanup.
Send_NoCleanup == asks' = asks
                  \union {[id |-> sent, q |-> q', live |-> TRUE]}

Send == asks' = {IF P.guarded THEN [a EXCEPT !.live = FALSE] ELSE a : a \in asks}
                  \union {[id |-> sent, q |-> q', live |-> TRUE]}

\* The question changes: the effect is cleaned up and runs again.
Ask(new) ==
  /\ new # q /\ sent < MaxAsks
  /\ q' = new
  /\ sent' = sent + 1
  /\ Send
  /\ shown' = IF P.wipes THEN None ELSE shown
  /\ loading' = P.spins
  /\ err' = (err /\ ~P.quiet)
  /\ UNCHANGED hook

\* There is nothing to ask any more: closed, disabled, disconnected, nothing
\* chosen.
Quit ==
  /\ q # None
  /\ q' = None
  /\ asks' = {IF P.guarded THEN [a EXCEPT !.live = FALSE] ELSE a : a \in asks}
  /\ shown' = IF P.empties THEN None ELSE shown
  /\ loading' = (loading /\ ~P.stops)
  /\ err' = (err /\ ~P.stops)
  /\ UNCHANGED <<hook, sent>>

\* The timer of a poll or the reload button.  A reload runs the effect again;
\* a poll of setInterval only sends.
Again ==
  /\ P.again /\ q # None /\ sent < MaxAsks
  /\ sent' = sent + 1
  /\ q' = q
  /\ \/ /\ P.spins /\ Send
     \/ /\ ~P.spins
        /\ asks' = asks \union {[id |-> sent, q |-> q, live |-> TRUE]}
  /\ loading' = P.spins
  /\ err' = (err /\ ~P.quiet)
  /\ UNCHANGED <<hook, shown>>

Answer(a) ==
  /\ asks' = asks \ {a}
  /\ IF a.live
     THEN /\ shown' = a.q
          /\ err' = (err /\ ~P.heals)
          /\ loading' = FALSE
     ELSE UNCHANGED <<shown, err, loading>>
  /\ UNCHANGED <<hook, q, sent>>

Fails(a) ==
  /\ asks' = asks \ {a}
  /\ IF a.live
     THEN /\ shown' = IF P.drops THEN None ELSE shown
          /\ err' = (err \/ P.tells)
          /\ loading' = FALSE
     ELSE UNCHANGED <<shown, err, loading>>
  /\ UNCHANGED <<hook, q, sent>>

Init ==
  /\ hook \in DOMAIN Policies
  /\ q = None /\ shown = None
  /\ loading = FALSE /\ err = FALSE
  /\ asks = {} /\ sent = 0

Next ==
  \/ \E new \in Questions : Ask(new)
  \/ Quit \/ Again
  \/ \E a \in asks : Answer(a) \/ Fails(a)

Spec == Init /\ [][Next]_vars
FairSpec == Spec /\ WF_vars(\E a \in asks : Answer(a) \/ Fails(a))
----------------------------------------------------------------------------
TypeOK ==
  /\ q \in Questions \union {None} /\ shown \in Questions \union {None}
  /\ loading => P.spins
  /\ asks \subseteq [id : 0..(MaxAsks - 1), q : Questions, live : BOOLEAN]

\* Which hooks the two properties cannot be asked of, and why.
Unguarded == {h \in DOMAIN Policies : ~Policies[h].guarded}   \* no cancellation
Mute      == {"pastCandidates"}                  \* a failure leaves the old list
Sticky    == {"rangeInsight", "pastCounters"}    \* nothing turns the spinner off

\* With answers in any order, and whatever is chosen meanwhile, a hook that
\* cancels never rests on the answer to an earlier question: such a result is
\* only on the screen while the query for the present one is under way, or
\* next to its error.
ShownIsAsked ==
  (hook \notin Unguarded \union Mute /\ q # None /\ shown \notin {None, q}) =>
    (err \/ \E a \in asks : a.live /\ a.q = q)

\* A spinner that turns has a query under way whose answer will stop it.
SpinnerTrue ==
  (loading /\ (hook \in Sticky => q # None)) => \E a \in asks : a.live

\* The panels without cancellation too rest on the answer to the question of
\* the present render.  Does not hold: SummaryPanel, TopologyPanel and the
\* inspector take whatever answer comes last.
LastIsAsked == (q # None /\ shown \notin {None, q} /\ asks = {}) => err
============================================================================
