----------------------------- MODULE TraceTrees -----------------------------
(***************************************************************************)
(* The calls around the transaction of the detail panel.                   *)
(*                                                                         *)
(* useCallTrace asks for the transactions of the same trace when a panel   *)
(* opens, and callTree.ts hangs each under its caller.  In the detailed    *)
(* mode useFlowProfiles asks for the profiles of all of them, and          *)
(* flowTree.ts hangs a service under the step that called it, else under   *)
(* its caller, with the other steps as leaves.  An effect that runs again  *)
(* no longer takes the answer of its previous run.                         *)
(*                                                                         *)
(* Names, texts and agents are left out: a leaf is what is folded into one *)
(* row, its kind and its hash.                                             *)
(***************************************************************************)
EXTENDS Integers, Sequences, FiniteSets, SequencesExt, FiniteSetsExt, Functions

CONSTANTS Txs,        \* transactions
          Gxid,       \* of each; "0" when it is alone
          Begin, Elapsed, \* of each, in ms
          Answers,    \* bound: what the collector may have of a trace, in order
          Callers,    \* bound: who may have called whom
          Profiles,   \* bound: the steps the transactions may have
          MaxMoves    \* bound: commands of the user

VARIABLES caller,     \* of each transaction; itself when nobody called it
          steps,      \* the profile of each, as the collector has it
          shown, known, \* the tab of the panel, and whether its row has come: state.xlog
          trace,      \* useCallTrace: [loading, failed, rows]
          asked,      \* requests of useCallTrace on their way: [run, gxid]
          mode, showSql, showApiCall,
          flow,       \* useFlowProfiles: [loading, error, profiles, failed]
          fetching,   \* requests of useFlowProfiles: [run, rows]
          traceRun, flowRun, \* runs of the two effects; the last one is alive
          moves

world == <<caller, steps>>
panel == <<shown, known, mode, showSql, showApiCall>>
vars  == <<world, panel, trace, asked, flow, fetching, traceRun, flowRun, moves>>

Nobody == "nobody"
NoTrace == [loading |-> FALSE, failed |-> FALSE, rows |-> <<>>]
NoFlow  == [loading |-> FALSE, error |-> FALSE, profiles |-> <<>>, failed |-> 0]
EndTime(x) == Begin[x] + Elapsed[x]
Most(a, b)  == IF a < b THEN b ELSE a
Least(a, b) == IF a < b THEN a ELSE b

----------------------------------------------------------------------------
\* When nobody is a root, the first row is cut loose.
CutFirst(parent, rows) ==
  IF rows # <<>> /\ \A x \in DOMAIN parent : parent[x] # Nobody
  THEN [parent EXCEPT ![rows[1]] = Nobody] ELSE parent

CallTree(rows) ==
  LET in == Range(rows)
  IN  CutFirst([x \in in |-> IF caller[x] \in in \ {x} THEN caller[x] ELSE Nobody], rows)

\* The rows a walk from the roots comes by, and how deep each is indented.
Levels(parent) ==
  LET level[n \in 0..Cardinality(DOMAIN parent)] ==
        IF n = 0 THEN {x \in DOMAIN parent : parent[x] = Nobody}
        ELSE {x \in DOMAIN parent : parent[x] \in level[n - 1]}
  IN  level
Listed(parent) == UNION Range(Levels(parent))
Depth(parent, x) == CHOOSE n \in DOMAIN Levels(parent) : x \in Levels(parent)[n]

\* traceSpan and waterfallGeometry, in parts of 1/200 of the line; at least 3 wide.
Span(in) == [start |-> Min({Begin[x] : x \in in}),
             total |-> Most(1, Max({EndTime(x) : x \in in}) - Min({Begin[x] : x \in in}))]
Bar(x, span) ==
  LET left == Least(200 - 3, ((Begin[x] - span.start) * 200) \div span.total)
  IN  [left |-> left, width |-> Least(200 - left, Most(3, (Elapsed[x] * 200) \div span.total))]
SelfTime(parent, x) ==
  Most(0, Elapsed[x] - MapThenSumSet(LAMBDA c : Elapsed[c], {c \in DOMAIN parent : parent[c] = x}))

----------------------------------------------------------------------------
\* flowTree.ts.  A call is an ApiCall, or a ThreadCall that did start a thread.
IsCall(step) == step.kind \in {"ApiCall", "ThreadCall"}

CallsOf(rows, got) ==
  FlattenSeq([i \in DOMAIN rows |->
    IF rows[i] \notin DOMAIN got THEN <<>>
    ELSE LET made == SelectSeq(got[rows[i]], IsCall)
         IN  [j \in DOMAIN made |-> [parent |-> rows[i], to |-> made[j].to]]])

\* Mutant: the last call wins, and a step may call its own transaction.
LinkBySteps_Last(rows, got) ==
  FoldLeft(LAMBDA linked, c :
             IF c.to \in Range(rows)
             THEN [linked EXCEPT ![c.to] = c.parent] ELSE linked,
           [x \in Range(rows) |-> Nobody], CallsOf(rows, got))

\* The first step that names a service of the trace takes it; the caller is asked next.
LinkBySteps(rows, got) ==
  FoldLeft(LAMBDA linked, c :
             IF c.to \in Range(rows) \ {c.parent} /\ linked[c.to] = Nobody
             THEN [linked EXCEPT ![c.to] = c.parent] ELSE linked,
           [x \in Range(rows) |-> Nobody], CallsOf(rows, got))

FlowTree(rows, got) ==
  LET linked == LinkBySteps(rows, got)
  IN  CutFirst([x \in Range(rows) |->
                  IF linked[x] # Nobody THEN linked[x]
                  ELSE IF caller[x] \in Range(rows) \ {x} THEN caller[x] ELSE Nobody], rows)

\* Mutant: a call that leaves the trace is no leaf.
IsLeaf_SqlOnly(step, rows) ==
  step.kind = "Sql" /\ showSql

\* A step that is a leaf, and how many of one kind and hash are folded into it.
IsLeaf(step, rows) ==
  \/ step.kind = "Sql" /\ showSql
  \/ IsCall(step) /\ step.to \notin Range(rows) /\ showApiCall
Leaves(rows, got, x) ==
  LET at(k) == {p \in (1..Len(rows)) \X (1..Len(got[x])) :
                  LET step == got[x][p[2]]
                  IN  rows[p[1]] = x /\ IsLeaf(step, rows) /\ <<step.kind, step.hash>> = k}
      keys == {<<s.kind, s.hash>> : s \in Range(got[x])}
  IN  IF x \notin DOMAIN got THEN {}
      ELSE {[key |-> k, count |-> Cardinality(at(k))] : k \in {q \in keys : at(q) # {}}}

\* The rows of the two lists, each with its indent; a click on one shows that transaction.
AppRows(rows) ==
  LET tree == CallTree(rows)
  IN  {[tx |-> x, depth |-> Depth(tree, x), bar |-> Bar(x, Span(Range(rows))),
        self |-> SelfTime(tree, x)] : x \in Listed(tree)}
FlowRows(rows, got) ==
  LET tree == FlowTree(rows, got)
  IN  {[tx |-> x, depth |-> Depth(tree, x), leaves |-> Leaves(rows, got, x)] : x \in Listed(tree)}

----------------------------------------------------------------------------
\* The effect of useFlowProfiles: it runs again when the rows or the mode change.
FlowEffect(t, m) ==
  IF <<t.rows, m = "flow">> = <<trace.rows, mode = "flow">>
  THEN UNCHANGED <<flow, fetching, flowRun>>
  ELSE /\ flowRun' = flowRun + 1
       /\ IF m # "flow" \/ t.rows = <<>> THEN flow' = NoFlow /\ UNCHANGED fetching
          ELSE /\ flow' = [NoFlow EXCEPT !.loading = TRUE]
               /\ fetching' = fetching \cup {[run |-> flowRun + 1, rows |-> t.rows]}

GxidOf(x) == IF x = Nobody THEN "0" ELSE Gxid[x]

\* The effect of useCallTrace, in the panel of a tab: nothing to ask when it is alone.
TraceEffect(x) ==
  /\ traceRun' = traceRun + 1
  /\ IF GxidOf(x) = "0" THEN trace' = NoTrace /\ UNCHANGED asked
     ELSE /\ trace' = [NoTrace EXCEPT !.loading = TRUE]
          /\ asked' = asked \cup {[run |-> traceRun + 1, gxid |-> GxidOf(x)]}

\* Another tab, a row of a tree, or none: the panel of each tab is a new one.  The
\* row of a tab that was opened by its id comes later.
Show(x) ==
  /\ moves < MaxMoves /\ moves' = moves + 1
  /\ shown' = x /\ x # shown
  /\ known' \in {x # Nobody, FALSE}
  /\ mode' = "apps" /\ showSql' = TRUE /\ showApiCall' = TRUE
  /\ TraceEffect(IF known' THEN x ELSE Nobody)
  /\ flow' = NoFlow /\ flowRun' = flowRun + 1
  /\ UNCHANGED <<world, fetching>>

RowComes ==
  /\ shown # Nobody /\ ~known /\ known' = TRUE
  /\ TraceEffect(shown)
  /\ UNCHANGED <<world, shown, mode, showSql, showApiCall, flow, fetching, flowRun, moves>>

\* The rows of the trace, with the names of their services, or an error.
TraceAnswer(r) ==
  /\ asked' = asked \ {r}
  /\ IF r.run # traceRun THEN UNCHANGED trace
     ELSE \/ \E rows \in {a \in Answers : \A x \in Range(a) : Gxid[x] = r.gxid} :
               trace' = [loading |-> FALSE, failed |-> FALSE, rows |-> rows]
          \/ trace' = [NoTrace EXCEPT !.failed = TRUE]
  /\ FlowEffect(trace', mode)
  /\ UNCHANGED <<world, panel, traceRun, moves>>

\* All profiles have come or failed, and the texts of their steps with them.
FlowAnswer(r) ==
  /\ fetching' = fetching \ {r}
  /\ IF r.run # flowRun THEN UNCHANGED flow
     ELSE \/ \E lost \in SUBSET DOMAIN r.rows :
               LET come == {r.rows[i] : i \in DOMAIN r.rows \ lost}
               IN  flow' = IF come = {} THEN [NoFlow EXCEPT !.error = TRUE]
                           ELSE [loading |-> FALSE, error |-> FALSE,
                                 profiles |-> [x \in come |-> steps[x]],
                                 failed |-> Cardinality(lost)]
          \/ flow' = [NoFlow EXCEPT !.error = TRUE]
  /\ UNCHANGED <<world, panel, trace, asked, traceRun, flowRun, moves>>

Choose ==
  /\ moves < MaxMoves /\ moves' = moves + 1
  /\ trace.rows # <<>>
  /\ \/ mode' \in {"apps", "flow"} \ {mode} /\ UNCHANGED <<showSql, showApiCall>>
     \/ mode = "flow" /\ showSql' = ~showSql /\ UNCHANGED <<mode, showApiCall>>
     \/ mode = "flow" /\ showApiCall' = ~showApiCall /\ UNCHANGED <<mode, showSql>>
  /\ FlowEffect(trace, mode')
  /\ UNCHANGED <<world, shown, known, trace, asked, traceRun>>

Init ==
  /\ caller \in Callers /\ steps \in Profiles
  /\ shown = Nobody /\ known = FALSE /\ trace = NoTrace /\ asked = {} /\ traceRun = 0
  /\ mode = "apps" /\ showSql = TRUE /\ showApiCall = TRUE
  /\ flow = NoFlow /\ fetching = {} /\ flowRun = 0 /\ moves = 0

Next ==
  \/ \E x \in Txs \cup {Nobody} : Show(x)
  \/ RowComes
  \/ \E r \in asked : TraceAnswer(r)
  \/ \E r \in fetching : FlowAnswer(r)
  \/ Choose

Spec == Init /\ [][Next]_vars

----------------------------------------------------------------------------
\* What the panel draws: the section is there when there is more than one row.
AppsShown == trace.rows # <<>> /\ Len(trace.rows) > 1 /\ mode = "apps"
FlowShown == trace.rows # <<>> /\ Len(trace.rows) > 1 /\ mode = "flow"
             /\ ~flow.loading /\ ~flow.error

\* No call leads back: neither by the callers nor by the steps.
Leads(x) == ({caller[x]} \ {x})
Into(x)  == {y \in Txs : \E i \in DOMAIN steps[y] :
                 IsCall(steps[y][i]) /\ steps[y][i].to = x} \ {x}
Orderly(in) == \A c \in (SUBSET in) \ {{}} :
                 \E x \in c : (Leads(x) \cup Into(x)) \cap c = {}

(* The trees leave nobody out and invent nothing: whenever no call leads   *)
(* back, every transaction of the trace is one row, in the tree of the     *)
(* applications and, whatever profiles were lost, in the detailed one;     *)
(* the bars lie within the line; and when no profile was lost every step   *)
(* of a row is behind a leaf or a service of the trace.                    *)
TreesWhole ==
  LET in == Range(trace.rows)
      apps == AppRows(trace.rows)
      detailed == FlowRows(trace.rows, flow.profiles)
      inside(x) == {j \in DOMAIN steps[x] : steps[x][j].kind # "Sql" /\ steps[x][j].to \in in}
  IN  /\ AppsShown /\ Orderly(in) =>
           /\ {r.tx : r \in apps} = in
           /\ \A r \in apps : r.bar.left >= 0 /\ r.bar.width >= 3 /\ r.bar.left + r.bar.width <= 200
      /\ FlowShown =>
           /\ Orderly(in) => {r.tx : r \in detailed} = in
           /\ flow.failed = 0 /\ IsInjective(trace.rows) /\ showSql /\ showApiCall =>
                \A r \in detailed : Cardinality(inside(r.tx)) +
                  MapThenSumSet(LAMBDA l : l.count, r.leaves) = Len(steps[r.tx])

(* Claimed by callTree.ts and flowTree.ts, which cut a circle where nobody *)
(* is a root so that the screen is not empty: a circle beside a root is    *)
(* not drawn at all.                                                       *)
CirclesShown == AppsShown => {r.tx : r \in AppRows(trace.rows)} = Range(trace.rows)
=============================================================================
