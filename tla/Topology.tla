------------------------------ MODULE Topology ------------------------------
(***************************************************************************)
(* The map of calls between objects (TopologyPanel.tsx, topologyGraph.ts). *)
(*                                                                         *)
(* The rows of an answer are merged to one edge per pair of objects and    *)
(* summed up at both ends; the nodes stand in three columns, the busiest   *)
(* on top.  The boxes that were drawn last tell what the mouse is on: a    *)
(* click leads to the transactions of an application.  The node under the  *)
(* mouse is kept with the figures it had when the mouse came to it.        *)
(*                                                                         *)
(* A row is [from, to, type, count, errors, elapsed].  Pixels are left     *)
(* out: a box is a node and its place in its column.                       *)
(***************************************************************************)
EXTENDS Integers, Sequences, FiniteSets, SequencesExt, Listing

CONSTANTS External,   \* EXTERNAL_HASH
          Answers,    \* bound: what the collector may answer, sequences of rows
          AgentSets,  \* bound: the agents there may be
          Places,     \* boxes of a column the canvas has room for
          Slow,       \* 300 ms, from where an edge is coloured
          MaxAsks,    \* bound: requests under way
          MaxMoves    \* bound: steps of the user, polls and changes of the agents

VARIABLES open, rows, error, loadedOnce,  \* state of TopologyPanel
          asks,                           \* answers of getInteraction that are still to come
          agents,                         \* agentMap
          layout,                         \* layoutRef: the boxes of the last drawing
          hover,                          \* [node], or NoHover
          drilled,                        \* the application the list was led to, or External
          moves
vars == <<open, rows, error, loadedOnce, asks, agents, layout, hover, drilled, moves>>

NoHover == [hash |-> External, layer |-> "none", calls |-> 0, errors |-> 0, elapsed |-> 0]
User == moves < MaxMoves /\ moves' = moves + 1

----------------------------------------------------------------------------
\* Mutant: a second row of a pair does not add its calls.
Merge_First(edge, r) ==
  LET sum == edge.count + r.count
  IN  [edge EXCEPT !.errors = @ + r.errors, !.elapsed = @ + r.elapsed,
                   !.type = IF 2 * r.count > sum THEN r.type ELSE @]

\* buildGraph, the edges: rows of a pair are added up, calls to oneself are left out; the
\* kind of an edge is the one of a row that brings more than half of all so far.
Merge(edge, r) ==
  LET sum == edge.count + r.count
  IN  [edge EXCEPT !.count = sum, !.errors = @ + r.errors, !.elapsed = @ + r.elapsed,
                   !.type = IF 2 * r.count > sum THEN r.type ELSE @]
\* Mutant: a call of itself is an edge.
WithRow_OfItself(edges, r) ==
  LET old == {e \in edges : e.from = r.from /\ e.to = r.to}
  IN  (edges \ old) \cup (IF old = {} THEN {r} ELSE {Merge(CHOOSE e \in old : TRUE, r)})

WithRow(edges, r) ==
  LET old == {e \in edges : e.from = r.from /\ e.to = r.to}
  IN  IF r.from = r.to THEN edges
      ELSE (edges \ old) \cup (IF old = {} THEN {r} ELSE {Merge(CHOOSE e \in old : TRUE, r)})
Edges(list) ==
  LET upTo[n \in 0..Len(list)] == IF n = 0 THEN {} ELSE WithRow(upTo[n - 1], list[n])
  IN  upTo[Len(list)]

\* The nodes: what goes in and out of each object.
LayerOf(h, known) == IF h \in known THEN "agent" ELSE IF h = External THEN "inbound" ELSE "resource"
Node(h, edges, known) ==
  LET at == {e \in edges : h \in {e.from, e.to}}
  IN  [hash |-> h, layer |-> LayerOf(h, known), calls |-> SumOf([e \in at |-> e.count]),
       errors |-> SumOf([e \in at |-> e.errors]), elapsed |-> SumOf([e \in at |-> e.elapsed])]
Nodes(edges, known) == {Node(h, edges, known) : h \in UNION {{e.from, e.to} : e \in edges}}

AvgElapsed(of, n) == IF n > 0 THEN (2 * of.elapsed + n) \div (2 * n) ELSE -1
EdgeGrade(e) == IF e.errors > 0 THEN "danger"
                ELSE IF AvgElapsed(e, e.count) >= Slow THEN "warn" ELSE "ok"
\* The other edges fade while the mouse is on a node.
Related(e) == hover = NoHover \/ hover.hash \in {e.from, e.to}

\* drawTopology: each column from its top on, the busiest first.
Busier(nodes) == {p \in nodes \X nodes : p[1].calls > p[2].calls}
Column(layer, nodes) == SortedSet({n \in nodes : n.layer = layer}, Busier(nodes))
Boxes(layer, nodes) ==
  LET column == Column(layer, nodes)
  IN  {[node |-> column[i], place |-> i] : i \in DOMAIN column}
Draw(list, known) ==
  LET nodes == Nodes(Edges(list), known)
  IN  UNION {Boxes(layer, nodes) : layer \in {"inbound", "agent", "resource"}}

\* The effect that draws, for what an open panel has just then; a canvas that is hidden has
\* no width and no boxes.
Draws(isOpen, list, hidden, known) ==
  layout' = IF ~isOpen THEN layout ELSE IF hidden THEN {} ELSE Draw(list, known)

----------------------------------------------------------------------------
\* load: nothing tells the requests apart, and none is given up.
Load(isOpen) == /\ isOpen => asks < MaxAsks
                /\ asks' = IF isOpen THEN asks + 1 ELSE asks

Toggle ==
  /\ User /\ open' = ~open /\ Load(open') /\ Draws(open', rows, error, agents)
  /\ UNCHANGED <<rows, error, loadedOnce, agents, hover, drilled>>
Poll ==
  /\ User /\ open /\ Load(TRUE)
  /\ UNCHANGED <<open, rows, error, loadedOnce, agents, layout, hover, drilled>>
\* The agents are polled elsewhere; new ones begin a load of their own.
AgentsChange(known) ==
  /\ User /\ known # agents /\ agents' = known
  /\ Load(open) /\ Draws(open, rows, error, known)
  /\ UNCHANGED <<open, rows, error, loadedOnce, hover, drilled>>

\* An answer may still come after the panel was closed.
RowsCome(list) ==
  /\ asks > 0 /\ asks' = asks - 1
  /\ rows' = list /\ error' = FALSE /\ loadedOnce' = TRUE /\ Draws(open, list, FALSE, agents)
  /\ UNCHANGED <<open, agents, hover, drilled, moves>>
LoadFails ==
  /\ asks > 0 /\ asks' = asks - 1 /\ error' = TRUE
  /\ UNCHANGED <<open, rows, loadedOnce, agents, layout, hover, drilled, moves>>

\* The canvas is there when there is something to see.
Visible == open /\ rows # <<>> /\ ~error
HandleMove(box) ==
  /\ User /\ Visible /\ box.place <= Places
  /\ hover' = IF hover.hash = box.node.hash /\ hover # NoHover THEN hover ELSE box.node
  /\ UNCHANGED <<open, rows, error, loadedOnce, asks, agents, layout, drilled>>
Leave ==
  /\ Visible /\ hover # NoHover /\ hover' = NoHover
  /\ UNCHANGED <<open, rows, error, loadedOnce, asks, agents, layout, drilled, moves>>

\* handleClick: only applications have transactions.  The list is led to this one alone.
HandleClick(box) ==
  /\ User /\ Visible /\ box.place <= Places /\ box.node.layer = "agent"
  /\ drilled' = box.node.hash
  /\ UNCHANGED <<open, rows, error, loadedOnce, asks, agents, layout, hover>>

\* The head of the panel counts the rows, the tip shows the node.
Header == [calls |-> SumOf([i \in DOMAIN rows |-> rows[i].count]),
           errors |-> SumOf([i \in DOMAIN rows |-> rows[i].errors])]
NodeTip == IF hover # NoHover /\ Visible
           THEN [calls |-> hover.calls, avg |-> AvgElapsed(hover, hover.calls),
                 drillable |-> hover.layer = "agent"]
           ELSE [calls |-> -1, avg |-> -1, drillable |-> FALSE]

Init ==
  /\ open = FALSE /\ rows = <<>> /\ error = FALSE /\ loadedOnce = FALSE /\ asks = 0
  /\ agents \in AgentSets /\ layout = {} /\ hover = NoHover /\ drilled = External /\ moves = 0

Next ==
  \/ Toggle \/ Poll \/ LoadFails \/ Leave
  \/ \E list \in Answers : RowsCome(list)
  \/ \E known \in AgentSets : AgentsChange(known)
  \/ \E box \in layout : HandleMove(box) \/ HandleClick(box)

Spec == Init /\ [][Next]_vars

----------------------------------------------------------------------------
Calls(r) == IF r.from = r.to THEN 0 ELSE r.count
TotalOf(list) == SumOf([i \in DOMAIN list |-> Calls(list[i])])
Drawn == {box.node : box \in layout}

(* The map tells what was answered.  While it is seen each object of the   *)
(* rows stands in it once, in a place of its own, with all its calls: the  *)
(* calls of the nodes are twice those of the rows, and what a click leads  *)
(* to is an application the window knows or knew.                          *)
GraphTrue ==
  Visible => /\ {n.hash : n \in Drawn} = UNION {{r.from, r.to} : r \in {x \in Range(rows) : x.from # x.to}}
             /\ \A a, b \in layout : a # b => /\ a.node.hash # b.node.hash
                                              /\ a.node.layer = b.node.layer => a.place # b.place
             /\ SumOf([n \in Drawn |-> n.calls]) = 2 * TotalOf(rows)
             /\ SumOf([e \in Edges(rows) |-> e.count]) = TotalOf(rows)
             /\ \A n \in Drawn : n.layer = "agent" <=> n.hash \in agents

(* Claimed by topologyGraph.ts of the kind of an edge: when several kinds  *)
(* fall to one pair the one with most calls is taken.  A row only takes    *)
(* the place when it alone is more than half.                              *)
CallsOf(e, type) ==
  LET own == {i \in DOMAIN rows : <<rows[i].from, rows[i].to, rows[i].type>> = <<e.from, e.to, type>>}
  IN  SumOf([i \in own |-> rows[i].count])
MostCalled == \A e \in Edges(rows) : \A r \in Range(rows) : CallsOf(e, r.type) <= CallsOf(e, e.type)

(* The tip of the node under the mouse has its present figures.  It keeps  *)
(* those of the time the mouse came to it.                                 *)
TipFresh == Visible /\ hover # NoHover => hover \in Drawn
=============================================================================
