----------------------------- MODULE MCTopology -----------------------------
(* Topology for TLC, by itself: one pair of objects that call each other in  *)
(* two ways, as a collector reports it, a row of each kind per half minute.  *)
EXTENDS Topology

CallRow(kind, n) == [from |-> 1, to |-> 2, type |-> kind, count |-> n, errors |-> 0, elapsed |-> n]
HalfMinutes == BoundedSeq({CallRow("db", 3), CallRow("api", 2)}, 3)
BothAgents == {{1, 2}}
=============================================================================
