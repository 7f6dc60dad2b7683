--------------------------- MODULE MCSessionQueries ---------------------------
(* Two small instances of Session in one run: two queries that share the pool  *)
(* (the constants of the cfg), and one query of each kind that reads the       *)
(* fields in an order of its own, with a refresh in between.                   *)
EXTENDS Session, TLC

VARIABLE part   \* which of the two instances this behaviour is of

MCHosts == {"hostA", "hostB"}
MCPorts == {1, 2}
MCTargets == {<<"hostA", 1>>, <<"hostB", 2>>}
MCCollectors == MCTargets \cup {<<"hostB", 1>>}
OwnNames == [a \in MCCollectors |-> a]
PoolKinds == [q \in Queries |-> {"types"}]
EachKind == [q1 |-> {"past", "search", "dist", "mcp", "prefetch", "history"}, q2 |-> {}]

Mixed == INSTANCE Session WITH Kinds <- EachKind, MaxCommands <- 2, MaxRefresh <- 1,
                               MaxQueries <- 1

BothInit == (part = "pool" /\ Init) \/ (part = "mixed" /\ Mixed!Init)
BothNext == /\ (part = "pool" /\ Next) \/ (part = "mixed" /\ Mixed!Next)
            /\ UNCHANGED part
BothSpec == BothInit /\ [][BothNext]_<<part, vars>>
===============================================================================
