-------------------------- MODULE MCSessionCommands --------------------------
(* Two small instances of Session in one run: the commands by themselves,    *)
(* four and two refreshes deep (the constants of the cfg), and the commands  *)
(* against the query that holds the main connection, for its end.            *)
EXTENDS Session, TLC

VARIABLE part   \* which of the two instances this behaviour is of

MCHosts == {"hostA", "hostB"}
MCPorts == {1, 2}
MCTargets == {<<"hostA", 1>>, <<"hostB", 2>>}
\* Two collectors the user switches between, and one a mixed-up address would reach.
MCCollectors == MCTargets \cup {<<"hostB", 1>>}
\* Each collector has a name of its own.
OwnNames == [a \in MCCollectors |-> a]

NoKinds == [q \in Queries |-> {}]
EndQueries == {"q1"}
Ends == INSTANCE Session WITH Targets <- {<<"hostA", 1>>}, Queries <- EndQueries,
                              Kinds <- [q \in EndQueries |-> {"dist"}],
                              MaxCommands <- 2, MaxRefresh <- 1, MaxQueries <- 1

BothInit == (part = "commands" /\ Init) \/ (part = "ends" /\ Ends!Init)
BothNext == /\ (part = "commands" /\ Next) \/ (part = "ends" /\ Ends!Next)
            /\ UNCHANGED part
BothVars == <<part, vars>>
BothSpec ==
    /\ BothInit /\ [][BothNext]_BothVars
    /\ \A p \in Commands \cup EndQueries :
         WF_BothVars(part = "ends" /\ Ends!Step(p) /\ UNCHANGED part)

\* Session!CallsEnd of the second instance: every call ends, those that wait for
\* the connection the long query holds among them (get_xlog_distribution).
EveryCallEnds == \A p \in Commands \cup EndQueries : (part = "ends" /\ Busy(p)) ~> (part = "ends" => ~Busy(p))
==============================================================================
