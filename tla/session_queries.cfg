CONSTANTS
    Hosts <- MCHosts
    Ports <- MCPorts
    Collectors <- MCCollectors
    Targets <- MCTargets
    ServerId <- OwnNames
    Kinds <- PoolKinds
    Queries = {"q1", "q2"}
    None = None
    Demo = Demo
    MaxIdle = 1
    MaxCommands = 2
    MaxRefresh = 0
    MaxQueries = 1
SPECIFICATION BothSpec
CHECK_DEADLOCK FALSE
INVARIANTS
    PoolFollowsServer
    AnswersOfScreen
