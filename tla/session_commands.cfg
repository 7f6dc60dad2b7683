CONSTANTS
    Hosts <- MCHosts
    Ports <- MCPorts
    Collectors <- MCCollectors
    Targets <- MCTargets
    ServerId <- OwnNames
    Kinds <- NoKinds
    Queries = {}
    None = None
    Demo = Demo
    MaxIdle = 1
    MaxCommands = 4
    MaxRefresh = 2
    MaxQueries = 1
SPECIFICATION BothSpec
CHECK_DEADLOCK FALSE
INVARIANTS
    SettledAgrees
    PublishedLast

    
