CONSTANTS
    s1 = s1
    s2 = s2
    PcTargets = {"x", "y"}
    PcLastTick = 3
    PcMaxUser = 4
    AkQuestions = {"a", "b"}
    AkMaxAsks = 4
    WsHits <- FiveHits
    WsRanges <- ThreeTicks
    WsPiece = 2
    WsParallel = 2
    WsCap = 2
    WsPageCount = 1
    WsDays = {1}
    WsMaxRuns = 2
    WsMaxSwitches = 1
    WsMaxFaults = 1
    AsObjs = {"o1"}
    AsTxs = {"x"}
    AsResources = {"r1"}
    AsCarry = 2
    AsWindow = 1
    AsMaxTime = 3
    AsMaxEpoch = 1
    AlObjs = {"o1", "o2"}
    AlGrace = 1
    AlGap = 1
    AlOverlap = 1
    AlKeep = 1
    AlMaxAlerts = 2
    AlMaxTime = 2
    AlMaxTurns = 3
    AlMaxAsks = 1
SPECIFICATION Spec
CHECK_DEADLOCK FALSE
INVARIANTS
    PastBufferTrue
    WideSearchTrue
    
PROPERTIES
    LiveBufferTrue
    PagingTrue
    
    AlertsTrue
