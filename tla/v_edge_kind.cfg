CONSTANTS
    External = 0
    Answers <- HalfMinutes
    AgentSets <- BothAgents
    Places = 2
    Slow = 1
    MaxMoves = 2
    MaxAsks = 2
SPECIFICATION Spec
CHECK_DEADLOCK FALSE
INVARIANTS
    MostCalled
