CONSTANTS
    Windows = {w1}
    Main = w1
    Picks <- OnePick
    Collectors = {A, B}
    Kinds <- XLogOnly
    Slots = {s1}
    None = None
    Demo = Demo
    MaxTokens = 2
    MaxCommands = 2
    MaxPicks = 1
    MaxFaults = 1
SPECIFICATION FairSpec
CHECK_DEADLOCK FALSE
INVARIANTS
    SettledUnion
PROPERTIES
    StoppedEnds
    Recovers
