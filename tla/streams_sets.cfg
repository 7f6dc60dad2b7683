CONSTANTS
    Windows = {w1, w2}
    Main = w1
    Picks <- TwoPicks
    Collectors = {A}
    Kinds <- AllOfThem
    Slots = {s1, s2}
    None = None
    Demo = Demo
    MaxTokens = 4
    MaxCommands = 1
    MaxPicks = 3
    MaxFaults = 0
SPECIFICATION Spec
CHECK_DEADLOCK FALSE
SYMMETRY Alike
INVARIANTS
    OneLiveTask
    SettledUnion
