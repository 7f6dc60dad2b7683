CONSTANTS
    d1 = d1
    d2 = d2
    DtTxids = {d1, d2}
    DtMaxTabs = 2
    DtMaxSpawn = 2
    DtMaxRuns = 1
    PkTasks = {d1, d2}
    PkService <- OneService
    PkDays = {"d"}
    PkMaxMoves = 3
    InJvms = {"j"}
    InOthers = {"h"}
    InLists <- ShortLists
    InNames = {"p", "q"}
    InCommands = {"gc", "dump"}
    InDangerous = {"gc"}
    InHeapVisible = 1
    InTotalPages = 2
    InMaxMoves = 6
    ApMaxChanges = 3
    ApMaxCalls = 2
    ApMaxFails = 1
    SlHosts = {"h1", "h2"}
    SlUsers = {"u1", "u2"}
    SlNames = {"n", "h1"}
    SlMaxSteps = 3
SPECIFICATION Spec
CHECK_DEADLOCK FALSE
SYMMETRY Two
INVARIANTS
    TabsTrue
    PickerTrue
    InspectorTrue
PROPERTIES
    DetailsTrue
    
    
