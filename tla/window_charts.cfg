CONSTANTS
    GaObjs = {"a", "c"}
    GaValues = {0, 2, 5}
    GaKpis = {"tps", "elapsed"}
    GaAveraged = {"elapsed"}
    GaCapable = {"tps"}
    GaServiceOf <- OneService
    GaThresholds <- TwoThresholds
    GaNice = {1, 2, 5, 10, 20}
    GaCap = 2
    GaStale = 0
    GaMaxTime = 1
    GaMaxMoves = 3
    TpObjs = {0, 1, 2}
    TpKinds = {"in", "api", "db"}
    TpExternal = 0
    TpAnswers <- TwoRows
    TpAgentSets <- OneOrTwo
    TpPlaces = 2
    TpSlow = 1
    TpMaxMoves = 4
    TpMaxAsks = 2
    TxTxs <- ThreeTxs
    TxFound <- FoundIn
    TxWords = {"", "u", "v"}
    TxNames = {"n"}
    TxElapsed = {0, 2}
    TxLimit = 2
    TxTotal = 12
    TxMinCol = 1
    TxMinUrl = 3
    TxWidth = 3
    TxMaxRules = 2
    TxMaxMoves = 3
    PvTxs = {"x", "y"}
    PvProfiles <- TwoProfiles
    PvTexts = {"", "u", "v"}
    PvBodyHits <- TwoTexts
    PvSelections <- BothOrOne
    PvBatch = 1
    PvMaxDepth = 6
    PvMaxMoves = 5
SPECIFICATION Spec
CHECK_DEADLOCK FALSE
INVARIANTS
    
    ActiveScreenTrue
    TopologyTrue
    
    ProfileTrue
PROPERTIES
    ChartTrue
    TableListTrue
