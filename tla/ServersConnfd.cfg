CONSTANTS
    Programs = {"thread"}
    NConns = 2
    Files = {"a", "b", "c"}
    Big = {"b"}
    Requests <- MCRequests
    Cut <- MCCut
    NFds = 5
    LateStart = TRUE
    MaxProcs = 1
    CacheSize = 2
    WarmCaches <- MCWarmCaches
    Leaks = {0, 2}
SPECIFICATION Spec
INVARIANTS OneConnectionEach
CHECK_DEADLOCK FALSE
