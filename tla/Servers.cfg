CONSTANTS
    Programs = {"iter", "thread", "cached", "proc"}
    NConns = 2
    Files = {"a", "b", "c"}
    Big = {"b"}
    Requests <- MCRequests
    Cut <- MCCut
    NFds = 5
    LateStart = FALSE
    MaxProcs = 1
    CacheSize = 2
    WarmCaches <- MCWarmCaches
    Leaks = {0, 2}
SPECIFICATION Spec
INVARIANTS ServedRight RefCountsBalance NothingLeftOpen
PROPERTIES CacheIsFifo ProcServerSurvives EveryRequestEnds
CHECK_DEADLOCK FALSE
