CONSTANTS
    p1 = p1
    p2 = p2
    p3 = p3
    n1 = n1
    n2 = n2
    NULL = NULL
    Free = Free
    Procs = {p1, p2, p3}
    Lockers = {p1, p2, p3}
    Waiters = {}
    Signallers = {}
    Nodes = {n1, n2}
    InitValue = 1
    MaxValue = 1
    AllocFails = FALSE
    Signals = FALSE
SPECIFICATION Spec
INVARIANTS NoLostWakeup MutualExclusion
PROPERTIES ImplementsSemaphore DownReturns SleepsUntilAvailable
