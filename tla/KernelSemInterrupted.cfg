CONSTANTS
    p1 = p1
    p2 = p2
    p3 = p3
    n1 = n1
    n2 = n2
    n3 = n3
    NULL = NULL
    Free = Free
    Procs = {p1, p2, p3}
    Lockers = {p1, p2, p3}
    Waiters = {}
    Signallers = {}
    Nodes = {n1, n2, n3}
    InitValue = 1
    MaxValue = 1
    AllocFails = FALSE
    Signals = TRUE
SPECIFICATION SafeSpec
PROPERTIES SleepsUntilAvailable
CHECK_DEADLOCK FALSE
