CONSTANTS
    p1 = p1
    p2 = p2
    p3 = p3
    n1 = n1
    n2 = n2
    n3 = n3
    NULL = NULL
    Free = Free
    Procs = {p1, p2, p3}
    Lockers = {p1, p2, p3}
    Waiters = {}
    Signallers = {}
    Nodes = {n1, n2, n3}
    InitValue = 1
    MaxValue = 1
    AllocFails = TRUE
    Signals = TRUE
SPECIFICATION SafeSpec
INVARIANTS ListMatchesQueue NobodyStranded PermitsConserved
SYMMETRY Symmetry
CHECK_DEADLOCK FALSE
