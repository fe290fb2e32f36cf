CONSTANTS
    p1 = p1
    p2 = p2
    n1 = n1
    n2 = n2
    n3 = n3
    m1 = m1
    m2 = m2
    m3 = m3
    NULL = NULL
    None = None
    Procs = {p1, p2}
    Users = {"ann", "bob"}
    Msgs = {m1, m2, m3}
    Nodes = {n1, n2, n3}
    SwitchPoints = {}
    AllocFails = TRUE
    CopyFails = TRUE
    Owner <- TwoUsers
    Readers = {p1, p2}
SPECIFICATION OsmsgSpec
INVARIANTS ListMatchesQueue PrintsAllOnce
PROPERTIES ImplementsMailbox
SYMMETRY Symmetry
