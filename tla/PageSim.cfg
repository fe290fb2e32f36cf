CONSTANTS
    Pages <- MCPages
    Traces <- MCTraces
    NPages = 4
    MaxLines = 5
    NFrames = 2
    Refresh = 3
SPECIFICATION Spec
INVARIANTS FramesMatchTable OptIsOptimal ModifiedStaysDirty
PROPERTIES VictimsAreRight ImplementsSecondChance SimulationEnds
CHECK_DEADLOCK FALSE
