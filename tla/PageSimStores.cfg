CONSTANTS
    Pages <- MCPages
    Traces <- MCTraces
    NPages = 2
    MaxLines = 2
    NFrames = 2
    Refresh = 3
SPECIFICATION Spec
INVARIANTS StoresAreDirty
CHECK_DEADLOCK FALSE
