CONSTANTS
\* init and three other process numbers, used again and again, two of them by
\* shells and one by a manager
    Pids = {init, p1, p2, p3}
    Reaper = init
    Idle = idle
    Shells = {p1, p2}
    Managers = {p3}
\* root and another user, who may be at the limit of processes, two groups; a
\* security module may refuse a change;
\* set-uid programs of both, a set-gid program of one group
    Ids = {root, u1}
    Root = root
    Gids = {g1, g2}
    Keep = keep
    Nobody = nobody
    SetuidOwners = {root, u1}
    SetgidOwners = {g2}
    Limited = {u1}
    LsmRefuses = TRUE
\* two tasks of one user that change each other and themselves, the first with
\* CAP_SYS_NICE
    t1 = t1
    t2 = t2
    Niced = {t1, t2}
    PrioCallers = {t1, t2}
    Privileged = {t1}
    Uid <- MCUid
    Euid <- MCEuid
    Group <- MCGroup
    NiceLimit <- MCNiceLimit
    MinNice <- MCMinNice
    MaxNice = 1
    Asked <- MCAsked
    NoTask = noTask
\* a process that changes its own limits, and another that does the same to
\* it, each of any user; infinity is 2 in 32 bits, 4 in a long and 6 in 64
\* bits, so that 5 does not fit into a long
    LimitCallers = {a, b}
    LimitTargets = {a}
    Resources = {"cpu", "nofile"}
    Users = {admin, u1}
    Admin = admin
    Values = {1, 2, 5}
    OldMax = 1
    CompatInf = 2
    Inf = 4
    Inf64 = 6
    NrOpen = 3
    NoCall = noCall
\* two threads; the data and the heap take no unit or one each, and with a
\* limit of one unit either may take it; find_vma finds nothing at address 1;
\* the vector has one entry before the two that end it; f2 cannot be executed
    Threads = {th1, th2}
    Segments = {"data", "brk"}
    MinAddr = 1
    MaxAddr = 2
    Backed = {2}
    AuxSize = 3
    Given <- MCGiven
    Vectors <- MCVectors
    Files = {f1, f2}
    Executable = {f1}
    Exe = f1
    DataLimits = {1, 2}
    Nothing = nothing
\* the processes whose limits are changed may all have exited
CHECK_DEADLOCK FALSE
SPECIFICATION Spec
SYMMETRY Symmetry
INVARIANTS
    SessionsAreSound
    DropsStick
    LimitReachesExec
    ResultIsTrue
    LimitsHold
    DescriptionHolds
PROPERTIES
    OrphansFindSubreaper
    Authorized
    OneFieldChanges
