------------------------------- MODULE Processes -------------------------------
(***************************************************************************)
(* The process tree as project4/sys.c sees it: process groups and sessions *)
(* (setpgid, setsid and their getters) and the subreapers of prctl.        *)
(*                                                                         *)
(* A process is a thread group.  setpgid and setsid run under the tasklist *)
(* lock and are one step; prctl sets its flag first and walks the tree     *)
(* under the lock afterwards, and others fork and exit in between.  fork,  *)
(* exec, exit and wait are not in this file: they are modelled by what the *)
(* calls here rely on.  A call that is refused changes nothing.            *)
(***************************************************************************)
EXTENDS Naturals, FiniteSets

CONSTANTS
    Pids,      \* process numbers; a number is used again once it is free
    Reaper,    \* the child reaper, init
    Idle,      \* the parent, the group and the session init starts with
    Shells,    \* the processes that call exec, setpgid and setsid
    Managers   \* the processes that call prctl

ASSUME ProcessesAssumption ==
    /\ Reaper \in Pids
    /\ Idle \notin Pids
    /\ Shells \subseteq Pids /\ Managers \subseteq Pids

VARIABLES
    state,    \* "free", "running" or "zombie"
    parent,   \* real_parent
    pgrp,     \* task_pgrp
    session,  \* task_session
    leader,   \* signal->leader
    execed,   \* PF_FORKNOEXEC is not set
    is_child_subreaper,
    has_child_subreaper,
    walking   \* the processes inside prctl that have not walked the tree yet

flags == <<is_child_subreaper, has_child_subreaper, walking>>
groups == <<pgrp, session, leader>>
processVars == <<state, parent, execed, groups, flags>>

Tasks == {p \in Pids : state[p] # "free"}

(* The processes that may make a call. *)
Ready(p) == p \in Pids /\ state[p] = "running" /\ p \notin walking

(* Below(p): the descendants of p, the smallest set that has its children  *)
(* and theirs.                                                             *)
HasChildren(S, p) == \A c \in Tasks : parent[c] \in S \cup {p} => c \in S
Below(p) == {q \in Tasks : \A S \in SUBSET Tasks : HasChildren(S, p) => q \in S}

ProcessesInit ==
    /\ state = [p \in Pids |-> IF p = Reaper THEN "running" ELSE "free"]
    /\ parent = [p \in Pids |-> Idle]
    /\ pgrp = [p \in Pids |-> Idle]
    /\ session = [p \in Pids |-> Idle]
    /\ leader = [p \in Pids |-> FALSE]
    /\ execed = [p \in Pids |-> FALSE]
    /\ is_child_subreaper = [p \in Pids |-> FALSE]
    /\ has_child_subreaper = [p \in Pids |-> FALSE]
    /\ walking = {}

------------------------------------------------------------------------------
(* The rest of the kernel. *)

(* A number is given to a new process when no process, group or session    *)
(* has it.  The child inherits the flag under the lock that links it.      *)
Fork(p, c) ==
    /\ Ready(p)
    /\ c \in Pids \ Tasks
    /\ \A q \in Tasks : pgrp[q] # c /\ session[q] # c
    /\ state' = [state EXCEPT ![c] = "running"]
    /\ parent' = [parent EXCEPT ![c] = p]
    /\ pgrp' = [pgrp EXCEPT ![c] = pgrp[p]]
    /\ session' = [session EXCEPT ![c] = session[p]]
    /\ leader' = [leader EXCEPT ![c] = FALSE]
    /\ execed' = [execed EXCEPT ![c] = FALSE]
    /\ is_child_subreaper' = [is_child_subreaper EXCEPT ![c] = FALSE]
    /\ has_child_subreaper' = [has_child_subreaper EXCEPT ![c] =
                                  has_child_subreaper[p] \/ is_child_subreaper[p]]
    /\ UNCHANGED walking

ProcessExec(p) ==
    /\ Ready(p)
    /\ execed' = [execed EXCEPT ![p] = TRUE]
    /\ UNCHANGED <<state, parent, groups, flags>>

(* The processes that asked for the orphans of p. *)
Subreapers(p) ==
    {a \in Tasks : state[a] = "running" /\ is_child_subreaper[a] /\ p \in Below(a)}

Nearest(A) == {a \in A : \A b \in A : b \notin Below(a)}

(* The tree is only searched when the flag says that there is something to *)
(* find.                                                                   *)
NewParents(p) ==
    IF has_child_subreaper[p] /\ Subreapers(p) # {}
    THEN Nearest(Subreapers(p))
    ELSE {Reaper}

(* The children go to the nearest subreaper, or to init. *)
ProcessExit(p) ==
    /\ Ready(p)
    /\ p # Reaper
    /\ state' = [state EXCEPT ![p] = "zombie"]
    /\ \E r \in NewParents(p) :
          parent' = [q \in Pids |-> IF q \in Tasks /\ parent[q] = p THEN r ELSE parent[q]]
    /\ UNCHANGED <<execed, groups, flags>>

(* wait(): the zombie gives up its number, and its group and session. *)
ProcessRelease(p) ==
    /\ p \in Pids
    /\ state[p] = "zombie"
    /\ state' = [state EXCEPT ![p] = "free"]
    /\ parent' = [parent EXCEPT ![p] = Idle]
    /\ pgrp' = [pgrp EXCEPT ![p] = Idle]
    /\ session' = [session EXCEPT ![p] = Idle]
    /\ leader' = [leader EXCEPT ![p] = FALSE]
    /\ execed' = [execed EXCEPT ![p] = FALSE]
    /\ is_child_subreaper' = [is_child_subreaper EXCEPT ![p] = FALSE]
    /\ has_child_subreaper' = [has_child_subreaper EXCEPT ![p] = FALSE]
    /\ UNCHANGED walking

------------------------------------------------------------------------------
(* sys.c *)

(* Mutant: the group may be in any session. *)
SetPgidAnySession(p, t, g) ==
    /\ Ready(p)
    /\ t \in Tasks
    /\ \/ parent[t] = p /\ session[t] = session[p] /\ ~execed[t]
       \/ parent[t] # p /\ t = p
    /\ ~leader[t]
    /\ g = t \/ \E q \in Tasks : pgrp[q] = g
    /\ pgrp' = [pgrp EXCEPT ![t] = g]
    /\ UNCHANGED <<state, parent, execed, session, leader, flags>>

(* setpgid(t, g) by p: t is p, or a child of its session that has not      *)
(* called exec, and no leader of a session; g is a group of p's session,   *)
(* or one that t starts.                                                   *)
SetPgid(p, t, g) ==
    /\ Ready(p)
    /\ t \in Tasks
    /\ \/ parent[t] = p /\ session[t] = session[p] /\ ~execed[t]
       \/ parent[t] # p /\ t = p
    /\ ~leader[t]
    /\ g = t \/ \E q \in Tasks : pgrp[q] = g /\ session[q] = session[p]
    /\ pgrp' = [pgrp EXCEPT ![t] = g]
    /\ UNCHANGED <<state, parent, execed, session, leader, flags>>

(* getpgid and getsid, for 0 and for another process *)
GetPgid(p) == pgrp[p]
GetSid(p) == session[p]

SetSpecialPids(p) ==
    /\ session' = [session EXCEPT ![p] = p]
    /\ pgrp' = [pgrp EXCEPT ![p] = p]

(* setsid(): p starts a session and a group of its own number, unless it   *)
(* leads one or a group of that number exists.                             *)
SetSid(p) ==
    /\ Ready(p)
    /\ ~leader[p]
    /\ \A q \in Tasks : pgrp[q] # p
    /\ leader' = [leader EXCEPT ![p] = TRUE]
    /\ SetSpecialPids(p)
    /\ UNCHANGED <<state, parent, execed, flags>>

(* Mutant: the tree is not walked. *)
SetChildSubreaperOnly(p, on) ==
    /\ Ready(p)
    /\ is_child_subreaper' = [is_child_subreaper EXCEPT ![p] = on]
    /\ UNCHANGED <<state, parent, execed, groups, has_child_subreaper, walking>>

(* prctl(PR_SET_CHILD_SUBREAPER): the flag, before the walk. *)
SetChildSubreaper(p, on) ==
    /\ Ready(p)
    /\ is_child_subreaper' = [is_child_subreaper EXCEPT ![p] = on]
    /\ walking' = IF on THEN walking \cup {p} ELSE walking
    /\ UNCHANGED <<state, parent, execed, groups, has_child_subreaper>>

(* propagate_has_child_subreaper: what it skips, with all below it. *)
Skipped(c) == has_child_subreaper[c] \/ c = Reaper

(* The descendants of p that walk_process_tree reaches and flags. *)
Reached(S, p) == \A c \in Tasks : parent[c] \in S \cup {p} /\ ~Skipped(c) => c \in S
ToFlag(p) == {q \in Tasks : \A S \in SUBSET Tasks : Reached(S, p) => q \in S}

Walk(p) ==
    /\ p \in walking
    /\ has_child_subreaper' = [q \in Pids |-> has_child_subreaper[q] \/ q \in ToFlag(p)]
    /\ walking' = walking \ {p}
    /\ UNCHANGED <<state, parent, execed, groups, is_child_subreaper>>

------------------------------------------------------------------------------
ProcessesNext ==
    \E p \in Pids :
        \/ ProcessExit(p) \/ ProcessRelease(p) \/ Walk(p)
        \/ \E c \in Pids : Fork(p, c)
        \/ p \in Shells /\ (ProcessExec(p) \/ SetSid(p) \/ \E t, g \in Pids : SetPgid(p, t, g))
        \/ p \in Managers /\ \E on \in BOOLEAN : SetChildSubreaper(p, on)

ProcessesSpec == ProcessesInit /\ [][ProcessesNext]_processVars
------------------------------------------------------------------------------
(* Every variable stays in its range, and parents run. *)
ProcessesTypeOK ==
    /\ state \in [Pids -> {"free", "running", "zombie"}]
    /\ parent \in [Pids -> Pids \cup {Idle}]
    /\ pgrp \in [Pids -> Pids \cup {Idle}]
    /\ session \in [Pids -> Pids \cup {Idle}]
    /\ leader \in [Pids -> BOOLEAN]
    /\ execed \in [Pids -> BOOLEAN]
    /\ is_child_subreaper \in [Pids -> BOOLEAN]
    /\ has_child_subreaper \in [Pids -> BOOLEAN]
    /\ walking \subseteq Pids
    /\ state[Reaper] = "running"
    /\ \A p \in Tasks \ {Reaper} : parent[p] \in Pids /\ state[parent[p]] = "running"

(* A process group never reaches across sessions, whatever setpgid, setsid *)
(* and the reuse of numbers do in between: job control signals a group of  *)
(* one terminal (lines 1184-1192, 1308-1312).                              *)
GroupsWithinSessions ==
    \A p, q \in Tasks : GetPgid(p) = GetPgid(q) => GetSid(p) = GetSid(q)

(* A session is led by the process with its number as long as that is      *)
(* there, which is still in the group of that number (lines 1180, 1304).   *)
SessionsAreLed ==
    \A p \in Tasks :
        /\ leader[p] => GetSid(p) = p /\ GetPgid(p) = p
        /\ (\E q \in Tasks : GetSid(q) = p) => leader[p]

(* Job control can rely on both, whatever setpgid and setsid do between    *)
(* forks, execs and exits (lines 1184-1192, 1305-1312).                    *)
SessionsAreSound == GroupsWithinSessions /\ SessionsAreLed

(* "If task has has_child_subreaper - all its decendants already have      *)
(* these flag too" (line 2401), the reason why the walk may skip them.     *)
FlagReachesAll ==
    \A p \in Tasks : has_child_subreaper[p] => \A q \in Below(p) : has_child_subreaper[q]

(* The flag hides no subreaper: the children of a process that exits go to *)
(* the nearest one above it whose prctl has returned.                      *)
OrphansFindSubreaper ==
    [][\A p, c \in Pids :
          /\ ProcessExit(p) /\ c \in Tasks /\ parent[c] = p
          /\ Subreapers(p) \ walking # {}
          => parent'[c] \in Nearest(Subreapers(p))]_processVars
==============================================================================
