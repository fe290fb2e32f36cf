------------------------------- MODULE TaskProofs -------------------------------
(***************************************************************************)
(* What is proved of processes and of their credentials, for any number of *)
(* processes, users and groups and every set-id program.                   *)
(*                                                                         *)
(* Groups stay within sessions, and the walk of prctl may skip what it     *)
(* skips: Below(p) is the smallest set with the children of p and theirs,  *)
(* so what is said of all descendants follows from what is said of         *)
(* children.  The set*uid and set*gid calls differ in what they let pass   *)
(* and in the ids they compute; the lemma UidCall brings those that end in *)
(* ChangeUid to one form, which the theorems are proved from.              *)
(***************************************************************************)
EXTENDS Processes, Credentials, TLAPS

USE ProcessesAssumption

------------------------------------------------------------------------------
(* Descendants. *)

LEMMA BelowClosed ==
    ASSUME NEW p
    PROVE  Below(p) \subseteq Tasks /\ HasChildren(Below(p), p)
<1>1. Below(p) \subseteq Tasks
  BY DEF Below
<1>2. ASSUME NEW c \in Tasks, parent[c] \in Below(p) \cup {p}
      PROVE  c \in Below(p)
  <2>1. ASSUME NEW S \in SUBSET Tasks, HasChildren(S, p)
        PROVE  c \in S
    BY <1>2, <2>1 DEF Below, HasChildren
  <2> QED
    BY <2>1 DEF Below
<1> QED
  BY <1>1, <1>2 DEF HasChildren

(* Induction over the descendants of p. *)
LEMMA BelowLeast ==
    ASSUME NEW p, NEW S \in SUBSET Tasks, HasChildren(S, p)
    PROVE  Below(p) \subseteq S
BY DEF Below

LEMMA BelowParent ==
    ASSUME NEW p, NEW c \in Below(p)
    PROVE  parent[c] \in Below(p) \cup {p}
<1> DEFINE S == {q \in Below(p) : parent[q] \in Below(p) \cup {p}}
<1>1. S \in SUBSET Tasks /\ HasChildren(S, p)
  BY BelowClosed DEF HasChildren
<1> HIDE DEF S
<1>2. c \in S
  BY <1>1, BelowLeast
<1> QED
  BY <1>2 DEF S

LEMMA BelowTransitive ==
    ASSUME NEW p, NEW q \in Below(p)
    PROVE  Below(q) \subseteq Below(p)
<1>1. Below(p) \in SUBSET Tasks /\ HasChildren(Below(p), q)
  BY BelowClosed DEF HasChildren
<1> QED
  BY <1>1, BelowLeast

------------------------------------------------------------------------------
(* The tree: every process descends from init, and no process from itself. *)

Rooted ==
    /\ parent[Reaper] = Idle
    /\ \A S \in SUBSET Tasks : HasChildren(S, Reaper) => Tasks \ {Reaper} \subseteq S

LEMMA BelowReaper ==
    ASSUME Rooted, NEW p \in Tasks, p # Reaper
    PROVE  p \in Below(Reaper)
BY BelowClosed DEF Rooted

LEMMA NoCycle ==
    ASSUME Rooted, Reaper \in Tasks, NEW p \in Tasks
    PROVE  p \notin Below(p)
<1>1. Idle \notin Tasks
  BY DEF Tasks
<1>2. ASSUME NEW c \in Tasks
      PROVE  Reaper \notin Below(c)
  BY <1>1, <1>2, BelowParent, BelowClosed DEF Rooted
<1> DEFINE S == {q \in Tasks : q # Reaper /\ q \notin Below(q)}
<1>3. ASSUME NEW c \in Tasks, parent[c] \in S \cup {Reaper}
      PROVE  c \in S
  <2>1. c # Reaper
    BY <1>1, <1>3 DEF Rooted
  <2>2. c \in Below(parent[c])
    BY <1>3, BelowClosed DEF HasChildren
  <2>3. ASSUME c \in Below(c)
        PROVE  FALSE
    <3>1. parent[c] \in Below(c) \cup {c}
      BY <2>3, BelowParent
    <3>2. parent[c] # c /\ parent[c] # Reaper
      BY <1>2, <1>3, <2>1, <2>3, <3>1
    <3>3. parent[c] \in Below(c) /\ Below(c) \subseteq Below(parent[c])
      BY <2>2, <3>1, <3>2, BelowTransitive
    <3> QED
      BY <1>3, <3>2, <3>3
  <2> QED
    BY <2>1, <2>3
<1>4. S \in SUBSET Tasks /\ HasChildren(S, Reaper)
  BY <1>3 DEF HasChildren
<1>5. Tasks \ {Reaper} \subseteq S
  BY <1>4 DEF Rooted
<1> QED
  BY <1>2, <1>5
------------------------------------------------------------------------------
(* Type correctness and the tree. *)

TreeInv == ProcessesTypeOK /\ Rooted

(* The calls of sys.c and exec leave the tree alone. *)
TreeKept == UNCHANGED <<state, parent>>

LEMMA SameTree ==
    ASSUME TreeKept
    PROVE  Tasks' = Tasks /\ (Rooted' <=> Rooted) /\ \A p : Below(p)' = Below(p)
BY DEF TreeKept, Tasks, Rooted, HasChildren, Below

(* The calls, and exec, by what they change. *)
Calls ==
    \/ \E p \in Pids : ProcessExec(p) \/ SetSid(p) \/ Walk(p)
    \/ \E p, t, g \in Pids : SetPgid(p, t, g)
    \/ \E p \in Pids, on \in BOOLEAN : SetChildSubreaper(p, on)
    \/ UNCHANGED processVars

LEMMA Steps ==
    ASSUME [ProcessesNext]_processVars
    PROVE  \/ \E p, c \in Pids : Fork(p, c)
           \/ \E p \in Pids : ProcessExit(p) \/ ProcessRelease(p)
           \/ Calls
BY DEF ProcessesNext, Calls

LEMMA CallsKeepTree ==
    ASSUME Calls
    PROVE  TreeKept
BY DEF Calls, processVars, Walk, ProcessExec, SetSid, SetPgid, SetChildSubreaper, TreeKept

(* The orphans of p get a parent that runs and is above p. *)
LEMMA ExitParent ==
    ASSUME TreeInv, NEW p \in Pids, ProcessExit(p)
    PROVE  \E r \in Pids :
              /\ r # p /\ r \in Tasks /\ state[r] = "running"
              /\ r \in NewParents(p)
              /\ p \in Below(r)
              /\ parent' = [q \in Pids |-> IF q \in Tasks /\ parent[q] = p THEN r ELSE parent[q]]
<1>1. p \in Tasks /\ p # Reaper /\ Reaper \in Tasks /\ state[Reaper] = "running"
  BY DEF ProcessExit, Ready, Tasks, TreeInv, ProcessesTypeOK
<1>2. PICK r \in NewParents(p) :
         parent' = [q \in Pids |-> IF q \in Tasks /\ parent[q] = p THEN r ELSE parent[q]]
  BY DEF ProcessExit
<1>3. CASE r = Reaper
  BY <1>1, <1>2, <1>3, BelowReaper DEF TreeInv
<1>4. CASE r # Reaper
  <2>1. r \in Subreapers(p)
    BY <1>2, <1>4 DEF NewParents, Nearest
  <2>2. r \in Tasks /\ state[r] = "running" /\ p \in Below(r)
    BY <2>1 DEF Subreapers
  <2>3. r # p
    BY <1>1, <2>2, NoCycle DEF TreeInv
  <2> QED
    BY <1>2, <2>2, <2>3 DEF Tasks
<1> QED
  BY <1>3, <1>4

LEMMA TypeInit == ProcessesInit => ProcessesTypeOK
BY DEF ProcessesInit, ProcessesTypeOK, Tasks

LEMMA TypeExit ==
    ASSUME TreeInv, NEW p \in Pids, ProcessExit(p)
    PROVE  ProcessesTypeOK'
<1>1. PICK r \in Pids :
         /\ r # p /\ state[r] = "running"
         /\ parent' = [q \in Pids |-> IF q \in Tasks /\ parent[q] = p THEN r ELSE parent[q]]
  BY ExitParent
<1>2. state' = [state EXCEPT ![p] = "zombie"] /\ p # Reaper /\ state[p] = "running"
  BY DEF ProcessExit, Ready
<1>3. Tasks' = Tasks
  BY <1>2 DEF Tasks, TreeInv, ProcessesTypeOK
<1>4. state' \in [Pids -> {"free", "running", "zombie"}] /\ state'[Reaper] = "running"
  BY <1>2 DEF TreeInv, ProcessesTypeOK
<1>5. parent' \in [Pids -> Pids \cup {Idle}]
  BY <1>1 DEF TreeInv, ProcessesTypeOK
<1>6. ASSUME NEW q \in Tasks \ {Reaper}
      PROVE  parent'[q] \in Pids /\ state'[parent'[q]] = "running"
  BY <1>1, <1>2 DEF TreeInv, ProcessesTypeOK, Tasks
<1> QED
  BY <1>3, <1>4, <1>5, <1>6 DEF ProcessExit, groups, flags, TreeInv, ProcessesTypeOK

LEMMA TypeFork ==
    ASSUME ProcessesTypeOK, NEW p \in Pids, NEW c \in Pids, Fork(p, c)
    PROVE  ProcessesTypeOK'
<1>1. state[p] = "running" /\ state[c] = "free" /\ c # Reaper
  BY DEF Fork, Ready, Tasks, ProcessesTypeOK
<1>2. /\ state' \in [Pids -> {"free", "running", "zombie"}]
      /\ parent' \in [Pids -> Pids \cup {Idle}]
      /\ pgrp' \in [Pids -> Pids \cup {Idle}]
      /\ session' \in [Pids -> Pids \cup {Idle}]
      /\ leader' \in [Pids -> BOOLEAN]
      /\ execed' \in [Pids -> BOOLEAN]
      /\ is_child_subreaper' \in [Pids -> BOOLEAN]
      /\ walking' \subseteq Pids
  BY DEF Fork, ProcessesTypeOK
<1>3. has_child_subreaper' \in [Pids -> BOOLEAN]
  <2>1. (has_child_subreaper[p] \/ is_child_subreaper[p]) \in BOOLEAN
    OBVIOUS
  <2> QED
    BY <2>1, Zenon DEF Fork, ProcessesTypeOK
<1>4. state'[Reaper] = "running"
  BY <1>1 DEF Fork, ProcessesTypeOK
<1>5. ASSUME NEW q \in Tasks' \ {Reaper}
      PROVE  parent'[q] \in Pids /\ state'[parent'[q]] = "running"
  BY <1>1, <1>5 DEF Fork, ProcessesTypeOK, Tasks
<1> QED
  BY <1>2, <1>3, <1>4, <1>5 DEF ProcessesTypeOK

LEMMA TypeRelease ==
    ASSUME ProcessesTypeOK, NEW p \in Pids, ProcessRelease(p)
    PROVE  ProcessesTypeOK'
<1>1. /\ state' \in [Pids -> {"free", "running", "zombie"}]
      /\ parent' \in [Pids -> Pids \cup {Idle}]
      /\ pgrp' \in [Pids -> Pids \cup {Idle}]
      /\ session' \in [Pids -> Pids \cup {Idle}]
      /\ leader' \in [Pids -> BOOLEAN]
      /\ execed' \in [Pids -> BOOLEAN]
      /\ is_child_subreaper' \in [Pids -> BOOLEAN]
      /\ has_child_subreaper' \in [Pids -> BOOLEAN]
      /\ walking' \subseteq Pids
      /\ state'[Reaper] = "running"
  BY DEF ProcessRelease, ProcessesTypeOK
<1>2. ASSUME NEW q \in Tasks' \ {Reaper}
      PROVE  parent'[q] \in Pids /\ state'[parent'[q]] = "running"
  BY <1>2 DEF ProcessRelease, ProcessesTypeOK, Tasks
<1> QED
  BY <1>1, <1>2 DEF ProcessesTypeOK

LEMMA TypeCalls ==
    ASSUME ProcessesTypeOK, Calls
    PROVE  ProcessesTypeOK'
<1>1. /\ state' \in [Pids -> {"free", "running", "zombie"}]
      /\ parent' \in [Pids -> Pids \cup {Idle}]
      /\ state'[Reaper] = "running"
      /\ \A q \in Tasks' \ {Reaper} : parent'[q] \in Pids /\ state'[parent'[q]] = "running"
  BY CallsKeepTree, SameTree DEF TreeKept, ProcessesTypeOK
<1> DEFINE Rest == /\ pgrp \in [Pids -> Pids \cup {Idle}]
                   /\ session \in [Pids -> Pids \cup {Idle}]
                   /\ leader \in [Pids -> BOOLEAN]
                   /\ execed \in [Pids -> BOOLEAN]
                   /\ is_child_subreaper \in [Pids -> BOOLEAN]
                   /\ has_child_subreaper \in [Pids -> BOOLEAN]
                   /\ walking \subseteq Pids
<1>2. ASSUME NEW p \in Pids, ProcessExec(p)
      PROVE  Rest'
  BY <1>2 DEF ProcessExec, groups, flags, ProcessesTypeOK
<1>8. ASSUME NEW p \in Pids, SetSid(p)
      PROVE  Rest'
  BY <1>8 DEF SetSid, SetSpecialPids, flags, ProcessesTypeOK
<1>3. ASSUME NEW p \in Pids, Walk(p)
      PROVE  Rest'
  <2>1. \A q \in Pids : (has_child_subreaper[q] \/ q \in ToFlag(p)) \in BOOLEAN
    OBVIOUS
  <2>2. has_child_subreaper' \in [Pids -> BOOLEAN]
    BY <1>3, <2>1, Zenon DEF Walk
  <2> QED
    BY <1>3, <2>2 DEF Walk, groups, ProcessesTypeOK
<1>4. ASSUME NEW p \in Pids, NEW t \in Pids, NEW g \in Pids, SetPgid(p, t, g)
      PROVE  Rest'
  BY <1>4 DEF SetPgid, flags, ProcessesTypeOK
<1>5. ASSUME NEW p \in Pids, NEW on \in BOOLEAN, SetChildSubreaper(p, on)
      PROVE  Rest'
  BY <1>5 DEF SetChildSubreaper, groups, ProcessesTypeOK
<1>6. ASSUME UNCHANGED processVars
      PROVE  Rest'
  BY <1>6 DEF processVars, groups, flags, ProcessesTypeOK
<1>7. Rest'
  BY <1>2, <1>3, <1>4, <1>5, <1>6, <1>8 DEF Calls
<1> QED
  BY <1>1, <1>7 DEF ProcessesTypeOK

LEMMA RootedInit == ProcessesInit => Rooted
<1> SUFFICES ASSUME ProcessesInit PROVE Rooted
  OBVIOUS
<1>1. Tasks = {Reaper} /\ parent[Reaper] = Idle
  BY DEF ProcessesInit, Tasks
<1> QED
  BY <1>1 DEF Rooted

LEMMA RootedFork ==
    ASSUME TreeInv, NEW p \in Pids, NEW c \in Pids, Fork(p, c)
    PROVE  Rooted'
<1> USE DEF TreeInv
<1>1. c \notin Tasks /\ p \in Tasks /\ Reaper \in Tasks /\ c # Reaper
  BY DEF Fork, Ready, Tasks, ProcessesTypeOK
<1>2. Tasks' = Tasks \cup {c}
  BY DEF Fork, Tasks, ProcessesTypeOK
<1>3. parent'[c] = p /\ \A q \in Tasks : parent'[q] = parent[q]
  BY <1>1 DEF Fork, ProcessesTypeOK, Tasks
<1>4. ASSUME NEW S \in SUBSET Tasks', HasChildren(S, Reaper)'
      PROVE  Tasks' \ {Reaper} \subseteq S
  <2>1. HasChildren(S \ {c}, Reaper)
    BY <1>1, <1>2, <1>3, <1>4 DEF HasChildren
  <2>2. Tasks \ {Reaper} \subseteq S
    BY <1>2, <2>1 DEF Rooted
  <2>3. c \in S
    BY <1>1, <1>2, <1>3, <1>4, <2>2 DEF HasChildren
  <2> QED
    BY <1>2, <2>2, <2>3
<1> QED
  BY <1>1, <1>3, <1>4 DEF Rooted

LEMMA RootedRelease ==
    ASSUME TreeInv, NEW p \in Pids, ProcessRelease(p)
    PROVE  Rooted'
<1> USE DEF TreeInv
<1>1. Tasks' = Tasks \ {p} /\ p # Reaper /\ p \in Tasks
  BY DEF ProcessRelease, Tasks, ProcessesTypeOK
<1>2. \A q \in Tasks' : parent'[q] = parent[q] /\ parent[q] # p
  <2>1. Idle # p /\ parent[Reaper] = Idle
    BY DEF Rooted
  <2> QED
    BY <1>1, <2>1 DEF ProcessRelease, ProcessesTypeOK, Tasks
<1>3. ASSUME NEW S \in SUBSET Tasks', HasChildren(S, Reaper)'
      PROVE  Tasks' \ {Reaper} \subseteq S
  <2>1. S \cup {p} \in SUBSET Tasks /\ HasChildren(S \cup {p}, Reaper)
    BY <1>1, <1>2, <1>3 DEF HasChildren
  <2>2. Tasks \ {Reaper} \subseteq S \cup {p}
    BY <2>1 DEF Rooted
  <2> QED
    BY <1>1, <2>2
<1>4. parent'[Reaper] = Idle
  BY <1>1 DEF ProcessRelease, ProcessesTypeOK, Rooted
<1> QED
  BY <1>3, <1>4 DEF Rooted

(* A set that is closed in the new tree need not be in the old one; its    *)
(* members whose ancestors are all in it are.                              *)
LEMMA RootedExit ==
    ASSUME TreeInv, NEW p \in Pids, ProcessExit(p)
    PROVE  Rooted'
<1> USE DEF TreeInv
<1>1. PICK r \in Pids :
         /\ r \in Tasks /\ p \in Below(r)
         /\ parent' = [q \in Pids |-> IF q \in Tasks /\ parent[q] = p THEN r ELSE parent[q]]
  BY ExitParent
<1>2. Tasks' = Tasks /\ p \in Tasks /\ Tasks \subseteq Pids
  BY DEF ProcessExit, Ready, Tasks, ProcessesTypeOK
<1>3. \A q \in Tasks : parent'[q] = IF parent[q] = p THEN r ELSE parent[q]
  BY <1>1, <1>2
<1>4. ASSUME NEW S \in SUBSET Tasks, HasChildren(S, Reaper)'
      PROVE  Tasks \ {Reaper} \subseteq S
  <2> DEFINE U == {q \in S : \A a \in Tasks : q \in Below(a) => a \in S \cup {Reaper}}
  <2>1. ASSUME NEW c \in Tasks, parent[c] \in U \cup {Reaper}
        PROVE  c \in U
    <3>1. \A a \in Tasks : c \in Below(a) => a = parent[c] \/ parent[c] \in Below(a)
      BY BelowParent
    <3>2. ASSUME NEW a \in Tasks
          PROVE  Reaper \notin Below(a)
      <4>1. Idle \notin Below(a) \cup {a}
        BY <1>2, BelowClosed
      <4> QED
        BY <4>1, BelowParent DEF Rooted
    <3>3. /\ parent[c] \in S \cup {Reaper}
          /\ \A a \in Tasks : parent[c] \in Below(a) => a \in S \cup {Reaper}
      BY <2>1, <3>2
    <3>4. parent'[c] \in S \cup {Reaper}
      BY <1>1, <1>3, <3>3
    <3>5. c \in S
      BY <1>2, <1>4, <3>4 DEF HasChildren
    <3> QED
      BY <3>1, <3>3, <3>5
  <2>2. U \in SUBSET Tasks /\ HasChildren(U, Reaper)
    BY <2>1 DEF HasChildren
  <2> HIDE DEF U
  <2>3. Tasks \ {Reaper} \subseteq U
    BY <2>2 DEF Rooted
  <2> QED
    BY <2>3 DEF U
<1>5. parent'[Reaper] = Idle
  BY <1>1 DEF Rooted
<1> QED
  BY <1>2, <1>4, <1>5 DEF Rooted
LEMMA TreeNext == TreeInv /\ [ProcessesNext]_processVars => TreeInv'
<1> SUFFICES ASSUME TreeInv, [ProcessesNext]_processVars PROVE TreeInv'
  OBVIOUS
<1> USE DEF TreeInv
<1>1. ASSUME NEW p \in Pids, NEW c \in Pids, Fork(p, c) PROVE TreeInv'
  BY <1>1, TypeFork, RootedFork
<1>2. ASSUME NEW p \in Pids, ProcessExit(p) PROVE TreeInv'
  BY <1>2, TypeExit, RootedExit
<1>3. ASSUME NEW p \in Pids, ProcessRelease(p) PROVE TreeInv'
  BY <1>3, TypeRelease, RootedRelease
<1>4. CASE Calls
  BY <1>4, TypeCalls, CallsKeepTree, SameTree
<1> QED
  BY <1>1, <1>2, <1>3, <1>4, Steps

(* Parents run: the orphans of an exiting process never go to a zombie, or *)
(* to the process itself.                                                  *)
THEOREM TreeTyped == ProcessesSpec => []ProcessesTypeOK
<1>1. ProcessesInit => TreeInv
  BY TypeInit, RootedInit DEF TreeInv
<1>2. TreeInv => ProcessesTypeOK
  BY DEF TreeInv
<1> QED
  BY <1>1, <1>2, TreeNext, PTL DEF ProcessesSpec

------------------------------------------------------------------------------
(* Groups and sessions. *)

(* The process with the number of a group may have left the group, but not *)
(* its session.                                                            *)
GroupsOfNumbers == \A p, q \in Tasks : pgrp[q] = p => session[q] = session[p]

GroupInv == ProcessesTypeOK /\ GroupsWithinSessions /\ SessionsAreLed /\ GroupsOfNumbers

LEMMA GroupInit == ProcessesInit => GroupInv
<1> SUFFICES ASSUME ProcessesInit PROVE GroupInv
  OBVIOUS
<1>1. Tasks = {Reaper} /\ Idle # Reaper
  BY DEF ProcessesInit, Tasks
<1>2. pgrp[Reaper] = Idle /\ session[Reaper] = Idle /\ leader[Reaper] = FALSE
  BY DEF ProcessesInit
<1> QED
  BY <1>1, <1>2, TypeInit
  DEF GroupInv, GroupsWithinSessions, SessionsAreLed, GroupsOfNumbers, GetPgid, GetSid

LEMMA GroupFork ==
    ASSUME GroupInv, NEW p \in Pids, NEW c \in Pids, Fork(p, c)
    PROVE  (GroupsWithinSessions /\ SessionsAreLed /\ GroupsOfNumbers)'
<1> USE DEF GroupInv, GetPgid, GetSid
<1>1. c \notin Tasks /\ p \in Tasks
  BY DEF Fork, Ready, Tasks
<1>2. Tasks' = Tasks \cup {c} /\ Tasks \subseteq Pids
  BY DEF Fork, Tasks, ProcessesTypeOK
<1>3. /\ pgrp'[c] = pgrp[p] /\ session'[c] = session[p] /\ leader'[c] = FALSE
      /\ \A q \in Tasks : pgrp'[q] = pgrp[q] /\ session'[q] = session[q] /\ leader'[q] = leader[q]
  BY <1>1, <1>2 DEF Fork, ProcessesTypeOK
<1>4. \A q \in Tasks : pgrp[q] # c /\ session[q] # c
  BY DEF Fork
<1>5. GroupsWithinSessions'
  BY <1>1, <1>2, <1>3 DEF GroupsWithinSessions
<1>6. SessionsAreLed'
  BY <1>1, <1>2, <1>3, <1>4 DEF SessionsAreLed
<1>7. GroupsOfNumbers'
  BY <1>1, <1>2, <1>3, <1>4 DEF GroupsOfNumbers
<1> QED
  BY <1>5, <1>6, <1>7

LEMMA GroupRelease ==
    ASSUME GroupInv, NEW p \in Pids, ProcessRelease(p)
    PROVE  (GroupsWithinSessions /\ SessionsAreLed /\ GroupsOfNumbers)'
<1> USE DEF GroupInv, GetPgid, GetSid
<1>1. Tasks' = Tasks \ {p} /\ Tasks \subseteq Pids
  BY DEF ProcessRelease, Tasks, ProcessesTypeOK
<1>2. \A q \in Tasks' : pgrp'[q] = pgrp[q] /\ session'[q] = session[q] /\ leader'[q] = leader[q]
  BY <1>1 DEF ProcessRelease, ProcessesTypeOK
<1> QED
  BY <1>1, <1>2 DEF GroupsWithinSessions, SessionsAreLed, GroupsOfNumbers

LEMMA GroupSetPgid ==
    ASSUME GroupInv, NEW p \in Pids, NEW t \in Pids, NEW g \in Pids, SetPgid(p, t, g)
    PROVE  (GroupsWithinSessions /\ SessionsAreLed /\ GroupsOfNumbers)'
<1> USE DEF GroupInv, GetPgid, GetSid
<1>1. Tasks' = Tasks /\ Tasks \subseteq Pids /\ t \in Tasks /\ p \in Tasks
  BY DEF SetPgid, Ready, Tasks
<1>2. /\ pgrp'[t] = g /\ UNCHANGED <<session, leader>> /\ ~leader[t]
      /\ \A q \in Tasks : q # t => pgrp'[q] = pgrp[q]
  BY <1>1 DEF SetPgid, ProcessesTypeOK
<1>3. session[t] = session[p]
  BY DEF SetPgid
<1>4. \A q \in Tasks : pgrp[q] = g => session[q] = session[t]
  BY <1>1, <1>3 DEF SetPgid, GroupsWithinSessions, GroupsOfNumbers
<1>5. g \in Tasks => session[g] = session[t]
  BY <1>1, <1>3 DEF SetPgid, GroupsOfNumbers
<1>6. GroupsWithinSessions'
  BY <1>1, <1>2, <1>4 DEF GroupsWithinSessions
<1>7. SessionsAreLed'
  BY <1>1, <1>2 DEF SessionsAreLed
<1>8. GroupsOfNumbers'
  BY <1>1, <1>2, <1>5 DEF GroupsOfNumbers
<1> QED
  BY <1>6, <1>7, <1>8

LEMMA GroupSetSid ==
    ASSUME GroupInv, NEW p \in Pids, SetSid(p)
    PROVE  (GroupsWithinSessions /\ SessionsAreLed /\ GroupsOfNumbers)'
<1> USE DEF GroupInv, GetPgid, GetSid
<1>1. Tasks' = Tasks /\ Tasks \subseteq Pids /\ p \in Tasks
  BY DEF SetSid, Ready, Tasks
<1>2. /\ pgrp'[p] = p /\ session'[p] = p /\ leader'[p] = TRUE
      /\ \A q \in Tasks : q # p => /\ pgrp'[q] = pgrp[q]
                                   /\ session'[q] = session[q]
                                   /\ leader'[q] = leader[q]
  BY <1>1 DEF SetSid, SetSpecialPids, ProcessesTypeOK
<1>3. \A q \in Tasks : pgrp[q] # p
  BY DEF SetSid
<1>4. GroupsWithinSessions'
  BY <1>1, <1>2, <1>3 DEF GroupsWithinSessions
<1>5. SessionsAreLed'
  BY <1>1, <1>2 DEF SessionsAreLed
<1>6. GroupsOfNumbers'
  BY <1>1, <1>2, <1>3 DEF GroupsOfNumbers
<1> QED
  BY <1>4, <1>5, <1>6

LEMMA GroupKept ==
    ASSUME GroupInv, UNCHANGED groups, Tasks' = Tasks
    PROVE  (GroupsWithinSessions /\ SessionsAreLed /\ GroupsOfNumbers)'
BY DEF groups, GroupInv, GroupsWithinSessions, SessionsAreLed, GroupsOfNumbers, GetPgid, GetSid

LEMMA GroupNext == TreeInv /\ GroupInv /\ [ProcessesNext]_processVars => GroupInv'
<1> SUFFICES ASSUME TreeInv, GroupInv, [ProcessesNext]_processVars
             PROVE  (GroupsWithinSessions /\ SessionsAreLed /\ GroupsOfNumbers)'
  BY TreeNext DEF TreeInv, GroupInv
<1>1. ASSUME NEW p \in Pids, ProcessExit(p)
      PROVE  UNCHANGED groups /\ Tasks' = Tasks
  BY <1>1 DEF ProcessExit, Ready, Tasks, TreeInv, ProcessesTypeOK
<1>2. ASSUME NEW p \in Pids, ProcessExec(p) \/ Walk(p)
      PROVE  UNCHANGED groups /\ Tasks' = Tasks
  BY <1>2 DEF ProcessExec, Walk, Tasks
<1>3. ASSUME NEW p \in Pids, NEW on \in BOOLEAN, SetChildSubreaper(p, on)
      PROVE  UNCHANGED groups /\ Tasks' = Tasks
  BY <1>3 DEF SetChildSubreaper, Tasks
<1>4. ASSUME UNCHANGED processVars
      PROVE  UNCHANGED groups /\ Tasks' = Tasks
  BY <1>4 DEF processVars, groups, Tasks
<1> QED
  BY <1>1, <1>2, <1>3, <1>4, Steps, GroupFork, GroupRelease, GroupSetPgid, GroupSetSid, GroupKept
  DEF Calls

(* No process group reaches across sessions, and a session has its leader  *)
(* as long as that process is there, in the group of its number (lines     *)
(* 1180-1192, 1304-1312).                                                  *)
THEOREM SessionsSound == ProcessesSpec => []SessionsAreSound
<1>1. ProcessesInit => TreeInv
  BY TypeInit, RootedInit DEF TreeInv
<1>2. GroupInv => SessionsAreSound
  BY DEF GroupInv, SessionsAreSound
<1> QED
  BY <1>1, <1>2, GroupInit, TreeNext, GroupNext, PTL DEF ProcessesSpec

------------------------------------------------------------------------------
(* Subreapers. *)

(* The processes whose descendants have the flag: they have it, or have    *)
(* asked for orphans and walked the tree.                                  *)
Marked(x) == has_child_subreaper[x] \/ (is_child_subreaper[x] /\ x \notin walking)

FlagsInherited ==
    /\ ~has_child_subreaper[Reaper]
    /\ \A c \in Tasks : parent[c] \in Tasks /\ Marked(parent[c]) => has_child_subreaper[c]

(* From children to descendants. *)
LEMMA MarkedReaches ==
    ASSUME FlagsInherited, NEW p \in Tasks, Marked(p)
    PROVE  \A q \in Below(p) : has_child_subreaper[q]
<1> DEFINE S == {q \in Tasks : has_child_subreaper[q]}
<1>3. ASSUME NEW c \in Tasks, parent[c] \in S \cup {p}
      PROVE  c \in S
  <2>1. parent[c] \in Tasks /\ Marked(parent[c])
    <3>1. CASE parent[c] = p
      BY <3>1
    <3>2. CASE parent[c] \in S
      BY <3>2 DEF Marked
    <3> QED
      BY <1>3, <3>1, <3>2
  <2> QED
    BY <2>1 DEF FlagsInherited
<1>1. S \in SUBSET Tasks /\ HasChildren(S, p)
  BY <1>3 DEF HasChildren
<1>2. Below(p) \subseteq S
  BY <1>1, BelowLeast
<1> QED
  BY <1>2

LEMMA ReachedClosed ==
    ASSUME NEW p
    PROVE  ToFlag(p) \subseteq Tasks /\ Reached(ToFlag(p), p) /\ Reaper \notin ToFlag(p)
<1>1. ToFlag(p) \subseteq Tasks
  BY DEF ToFlag
<1>2. ASSUME NEW c \in Tasks, parent[c] \in ToFlag(p) \cup {p}, ~Skipped(c)
      PROVE  c \in ToFlag(p)
  <2>1. ASSUME NEW S \in SUBSET Tasks, Reached(S, p)
        PROVE  c \in S
    BY <1>2, <2>1 DEF ToFlag, Reached
  <2> QED
    BY <2>1 DEF ToFlag
<1>3. Reached(Tasks \ {Reaper}, p)
  BY DEF Reached, Skipped
<1>4. Reaper \notin ToFlag(p)
  BY <1>3 DEF ToFlag
<1> QED
  BY <1>1, <1>2, <1>4 DEF Reached

LEMMA FlagsFork ==
    ASSUME TreeInv, FlagsInherited, NEW p \in Pids, NEW c \in Pids, Fork(p, c)
    PROVE  FlagsInherited'
<1> USE DEF TreeInv
<1>1. c \notin Tasks /\ p \in Tasks /\ p \notin walking /\ Reaper \in Tasks
  BY DEF Fork, Ready, Tasks, ProcessesTypeOK
<1>2. Tasks' = Tasks \cup {c} /\ Tasks \subseteq Pids
  BY DEF Fork, Tasks, ProcessesTypeOK
<1>3. /\ parent'[c] = p /\ is_child_subreaper'[c] = FALSE
      /\ has_child_subreaper'[c] = (has_child_subreaper[p] \/ is_child_subreaper[p])
      /\ \A q \in Tasks : /\ parent'[q] = parent[q]
                          /\ is_child_subreaper'[q] = is_child_subreaper[q]
                          /\ has_child_subreaper'[q] = has_child_subreaper[q]
      /\ walking' = walking
  BY <1>1, <1>2 DEF Fork, ProcessesTypeOK
<1>4. \A q \in Tasks : parent[q] # c
  <2>1. state[c] = "free" /\ c # Idle
    BY <1>1 DEF Tasks
  <2> QED
    BY <2>1 DEF ProcessesTypeOK, Rooted
<1>5. ~has_child_subreaper'[Reaper]
  BY <1>1, <1>3 DEF FlagsInherited
<1>6. ASSUME NEW q \in Tasks', parent'[q] \in Tasks', Marked(parent[q])'
      PROVE  has_child_subreaper'[q]
  <2>1. CASE q = c
    BY <1>1, <1>3, <1>6, <2>1 DEF Marked
  <2>2. CASE q # c
    BY <1>2, <1>3, <1>4, <1>6, <2>2 DEF Marked, FlagsInherited
  <2> QED
    BY <2>1, <2>2
<1> QED
  BY <1>5, <1>6 DEF FlagsInherited

LEMMA FlagsExit ==
    ASSUME TreeInv, FlagsInherited, NEW p \in Pids, ProcessExit(p)
    PROVE  FlagsInherited'
<1> USE DEF TreeInv
<1>1. PICK r \in Pids :
         /\ r \in Tasks /\ p \in Below(r)
         /\ parent' = [q \in Pids |-> IF q \in Tasks /\ parent[q] = p THEN r ELSE parent[q]]
  BY ExitParent
<1>2. Tasks' = Tasks /\ p \in Tasks /\ Tasks \subseteq Pids
  BY DEF ProcessExit, Ready, Tasks, ProcessesTypeOK
<1>3. UNCHANGED <<is_child_subreaper, has_child_subreaper, walking>>
  BY DEF ProcessExit, flags
<1>4. \A q \in Tasks : parent'[q] = IF parent[q] = p THEN r ELSE parent[q]
  BY <1>1, <1>2
<1>5. ASSUME NEW q \in Tasks, parent[q] = p, Marked(r)
      PROVE  has_child_subreaper[q]
  <2>1. q \in Below(r)
    BY <1>1, <1>5, BelowClosed DEF HasChildren
  <2> QED
    BY <1>1, <1>5, <2>1, MarkedReaches
<1>6. ASSUME NEW q \in Tasks', parent'[q] \in Tasks', Marked(parent[q])'
      PROVE  has_child_subreaper'[q]
  BY <1>2, <1>3, <1>4, <1>5, <1>6 DEF Marked, FlagsInherited
<1> QED
  BY <1>3, <1>6 DEF FlagsInherited

LEMMA FlagsRelease ==
    ASSUME TreeInv, FlagsInherited, NEW p \in Pids, ProcessRelease(p)
    PROVE  FlagsInherited'
<1> USE DEF TreeInv
<1>1. Tasks' = Tasks \ {p} /\ Tasks \subseteq Pids /\ p # Reaper /\ Reaper \in Tasks
  BY DEF ProcessRelease, Tasks, ProcessesTypeOK
<1>2. /\ \A q \in Tasks' : /\ parent'[q] = parent[q]
                           /\ is_child_subreaper'[q] = is_child_subreaper[q]
                           /\ has_child_subreaper'[q] = has_child_subreaper[q]
      /\ walking' = walking
  BY <1>1 DEF ProcessRelease, ProcessesTypeOK
<1> QED
  BY <1>1, <1>2 DEF FlagsInherited, Marked

LEMMA FlagsWalk ==
    ASSUME TreeInv, FlagsInherited, NEW p \in Pids, Walk(p)
    PROVE  FlagsInherited'
<1> USE DEF TreeInv
<1>1. Tasks' = Tasks /\ parent' = parent /\ Tasks \subseteq Pids /\ Reaper \in Tasks
  BY DEF Walk, Tasks, ProcessesTypeOK
<1>2. /\ \A q \in Tasks : has_child_subreaper'[q] <=> has_child_subreaper[q] \/ q \in ToFlag(p)
      /\ UNCHANGED is_child_subreaper /\ walking' = walking \ {p}
  BY <1>1 DEF Walk
<1>3. ASSUME NEW q \in Tasks, parent[q] \in Tasks, Marked(parent[q])'
      PROVE  has_child_subreaper'[q]
  <2>1. q # Reaper
    BY <1>3 DEF Rooted, Tasks
  <2>2. CASE parent[q] \in ToFlag(p) \cup {p}
    <3>1. Skipped(q) \/ q \in ToFlag(p)
      BY <2>2, ReachedClosed DEF Reached
    <3> QED
      BY <1>2, <2>1, <3>1 DEF Skipped
  <2>3. CASE parent[q] \notin ToFlag(p) \cup {p}
    <3>1. Marked(parent[q])
      BY <1>1, <1>2, <1>3, <2>3 DEF Marked
    <3> QED
      BY <1>2, <1>3, <3>1 DEF FlagsInherited
  <2> QED
    BY <2>2, <2>3
<1>4. ~has_child_subreaper'[Reaper]
  BY <1>1, <1>2, ReachedClosed DEF FlagsInherited
<1> QED
  BY <1>1, <1>3, <1>4 DEF FlagsInherited

LEMMA FlagsSet ==
    ASSUME TreeInv, FlagsInherited, NEW p \in Pids, NEW on \in BOOLEAN, SetChildSubreaper(p, on)
    PROVE  FlagsInherited'
<1>1. Tasks' = Tasks /\ parent' = parent /\ Tasks \subseteq Pids
  BY DEF SetChildSubreaper, Tasks
<1>2. /\ UNCHANGED has_child_subreaper
      /\ \A q \in Tasks : is_child_subreaper'[q] = IF q = p THEN on ELSE is_child_subreaper[q]
      /\ walking' = IF on THEN walking \cup {p} ELSE walking
  BY <1>1 DEF SetChildSubreaper, TreeInv, ProcessesTypeOK
<1>3. \A x \in Tasks : Marked(x)' => Marked(x)
  BY <1>2 DEF Marked
<1> QED
  BY <1>1, <1>2, <1>3 DEF FlagsInherited

FlagInv == TreeInv /\ FlagsInherited

LEMMA FlagNext == FlagInv /\ [ProcessesNext]_processVars => FlagInv'
<1> SUFFICES ASSUME TreeInv, FlagsInherited, [ProcessesNext]_processVars PROVE FlagsInherited'
  BY TreeNext DEF FlagInv
<1>1. ASSUME UNCHANGED flags, TreeKept
      PROVE  FlagsInherited'
  BY <1>1, SameTree DEF flags, TreeKept, FlagsInherited, Marked
<1>2. ASSUME NEW p \in Pids, ProcessExec(p) \/ SetSid(p)
      PROVE  UNCHANGED flags
  BY <1>2 DEF ProcessExec, SetSid
<1>3. ASSUME NEW p \in Pids, NEW t \in Pids, NEW g \in Pids, SetPgid(p, t, g)
      PROVE  UNCHANGED flags
  BY <1>3 DEF SetPgid
<1>4. ASSUME UNCHANGED processVars
      PROVE  UNCHANGED flags
  BY <1>4 DEF processVars, flags
<1>5. CASE Calls
  BY <1>1, <1>2, <1>3, <1>4, <1>5, CallsKeepTree, FlagsWalk, FlagsSet DEF Calls
<1> QED
  BY <1>5, Steps, FlagsFork, FlagsExit, FlagsRelease

LEMMA FlagInit == ProcessesInit => FlagInv
<1> SUFFICES ASSUME ProcessesInit PROVE FlagInv
  OBVIOUS
<1>1. Tasks = {Reaper} /\ parent[Reaper] = Idle /\ Idle # Reaper /\ ~has_child_subreaper[Reaper]
  BY DEF ProcessesInit, Tasks
<1> QED
  BY <1>1, TypeInit, RootedInit DEF FlagInv, TreeInv, FlagsInherited

(* The walk may skip a flagged process with all below it, however other    *)
(* processes fork, exit and call prctl between the two steps of the call   *)
(* (lines 2401-2403).                                                      *)
THEOREM FlagReaches == ProcessesSpec => []FlagReachesAll
<1>1. FlagInv => FlagReachesAll
  <2> SUFFICES ASSUME FlagInv, NEW p \in Tasks, has_child_subreaper[p]
               PROVE  \A q \in Below(p) : has_child_subreaper[q]
    BY DEF FlagReachesAll
  <2> QED
    BY MarkedReaches DEF FlagInv, Marked
<1> QED
  BY <1>1, FlagInit, FlagNext, PTL DEF ProcessesSpec

(* The children of an exiting process go to the nearest subreaper above it *)
(* whose prctl has returned: the flag hides none.                          *)
THEOREM OrphansAdopted == ProcessesSpec => OrphansFindSubreaper
<1> DEFINE Adopted ==
       \A p, c \in Pids :
          /\ ProcessExit(p) /\ c \in Tasks /\ parent[c] = p
          /\ Subreapers(p) \ walking # {}
          => parent'[c] \in Nearest(Subreapers(p))
<1>1. FlagInv => Adopted
  <2> SUFFICES ASSUME FlagInv, NEW p \in Pids, NEW c \in Pids,
                      ProcessExit(p), c \in Tasks, parent[c] = p,
                      NEW a \in Subreapers(p) \ walking
               PROVE  parent'[c] \in Nearest(Subreapers(p))
    OBVIOUS
  <2>1. a \in Tasks /\ p \in Below(a) /\ Marked(a)
    BY DEF Subreapers, Marked
  <2>2. has_child_subreaper[p]
    BY <2>1, MarkedReaches DEF FlagInv
  <2>3. NewParents(p) = Nearest(Subreapers(p))
    BY <2>2 DEF NewParents
  <2> QED
    BY <2>3 DEF ProcessExit
<1>2. FlagInv /\ [ProcessesNext]_processVars => [Adopted]_processVars
  BY <1>1
<1> QED
  BY <1>2, FlagInit, FlagNext, PTL DEF ProcessesSpec, OrphansFindSubreaper

------------------------------------------------------------------------------
(* Credentials. *)

USE CredentialsAssumption

------------------------------------------------------------------------------
(* The ids that the calls compute. *)

LEMMA RecordFields ==
    ASSUME NEW S, NEW id \in IdRecords(S)
    PROVE  /\ id.r \in S /\ id.e \in S /\ id.s \in S /\ id.f \in S
           /\ Held(id) \subseteq S
           /\ id = [r |-> id.r, e |-> id.e, s |-> id.s, f |-> id.f]
BY DEF IdRecords, Held, Res

(* set*id with two ids: the result is a record of ids, which are held      *)
(* already unless the caller is capable, and all one id when it is given   *)
(* for both.                                                               *)
LEMMA NewReResult ==
    ASSUME NEW S, Keep \notin S, NEW id \in IdRecords(S),
           NEW r \in S \cup {Keep}, NEW e \in S \cup {Keep}, NEW cap,
           MayRe(id, r, e, cap)
    PROVE  /\ NewRe(id, r, e) \in IdRecords(S)
           /\ Capable(cap) \/ Held(NewRe(id, r, e)) \subseteq Held(id)
           /\ r = e /\ r \in S => NewRe(id, r, e) = All(r)
<1>1. id.r \in S /\ id.e \in S /\ id.s \in S
  BY RecordFields
<1>2. Or(r, id.r) \in S /\ Or(e, id.e) \in S
  BY <1>1 DEF Or
<1>3. NewRe(id, r, e) \in IdRecords(S)
  BY <1>1, <1>2 DEF NewRe, IdRecords
<1>4. ~Capable(cap) => Or(r, id.r) \in Held(id) /\ Or(e, id.e) \in Held(id)
  BY DEF MayRe, Or, Held, Res
<1>5. Capable(cap) \/ Held(NewRe(id, r, e)) \subseteq Held(id)
  BY <1>4 DEF NewRe, Held, Res
<1>6. r = e /\ r \in S => NewRe(id, r, e) = All(r)
  BY DEF NewRe, All, Or
<1> QED
  BY <1>3, <1>5, <1>6

(* The same of set*id with three ids. *)
LEMMA NewResResult ==
    ASSUME NEW S, Keep \notin S, NEW id \in IdRecords(S),
           NEW r \in S \cup {Keep}, NEW e \in S \cup {Keep}, NEW s \in S \cup {Keep},
           NEW cap, MayRes(id, r, e, s, cap)
    PROVE  /\ NewRes(id, r, e, s) \in IdRecords(S)
           /\ Capable(cap) \/ Held(NewRes(id, r, e, s)) \subseteq Held(id)
           /\ r = e /\ r = s /\ r \in S => NewRes(id, r, e, s) = All(r)
<1>1. id.r \in S /\ id.e \in S /\ id.s \in S
  BY RecordFields
<1>2. Or(r, id.r) \in S /\ Or(e, id.e) \in S /\ Or(s, id.s) \in S
  BY <1>1 DEF Or
<1>3. NewRes(id, r, e, s) \in IdRecords(S)
  BY <1>2 DEF NewRes, IdRecords
<1>4. ~Capable(cap) => /\ Or(r, id.r) \in Held(id)
                       /\ Or(e, id.e) \in Held(id)
                       /\ Or(s, id.s) \in Held(id)
  BY DEF MayRes, Or, Held, Res
<1>5. Capable(cap) \/ Held(NewRes(id, r, e, s)) \subseteq Held(id)
  BY <1>4 DEF NewRes, Held, Res
<1>6. r = e /\ r = s /\ r \in S => NewRes(id, r, e, s) = All(r)
  BY DEF NewRes, All, Or
<1> QED
  BY <1>3, <1>5, <1>6

(* The same of set*id with one id. *)
LEMMA NewSetResult ==
    ASSUME NEW S, NEW id \in IdRecords(S), NEW x \in S, NEW cap, MaySet(id, x, cap)
    PROVE  /\ NewSet(id, x, cap) \in IdRecords(S)
           /\ Capable(cap) \/ Held(NewSet(id, x, cap)) \subseteq Held(id)
           /\ Capable(cap) => NewSet(id, x, cap) = All(x)
<1>1. id.r \in S /\ id.s \in S /\ id = [r |-> id.r, e |-> id.e, s |-> id.s, f |-> id.f]
  BY RecordFields
<1>2. CASE Capable(cap)
  BY <1>2 DEF NewSet, All, IdRecords
<1>3. CASE ~Capable(cap)
  <2>1. x \in {id.r, id.s}
    BY <1>3 DEF MaySet
  <2>2. NewSet(id, x, cap) = [r |-> id.r, e |-> x, s |-> id.s, f |-> x]
    BY <1>1, <1>3 DEF NewSet, IdRecords
  <2> QED
    BY <1>1, <1>3, <2>1, <2>2 DEF IdRecords, Held, Res
<1> QED
  BY <1>2, <1>3

(* setfsuid and setfsgid *)
LEMMA NewFsResult ==
    ASSUME NEW S, NEW id \in IdRecords(S), NEW x \in S, NEW cap, MaySetFs(id, x, cap)
    PROVE  /\ [id EXCEPT !.f = x] = [r |-> id.r, e |-> id.e, s |-> id.s, f |-> x]
           /\ [id EXCEPT !.f = x] \in IdRecords(S)
           /\ Capable(cap) \/ Held([id EXCEPT !.f = x]) \subseteq Held(id)
<1>1. [id EXCEPT !.f = x] = [r |-> id.r, e |-> id.e, s |-> id.s, f |-> x]
  BY RecordFields DEF IdRecords
<1> QED
  BY <1>1, RecordFields DEF MaySetFs, IdRecords, Held, Res

------------------------------------------------------------------------------
(* One form for setreuid, setuid and setresuid. *)

(* The new ids were held or the caller is capable, and privilege is given  *)
(* up only with all ids of one user.                                       *)
Change ==
    \E new \in IdRecords(Ids), drop \in Ids \cup {Keep} :
        /\ ChangeUid(new, drop)
        /\ Capable("setuid") \/ Held(new) \subseteq Held(uid)
        /\ drop \in Ids => new = All(drop)

LEMMA UidCall ==
    ASSUME CredentialsTypeOK, UidCalls
    PROVE  Change \/ \E u \in Ids : SetFsUid(u)
<1>1. uid \in IdRecords(Ids) /\ Keep \notin Ids
  BY DEF CredentialsTypeOK
<1>2. ASSUME NEW u \in Ids, SetUid(u)
      PROVE  Change
  BY <1>1, <1>2, NewSetResult DEF SetUid, Change
<1>3. ASSUME NEW r \in Ids \cup {Keep}, NEW e \in Ids \cup {Keep}, SetReUid(r, e)
      PROVE  Change
  BY <1>1, <1>3, NewReResult DEF SetReUid, Change
<1>4. ASSUME NEW r \in Ids \cup {Keep}, NEW e \in Ids \cup {Keep},
             NEW s \in Ids \cup {Keep}, SetResUid(r, e, s)
      PROVE  Change
  <2> DEFINE new == NewRes(uid, r, e, s)
             drop == IF {r, e, s} = {r} THEN r ELSE Keep
  <2>1. ChangeUid(new, drop) /\ MayRes(uid, r, e, s, "setuid")
    BY <1>4 DEF SetResUid
  <2>2. drop \in Ids \cup {Keep} /\ (drop \in Ids => r = drop /\ r = e /\ r = s)
    BY <1>1
  <2>3. /\ new \in IdRecords(Ids)
        /\ Capable("setuid") \/ Held(new) \subseteq Held(uid)
        /\ drop \in Ids => new = All(drop)
    BY <1>1, <2>1, <2>2, NewResResult
  <2> HIDE DEF new, drop
  <2> QED
    BY <2>1, <2>2, <2>3 DEF Change
<1> QED
  BY <1>2, <1>3, <1>4 DEF UidCalls

(* One form for the calls that change the groups. *)
LEMMA GidCall ==
    ASSUME CredentialsTypeOK, GidCalls
    PROVE  \E new \in IdRecords(Gids) :
              /\ ChangeGid(new)
              /\ Capable("setgid") \/ Held(new) \subseteq Held(gid)
<1> DEFINE Changed ==
             \E new \in IdRecords(Gids) :
                ChangeGid(new) /\ (Capable("setgid") \/ Held(new) \subseteq Held(gid))
<1>1. gid \in IdRecords(Gids) /\ Keep \notin Gids
  BY DEF CredentialsTypeOK
<1>2. ASSUME NEW g \in Gids,
             SetGid(g)
      PROVE  Changed
  <2>1. ChangeGid(NewSet(gid, g, "setgid")) /\ MaySet(gid, g, "setgid")
    BY <1>2 DEF SetGid
  <2> QED
    BY <1>1, <2>1, NewSetResult
<1>3. ASSUME NEW g \in Gids,
             SetFsGid(g)
      PROVE  Changed
  <2> DEFINE new == [gid EXCEPT !.f = g]
  <2>1. ChangeGid(new) /\ MaySetFs(gid, g, "setgid")
    BY <1>3 DEF SetFsGid
  <2>2. new \in IdRecords(Gids) /\ (Capable("setgid") \/ Held(new) \subseteq Held(gid))
    BY <1>1, <2>1, NewFsResult
  <2> HIDE DEF new
  <2> QED
    BY <2>1, <2>2
<1>4. ASSUME NEW r \in Gids \cup {Keep}, NEW e \in Gids \cup {Keep},
             SetReGid(r, e)
      PROVE  Changed
  <2>1. ChangeGid(NewRe(gid, r, e)) /\ MayRe(gid, r, e, "setgid")
    BY <1>4 DEF SetReGid
  <2> QED
    BY <1>1, <2>1, NewReResult
<1>5. ASSUME NEW r \in Gids \cup {Keep}, NEW e \in Gids \cup {Keep},
             NEW s \in Gids \cup {Keep},
             SetResGid(r, e, s)
      PROVE  Changed
  <2>1. ChangeGid(NewRes(gid, r, e, s)) /\ MayRes(gid, r, e, s, "setgid")
    BY <1>5 DEF SetResGid
  <2> QED
    BY <1>1, <2>1, NewResResult
<1> QED
  BY <1>2, <1>3, <1>4, <1>5 DEF GidCalls
------------------------------------------------------------------------------
(* Type correctness. *)

LEMMA IdsChange ==
    ASSUME CredentialsTypeOK, Change
    PROVE  CredentialsTypeOK'
<1>1. PICK new \in IdRecords(Ids), drop \in Ids \cup {Keep} : ChangeUid(new, drop)
  BY DEF Change
<1>2. new.r \in Ids
  BY RecordFields
<1>3. uid' \in IdRecords(Ids) /\ user' \in Ids
  BY <1>1, <1>2 DEF ChangeUid, CredentialsTypeOK
<1>6. exceeded' \in BOOLEAN
  <2>1. CASE SetUser(new.r)
    <3>1. (new.r \in busy \ {Root}) \in BOOLEAN
      OBVIOUS
    <3> QED
      BY <2>1, <3>1, Zenon DEF SetUser
  <2>2. CASE exceeded' = exceeded
    BY <2>2 DEF CredentialsTypeOK
  <2> QED
    BY <1>1, <2>1, <2>2 DEF ChangeUid
<1>4. permitted' \subseteq Caps /\ effective' \subseteq permitted'
  <2>1. CASE FixSetuid(new)
    BY <2>1 DEF FixSetuid, CredentialsTypeOK
  <2> QED
    BY <1>1, <2>1 DEF ChangeUid, caps, CredentialsTypeOK
<1>5. dropped' \in Ids \cup {Nobody}
  BY <1>1 DEF ChangeUid, Drops, CredentialsTypeOK
<1>7. overLimit' \in BOOLEAN
  <2>1. (new.r \in busy \ {Root}) \in BOOLEAN
    OBVIOUS
  <2>2. CASE new.r # uid.r /\ overLimit' = (new.r \in busy \ {Root})
    BY <2>1, <2>2, Zenon
  <2>3. CASE overLimit' = overLimit
    BY <2>3 DEF CredentialsTypeOK
  <2> QED
    BY <1>1, <2>2, <2>3 DEF ChangeUid
<1>8. denied' \in BOOLEAN
  BY <1>1 DEF ChangeUid
<1> QED
  BY <1>1, <1>3, <1>4, <1>5, <1>6, <1>7, <1>8 DEF ChangeUid, CredentialsTypeOK

LEMMA IdsExec ==
    ASSUME CredentialsTypeOK, Execves
    PROVE  CredentialsTypeOK'
<1>1. PICK o \in Ids, g \in Gids : Execve(o, g)
  BY DEF Execves
<1>2. uid.r \in Ids /\ gid.r \in Gids
  BY RecordFields DEF CredentialsTypeOK
<1>3. uid' \in IdRecords(Ids) /\ gid' \in IdRecords(Gids)
  BY <1>1, <1>2 DEF Execve, IdRecords
<1>4. permitted' \subseteq Caps /\ effective' \subseteq permitted'
  BY <1>1 DEF Execve
<1> QED
  BY <1>1, <1>3, <1>4 DEF Execve, CredentialsTypeOK

LEMMA IdsNext == CredentialsTypeOK /\ [CredentialsNext]_credVars => CredentialsTypeOK'
<1> SUFFICES ASSUME CredentialsTypeOK, [CredentialsNext]_credVars PROVE CredentialsTypeOK'
  OBVIOUS
<1>1. ASSUME NEW u \in Ids, SetFsUid(u) PROVE CredentialsTypeOK'
  <2>1. uid' \in IdRecords(Ids)
    BY <1>1, NewFsResult DEF SetFsUid, CredentialsTypeOK
  <2> QED
    BY <1>1, <2>1 DEF SetFsUid, caps, limitHistory, CredentialsTypeOK
<1>2. CASE GidCalls
  BY <1>2, GidCall DEF ChangeGid, caps, limitHistory, CredentialsTypeOK
<1>3. CASE CapSet
  BY <1>3 DEF CapSet, limitHistory, CredentialsTypeOK
<1>4. CASE Others
  BY <1>4 DEF Others, caps, limitHistory, CredentialsTypeOK
<1>5. CASE UNCHANGED credVars
  BY <1>5 DEF credVars, caps, limitHistory, CredentialsTypeOK
<1> QED
  BY <1>1, <1>2, <1>3, <1>4, <1>5, UidCall, IdsChange, IdsExec DEF CredentialsNext

LEMMA IdsInit == CredentialsInit => CredentialsTypeOK
<1> SUFFICES ASSUME CredentialsInit PROVE CredentialsTypeOK
  OBVIOUS
<1>1. PICK u \in Ids, g \in Gids :
         /\ uid = All(u) /\ gid = All(g) /\ user = u
         /\ permitted = IF u = Root THEN Caps ELSE {}
  BY DEF CredentialsInit, Login
<1>2. uid \in IdRecords(Ids) /\ gid \in IdRecords(Gids)
  BY <1>1 DEF All, IdRecords
<1>3. permitted \subseteq Caps /\ effective \subseteq permitted
  BY <1>1 DEF CredentialsInit, Login
<1> QED
  BY <1>1, <1>2, <1>3 DEF CredentialsInit, Login, CredentialsTypeOK

(* -1 is never stored, whichever of the calls gets it and in whichever     *)
(* argument (lines 616-617, 715-720).                                      *)
THEOREM IdsTyped == CredentialsSpec => []CredentialsTypeOK
BY IdsInit, IdsNext, PTL DEF CredentialsSpec
------------------------------------------------------------------------------
(* The account. *)

LEMMA AccountNext == CredentialsTypeOK /\ UserMatchesUid /\ [CredentialsNext]_credVars => UserMatchesUid'
<1> SUFFICES ASSUME CredentialsTypeOK, UserMatchesUid, [CredentialsNext]_credVars PROVE UserMatchesUid'
  OBVIOUS
<1> USE DEF UserMatchesUid
<1>1. CASE Change
  BY <1>1 DEF Change, ChangeUid
<1>2. ASSUME NEW u \in Ids, SetFsUid(u) PROVE UserMatchesUid'
  BY <1>2, NewFsResult DEF SetFsUid, CredentialsTypeOK
<1>3. CASE GidCalls
  BY <1>3, GidCall DEF ChangeGid
<1>4. CASE Execves
  BY <1>4 DEF Execves, Execve
<1>5. CASE CapSet \/ Others \/ UNCHANGED credVars
  BY <1>5 DEF CapSet, Others, credVars
<1> QED
  BY <1>1, <1>2, <1>3, <1>4, <1>5, UidCall DEF CredentialsNext

(* The account that a process is counted in is that of its real user,      *)
(* whichever calls it has made and whichever were refused (lines 630, 708, *)
(* 782).                                                                   *)
THEOREM AccountRight == CredentialsSpec => []UserMatchesUid
<1>1. CredentialsInit => UserMatchesUid
  BY DEF CredentialsInit, Login, UserMatchesUid, All
<1> QED
  BY <1>1, IdsInit, IdsNext, AccountNext, PTL DEF CredentialsSpec

------------------------------------------------------------------------------
(* Privilege. *)

LEMMA PrivilegeNext == CredentialsTypeOK /\ PrivilegeNeedsRoot /\ [CredentialsNext]_credVars => PrivilegeNeedsRoot'
<1> SUFFICES ASSUME CredentialsTypeOK, PrivilegeNeedsRoot, [CredentialsNext]_credVars PROVE PrivilegeNeedsRoot'
  OBVIOUS
<1> USE DEF PrivilegeNeedsRoot
<1>1. CASE Change
  <2>1. PICK new \in IdRecords(Ids), drop \in Ids \cup {Keep} : ChangeUid(new, drop)
    BY <1>1 DEF Change
  <2>2. CASE uid' = new /\ FixSetuid(new)
    BY <2>2 DEF FixSetuid
  <2>3. CASE UNCHANGED <<uid, caps>>
    BY <2>3 DEF caps, Res
  <2> QED
    BY <2>1, <2>2, <2>3 DEF ChangeUid
<1>2. ASSUME NEW u \in Ids, SetFsUid(u) PROVE PrivilegeNeedsRoot'
  BY <1>2, NewFsResult DEF SetFsUid, CredentialsTypeOK, caps, Res
<1>3. CASE GidCalls
  BY <1>3, GidCall DEF ChangeGid, caps, Res
<1>4. CASE Execves
  BY <1>4 DEF Execves, Execve, Res
<1>5. CASE CapSet
  BY <1>5 DEF CapSet, Res
<1>6. CASE Others \/ UNCHANGED credVars
  BY <1>6 DEF Others, credVars, caps, Res
<1> QED
  BY <1>1, <1>2, <1>3, <1>4, <1>5, <1>6, UidCall DEF CredentialsNext

LEMMA PrivilegeInit == CredentialsInit => PrivilegeNeedsRoot
BY DEF CredentialsInit, Login, PrivilegeNeedsRoot, All, Res

(* Every call that takes the last root id away passes by                   *)
(* security_task_fix_setuid before it commits (lines 640, 717, 797).       *)
THEOREM PrivilegeIsRoots == CredentialsSpec => []PrivilegeNeedsRoot
BY PrivilegeInit, IdsInit, IdsNext, PrivilegeNext, PTL DEF CredentialsSpec

(* The users that have dropped everything: the part of the invariant that  *)
(* later calls rely on, with no capability and one id only.                *)
DropInv == CredentialsTypeOK /\ PrivilegeNeedsRoot /\ DropsStick /\ dropped # Root

LEMMA DropChange ==
    ASSUME DropInv, Change
    PROVE  DropsStick' /\ dropped' # Root
<1> USE DEF DropInv, CredentialsTypeOK, DropsStick, GetResUid
<1>1. PICK new \in IdRecords(Ids), drop \in Ids \cup {Keep} :
         /\ ChangeUid(new, drop)
         /\ Capable("setuid") \/ Held(new) \subseteq Held(uid)
         /\ drop \in Ids => new = All(drop)
  BY DEF Change
<1>2. CASE UNCHANGED <<uid, caps, dropped>>
  BY <1>2 DEF caps
<1>3. CASE uid' = new /\ FixSetuid(new) /\ Drops(drop)
  <2>1. CASE drop \in Ids \ {Root}
    <3>1. dropped' = drop /\ uid' = All(drop) /\ Root \notin Res(new)
      BY <1>1, <1>3, <2>1 DEF Drops, All, Res
    <3>2. permitted' = {}
      BY <1>3, <3>1 DEF FixSetuid, PrivilegeNeedsRoot
    <3> QED
      BY <2>1, <3>1, <3>2 DEF All
  <2>2. CASE drop \notin Ids \ {Root} /\ dropped # Nobody
    <3>1. dropped' = dropped /\ ~Capable("setuid") /\ permitted = {}
      BY <1>3, <2>2 DEF Drops, Capable
    <3>2. Held(new) \subseteq {dropped} /\ permitted' = {}
      BY <1>1, <1>3, <2>2, <3>1 DEF FixSetuid, Held, Res
    <3> QED
      BY <1>3, <2>2, <3>1, <3>2 DEF Held, Res
  <2>3. CASE drop \notin Ids \ {Root} /\ dropped = Nobody
    BY <1>3, <2>3 DEF Drops
  <2> QED
    BY <2>1, <2>2, <2>3
<1> QED
  BY <1>1, <1>2, <1>3 DEF ChangeUid

LEMMA DropNext == DropInv /\ [CredentialsNext]_credVars => DropInv'
<1> SUFFICES ASSUME DropInv, [CredentialsNext]_credVars PROVE DropsStick' /\ dropped' # Root
  BY IdsNext, PrivilegeNext DEF DropInv
<1> USE DEF DropInv, DropsStick, GetResUid
<1>1. CASE Change
  BY <1>1, DropChange
<1>2. ASSUME NEW u \in Ids, SetFsUid(u) PROVE DropsStick' /\ dropped' # Root
  <2>1. dropped # Nobody => ~Capable("setuid")
    BY DEF Capable, CredentialsTypeOK
  <2>2. dropped # Nobody => u = dropped
    BY <1>2, <2>1 DEF SetFsUid, MaySetFs, Held, Res
  <2> QED
    BY <1>2, <2>2, NewFsResult DEF SetFsUid, CredentialsTypeOK, caps
<1>3. CASE GidCalls
  BY <1>3, GidCall DEF ChangeGid, caps
<1>4. CASE Execves
  BY <1>4 DEF Execves, Execve
<1>5. CASE CapSet
  BY <1>5 DEF CapSet
<1>6. CASE Others \/ UNCHANGED credVars
  BY <1>6 DEF Others, credVars, caps
<1> QED
  BY <1>1, <1>2, <1>3, <1>4, <1>5, <1>6, UidCall DEF CredentialsNext, DropInv

(* What a program gave up with setreuid(u, u), setresuid(u, u, u) or       *)
(* root's setuid(u) it does not get back before the next exec (lines       *)
(* 592-595, 675-677).                                                      *)
THEOREM DroppedForGood == CredentialsSpec => []DropsStick
<1>1. CredentialsInit => DropInv
  BY IdsInit, PrivilegeInit DEF CredentialsInit, Login, DropInv, DropsStick
<1>2. DropInv => DropsStick
  BY DEF DropInv
<1> QED
  BY <1>1, <1>2, DropNext, PTL DEF CredentialsSpec

------------------------------------------------------------------------------
(* The limit of processes. *)

(* As long as no change was refused after set_user, the flag is the        *)
(* verdict on the user that the process is.                                *)
LimitInv == CredentialsTypeOK /\ UserMatchesUid /\ (denied \/ exceeded = overLimit)

LEMMA LimitChange ==
    ASSUME LimitInv, NEW new, NEW drop, ChangeUid(new, drop)
    PROVE  denied' \/ exceeded' = overLimit'
<1>1. exceeded \in BOOLEAN /\ overLimit \in BOOLEAN /\ denied \in BOOLEAN
  BY DEF LimitInv, CredentialsTypeOK
<1>2. CASE new.r # uid.r
  <2>1. exceeded' = (new.r \in busy \ {Root})
    BY <1>2 DEF ChangeUid, SetUser
  <2>2. denied' = (denied \/ TRUE) \/ overLimit' = (new.r \in busy \ {Root})
    BY <1>2 DEF ChangeUid
  <2> QED
    BY <2>1, <2>2, Zenon
<1>3. CASE new.r = uid.r
  <2>1. exceeded' = exceeded /\ overLimit' = overLimit
    BY <1>3 DEF ChangeUid
  <2>2. denied => denied'
    BY <1>1, <1>3 DEF ChangeUid
  <2> QED
    BY <2>1, <2>2 DEF LimitInv
<1> QED
  BY <1>2, <1>3

LEMMA LimitNext == LimitInv /\ [CredentialsNext]_credVars => LimitInv'
<1> SUFFICES ASSUME LimitInv, [CredentialsNext]_credVars PROVE LimitInv'
  OBVIOUS
<1>1. CredentialsTypeOK' /\ UserMatchesUid'
  BY IdsNext, AccountNext DEF LimitInv
<1>2. CASE Change
  BY <1>1, <1>2, LimitChange DEF Change, LimitInv
<1>3. CASE Execves
  BY <1>1, <1>3 DEF Execves, Execve, LimitInv
<1>4. CASE UNCHANGED <<exceeded, overLimit, denied>>
  BY <1>1, <1>4 DEF LimitInv
<1>5. ASSUME NEW u \in Ids, SetFsUid(u) PROVE UNCHANGED <<exceeded, overLimit, denied>>
  BY <1>5 DEF SetFsUid, limitHistory
<1>6. CASE GidCalls
  BY <1>4, <1>6, GidCall DEF ChangeGid, LimitInv, limitHistory
<1>7. CASE CapSet \/ Others \/ UNCHANGED credVars
  BY <1>4, <1>7 DEF CapSet, Others, credVars, limitHistory
<1> QED
  BY <1>2, <1>3, <1>4, <1>5, <1>6, <1>7, UidCall DEF CredentialsNext, LimitInv

(* exec is refused to a program that became its user at the limit of       *)
(* processes, while that user is there, and to no other, after any calls   *)
(* in between (lines 571-582); except after a refusal that set_user did    *)
(* not foresee.                                                            *)
THEOREM LimitDeferred == CredentialsSpec => []LimitReachesExec
<1>1. CredentialsInit => LimitInv
  <2> SUFFICES ASSUME CredentialsInit PROVE LimitInv
    OBVIOUS
  <2>1. PICK u \in Ids, g \in Gids, full \in SUBSET Limited : Login(u, g, full)
    BY DEF CredentialsInit
  <2> QED
    BY <2>1, IdsInit DEF Login, All, UserMatchesUid, LimitInv
<1>2. LimitInv => LimitReachesExec
  BY DEF LimitInv, UserMatchesUid, LimitReachesExec, ExecRefused
<1> QED
  BY <1>1, <1>2, LimitNext, PTL DEF CredentialsSpec

------------------------------------------------------------------------------
(* The implementation of Authority. *)

LEMMA AuthorityStep ==
    ASSUME CredentialsTypeOK, PrivilegeNeedsRoot, PrivilegeNeedsRoot', CredentialsTypeOK', [CredentialsNext]_credVars
    PROVE  [A!Next]_<<Held(uid), Held(gid), permitted, image>>
<1>1. Held(uid') \subseteq Ids /\ Held(gid') \subseteq Gids
  BY RecordFields DEF CredentialsTypeOK
<1>2. CASE Change
  <2>1. PICK new \in IdRecords(Ids), drop \in Ids \cup {Keep} :
           ChangeUid(new, drop) /\ (Capable("setuid") \/ Held(new) \subseteq Held(uid))
    BY <1>2 DEF Change
  <2>2. UNCHANGED <<gid, image>>
    BY <2>1 DEF ChangeUid
  <2>3. CASE UNCHANGED <<uid, caps>>
    BY <2>2, <2>3 DEF caps
  <2>4. CASE uid' = new /\ FixSetuid(new)
    <3>1. permitted' \subseteq permitted
      BY <2>4 DEF FixSetuid
    <3>2. CASE Capable("setuid")
      BY <1>1, <2>2, <3>1, <3>2 DEF A!Next, A!ChangeUser, Capable, CredentialsTypeOK
    <3>3. CASE Held(new) \subseteq Held(uid)
      BY <2>2, <2>4, <3>1, <3>3 DEF A!Next, A!GiveUp
    <3> QED
      BY <2>1, <3>2, <3>3
  <2> QED
    BY <2>1, <2>3, <2>4 DEF ChangeUid
<1>3. ASSUME NEW u \in Ids, SetFsUid(u)
      PROVE  A!Next
  <2>1. UNCHANGED <<gid, caps, image>> /\ (Capable("setuid") \/ Held(uid') \subseteq Held(uid))
    BY <1>3, NewFsResult DEF SetFsUid, CredentialsTypeOK
  <2>2. CASE Capable("setuid")
    BY <1>1, <2>1, <2>2 DEF A!Next, A!ChangeUser, Capable, CredentialsTypeOK, caps
  <2>3. CASE Held(uid') \subseteq Held(uid)
    BY <2>1, <2>3 DEF A!Next, A!GiveUp, caps
  <2> QED
    BY <2>1, <2>2, <2>3
<1>4. CASE GidCalls
  <2>1. PICK new \in IdRecords(Gids) :
           ChangeGid(new) /\ (Capable("setgid") \/ Held(new) \subseteq Held(gid))
    BY <1>4, GidCall
  <2>2. UNCHANGED <<uid, caps, image>> /\ gid' = new
    BY <2>1 DEF ChangeGid
  <2>3. CASE Capable("setgid")
    BY <1>1, <2>2, <2>3 DEF A!Next, A!ChangeGroup, Capable, CredentialsTypeOK, caps
  <2>4. CASE Held(new) \subseteq Held(gid)
    BY <2>2, <2>4 DEF A!Next, A!GiveUp, caps
  <2> QED
    BY <2>1, <2>3, <2>4
<1>5. CASE Execves
  <2>1. PICK o \in Ids, g \in Gids : Execve(o, g)
    BY <1>5 DEF Execves
  <2>2. Held(uid') \subseteq Held(uid) \cup {o} /\ Held(gid') \subseteq Held(gid) \cup {g}
    BY <2>1 DEF Execve, Held, Res
  <2>3. permitted' \subseteq Caps /\ (permitted' # {} => Root \in Held(uid'))
    BY DEF CredentialsTypeOK, PrivilegeNeedsRoot, Held
  <2>4. image' = ~image
    BY <2>1 DEF Execve
  <2>5. A!Execute(o, g)
    BY <2>2, <2>3, <2>4 DEF A!Execute
  <2> QED
    BY <2>5 DEF A!Next
<1>6. CASE CapSet
  BY <1>6 DEF CapSet, A!Next, A!GiveUp
<1>7. CASE Others \/ UNCHANGED credVars
  BY <1>7 DEF Others, credVars, caps
<1> QED
  BY <1>2, <1>3, <1>4, <1>5, <1>6, <1>7, UidCall DEF CredentialsNext

(* The calls implement Authority: what a process holds in its four ids and *)
(* its capabilities only shrinks, except by a capability or an exec.       *)
THEOREM KeepsAuthority == CredentialsSpec => Authorized
<1>1. CredentialsInit => A!Init
  <2> SUFFICES ASSUME CredentialsInit PROVE A!Init
    OBVIOUS
  <2>1. CredentialsTypeOK
    BY IdsInit
  <2>2. Held(uid) \subseteq Ids /\ Held(gid) \subseteq Gids
    BY <2>1, RecordFields DEF CredentialsTypeOK
  <2> QED
    BY <2>1, <2>2 DEF A!Init, CredentialsTypeOK
<1>2. /\ CredentialsTypeOK /\ CredentialsTypeOK' /\ PrivilegeNeedsRoot /\ PrivilegeNeedsRoot'
      /\ [CredentialsNext]_credVars
      => [A!Next]_<<Held(uid), Held(gid), permitted, image>>
  BY AuthorityStep
<1> QED
  BY <1>1, <1>2, IdsInit, IdsNext, PrivilegeInit, PrivilegeNext, PTL
  DEF CredentialsSpec, Authorized, A!Spec
==============================================================================
