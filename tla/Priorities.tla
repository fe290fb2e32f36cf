------------------------------- MODULE Priorities -------------------------------
(***************************************************************************)
(* setpriority and getpriority of project4/sys.c.  The tasks of a call are *)
(* looked at one by one under the tasklist lock for reading: none comes or *)
(* goes meanwhile, but other callers hold the lock too, and their steps    *)
(* come between those of the loop, even between the look at a nice value   *)
(* and its change.                                                         *)
(***************************************************************************)
EXTENDS Integers, FiniteSetsExt

CONSTANTS
    Niced,
    PrioCallers,           \* the tasks that call setpriority
    Uid, Euid, Group,  \* of each task
    NiceLimit,         \* RLIMIT_NICE of each task
    Privileged,        \* the callers with CAP_SYS_NICE
    MinNice, MaxNice,  \* MIN_NICE and MAX_NICE, in small
    Asked,             \* the values that are asked for
    NoTask

ASSUME PrioritiesAssumption ==
    /\ PrioCallers \subseteq Niced /\ Privileged \subseteq PrioCallers
    /\ MinNice \in Int /\ MaxNice \in Int /\ MinNice =< 0 /\ 0 =< MaxNice
    /\ Asked \subseteq Int
    /\ NiceLimit \in [Niced -> Nat]
    /\ NoTask \notin Niced

VARIABLES
    nice,     \* task_nice of each task
    calling,     \* the callers inside setpriority
    target,   \* the tasks that the last call of each caller is for
    value,    \* the nice value it asks for
    todo,     \* the tasks that the loop has still to come to
    at,       \* the task that was found allowed and is changed next, or None
    error,    \* the result, so far; "none" for 0
    reached,  \* history: the tasks that the call has changed
    undone    \* history: the callers of which another call changed a task since

call == <<calling, target, value, todo, at, error>>
prioVars == <<nice, call, reached, undone>>

Nices == MinNice .. MaxNice
Errors == {"none", "ESRCH", "EPERM", "EACCES", "refused"}

(* The tasks of a process, a group and a user, and of numbers that nobody  *)
(* has.                                                                    *)
PrioTargets ==
    {{p} : p \in Niced} \cup {{}}
    \cup {{p \in Niced : Group[p] = Group[q]} : q \in Niced}
    \cup {{p \in Niced : Uid[p] = Uid[q]} : q \in Niced}

PrioritiesInit ==
    /\ nice = [p \in Niced |-> 0]
    /\ calling = {}
    /\ target = [c \in PrioCallers |-> {}]
    /\ value = [c \in PrioCallers |-> 0]
    /\ todo = [c \in PrioCallers |-> {}]
    /\ at = [c \in PrioCallers |-> NoTask]
    /\ error = [c \in PrioCallers |-> "ESRCH"]
    /\ reached = [c \in PrioCallers |-> {}]
    /\ undone = {}

Normalized(n) == IF n < MinNice THEN MinNice ELSE IF n > MaxNice THEN MaxNice ELSE n

(* The range 40 .. 1 of getpriority and RLIMIT_NICE, for -20 .. 19. *)
NiceToRlimit(n) == MaxNice - n + 1

ESRCH == -3

------------------------------------------------------------------------------
(* The arguments are read and the lock is taken. *)
SetPriority(c, S, n) ==
    /\ c \notin calling
    /\ calling' = calling \cup {c}
    /\ target' = [target EXCEPT ![c] = S]
    /\ value' = [value EXCEPT ![c] = Normalized(n)]
    /\ todo' = [todo EXCEPT ![c] = S]
    /\ error' = [error EXCEPT ![c] = "ESRCH"]
    /\ reached' = [reached EXCEPT ![c] = {}]
    /\ undone' = undone \ {c}
    /\ UNCHANGED <<nice, at>>

(* set_one_prio_perm *)
SetOnePrioPerm(c, p) == Euid[c] \in {Uid[p], Euid[p]} \/ c \in Privileged

(* can_nice *)
CanNice(c, p, n) == NiceToRlimit(n) =< NiceLimit[p] \/ c \in Privileged

(* The nice value is not lowered, or may be. *)
MayLower(c, p) == value[c] >= nice[p] \/ CanNice(c, p, value[c])

(* set_one_prio, as far as the security module: it may refuse too. *)
Allow(c, p) ==
    /\ at[c] = NoTask /\ p \in todo[c]
    /\ SetOnePrioPerm(c, p) /\ MayLower(c, p)
    /\ todo' = [todo EXCEPT ![c] = @ \ {p}]
    /\ at' = [at EXCEPT ![c] = p]
    /\ UNCHANGED <<nice, calling, target, value, error, reached, undone>>

Refuse(c, p) ==
    /\ at[c] = NoTask /\ p \in todo[c]
    /\ todo' = [todo EXCEPT ![c] = @ \ {p}]
    /\ error' = [error EXCEPT ![c] =
          IF ~SetOnePrioPerm(c, p) THEN "EPERM"
          ELSE IF ~MayLower(c, p) THEN "EACCES"
          ELSE "refused"]
    /\ UNCHANGED <<nice, calling, target, value, at, reached, undone>>

(* Mutant: a success clears the error of another task. *)
SetUserNiceForgets(c) ==
    LET p == at[c] IN
    /\ p # NoTask
    /\ error' = [error EXCEPT ![c] = "none"]
    /\ nice' = [nice EXCEPT ![p] = value[c]]
    /\ at' = [at EXCEPT ![c] = NoTask]
    /\ reached' = [reached EXCEPT ![c] = @ \cup {p}]
    /\ undone' = undone \cup {d \in PrioCallers \ {c} : p \in reached[d]}
    /\ UNCHANGED <<calling, target, value, todo>>

(* The rest of set_one_prio. *)
SetUserNice(c) ==
    LET p == at[c] IN
    /\ p # NoTask
    /\ error' = [error EXCEPT ![c] = IF @ = "ESRCH" THEN "none" ELSE @]
    /\ nice' = [nice EXCEPT ![p] = value[c]]
    /\ at' = [at EXCEPT ![c] = NoTask]
    /\ reached' = [reached EXCEPT ![c] = @ \cup {p}]
    /\ undone' = undone \cup {d \in PrioCallers \ {c} : p \in reached[d]}
    /\ UNCHANGED <<calling, target, value, todo>>

PrioReturn(c) ==
    /\ c \in calling /\ todo[c] = {} /\ at[c] = NoTask
    /\ calling' = calling \ {c}
    /\ UNCHANGED <<nice, target, value, todo, at, error, reached, undone>>

(* getpriority: the most favourable value of the tasks; -ESRCH, which is   *)
(* below all of them, for none.                                            *)
GetPriority(S) == Max({NiceToRlimit(nice[p]) : p \in S} \cup {ESRCH})

PrioritiesNext ==
    \E c \in PrioCallers :
        \/ \E S \in PrioTargets, n \in Asked : SetPriority(c, S, n)
        \/ \E p \in Niced : Allow(c, p) \/ Refuse(c, p)
        \/ SetUserNice(c)
        \/ PrioReturn(c)

PrioritiesSpec == PrioritiesInit /\ [][PrioritiesNext]_prioVars
------------------------------------------------------------------------------
(* Every variable stays in its range; nice values are corrected to theirs. *)
PrioritiesTypeOK ==
    /\ nice \in [Niced -> Nices]
    /\ calling \subseteq PrioCallers
    /\ target \in [PrioCallers -> SUBSET Niced]
    /\ value \in [PrioCallers -> Nices]
    /\ todo \in [PrioCallers -> SUBSET Niced]
    /\ at \in [PrioCallers -> Niced \cup {NoTask}]
    /\ error \in [PrioCallers -> Errors]
    /\ reached \in [PrioCallers -> SUBSET Niced]
    /\ undone \subseteq PrioCallers

(* One result stands for all tasks of a call: 0 means that every one of    *)
(* them was changed, -ESRCH that there was none, whatever the order the    *)
(* loop came by those that were refused (lines 259-279).                   *)
ResultSpeaksForAll ==
    \A c \in PrioCallers \ calling :
        /\ error[c] = "none" => target[c] # {} /\ reached[c] = target[c]
        /\ error[c] = "ESRCH" <=> target[c] = {}

(* After a call that succeeded getpriority of the same tasks gives its     *)
(* value back, unless another call has changed one of them.                *)
SetThenGet ==
    \A c \in PrioCallers \ (calling \cup undone) :
        error[c] = "none" => GetPriority(target[c]) = NiceToRlimit(value[c])

(* What setpriority tells its caller is true, and stays so until another   *)
(* call comes, although the tasks are looked at one by one (lines 255-280, *)
(* 318-322).                                                               *)
ResultIsTrue == PrioritiesTypeOK /\ ResultSpeaksForAll /\ SetThenGet
==============================================================================
