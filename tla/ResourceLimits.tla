----------------------------- MODULE ResourceLimits -----------------------------
(***************************************************************************)
(* The resource limits of project4/sys.c: setrlimit, getrlimit, prlimit64  *)
(* and the calls for 32-bit and for old programs, all of which end in      *)
(* do_prlimit.  A call judges its caller first, changes the limit under    *)
(* task_lock, and arms the CPU timer after it has let go of that lock, so  *)
(* that the steps of several callers mix.                                  *)
(***************************************************************************)
EXTENDS Naturals

CONSTANTS
    LimitCallers,    \* processes that make the calls
    LimitTargets,    \* processes whose limits are changed
    Resources,  \* among them "cpu" and "nofile"
    Users,      \* what a process's six ids are, if all are the same
    Admin,       \* the user with CAP_SYS_RESOURCE
    Values,     \* the values that are asked for
    OldMax,     \* 0x7FFFFFFF
    CompatInf,  \* COMPAT_RLIM_INFINITY, all ones in 32 bits
    Inf,        \* RLIM_INFINITY, all ones in a long
    Inf64,      \* RLIM64_INFINITY, all ones in 64 bits
    NrOpen,     \* sysctl_nr_open
    NoCall

Limits == [cur : 0 .. Inf, max : 0 .. Inf]
Calls == [t : LimitTargets, r : Resources, new : Limits, arm : BOOLEAN]

(* A long has 32 bits, and CompatInf = Inf, or 64, and Inf = Inf64.  All   *)
(* that is proved holds of both, and the run has three different values so *)
(* that no conversion is the identity.                                     *)
ASSUME ResourceLimitsAssumption ==
    /\ OldMax \in Nat /\ CompatInf \in Nat /\ Inf \in Nat /\ Inf64 \in Nat /\ NrOpen \in Nat
    /\ OldMax < CompatInf /\ CompatInf =< Inf /\ Inf =< Inf64 /\ NrOpen =< Inf
    /\ Values \subseteq 0 .. Inf64
    /\ Admin \in Users
    /\ "cpu" \in Resources
    /\ NoCall \notin Calls

VARIABLES
    rlim,    \* signal->rlim of each target: rlim_cur and rlim_max
    timer,   \* when the CPU timer of each target expires; Inf for never
    owner,   \* the ids of each process
    alive,   \* the targets that have a sighand
    setting    \* the call that each caller is in, after its checks, or None

limitVars == <<rlim, timer, owner, alive, setting>>

Least(a, b) == IF a < b THEN a ELSE b
Convert(F(_), lim) == [cur |-> F(lim.cur), max |-> F(lim.max)]

(* The first limits, with each process owned by owners[p]. *)
Boot(owners) ==
    /\ rlim = [t \in LimitTargets |-> [r \in Resources |->
                  LET max == IF r = "nofile" THEN NrOpen ELSE Inf IN [cur |-> max, max |-> max]]]
    /\ timer = [t \in LimitTargets |-> Inf]
    /\ owner = owners
    /\ alive = LimitTargets
    /\ setting = [c \in LimitCallers |-> NoCall]

LimitsInit == \E owners \in [LimitCallers \cup LimitTargets -> Users] : Boot(owners)

------------------------------------------------------------------------------
(* The values that programs of other word sizes see and give. *)

(* compat setrlimit *)
FromCompat(x) == IF x = CompatInf THEN Inf ELSE x

(* compat getrlimit *)
ToCompat(x) == IF x > CompatInf THEN CompatInf ELSE x

(* old_getrlimit, for both word sizes *)
ToOld(x) == IF x > OldMax THEN OldMax ELSE x

(* rlim64_is_infinity and rlim64_to_rlim; with 64 bits, what is at least   *)
(* Inf is Inf64.                                                           *)
From64(x) == IF x >= Inf THEN Inf ELSE x

(* rlim_to_rlim64 *)
To64(x) == IF x = Inf THEN Inf64 ELSE x

MayRaise(c) == owner[c] = Admin

GetRlimit(t, r) == rlim[t][r]
CompatGetRlimit(t, r) == Convert(ToCompat, rlim[t][r])
OldGetRlimit(t, r) == Convert(ToOld, rlim[t][r])
PrlimitGet(t, r) == Convert(To64, rlim[t][r])

------------------------------------------------------------------------------
(* do_prlimit, before it takes a lock. *)
ValidLimits(r, new) ==
    /\ new.cur =< new.max
    /\ r = "nofile" => new.max =< NrOpen

Enter(c, t, r, new) ==
    /\ setting[c] = NoCall
    /\ ValidLimits(r, new)
    /\ setting' = [setting EXCEPT ![c] =
          [t |-> t, r |-> r, new |-> new, arm |-> FALSE]]
    /\ UNCHANGED <<rlim, timer, owner, alive>>

(* An unsigned long is no more than RLIM_INFINITY. *)
SetRlimit(c, r, lim) ==
    /\ lim.cur =< Inf /\ lim.max =< Inf
    /\ c \in alive
    /\ Enter(c, c, r, lim)

CompatSetRlimit(c, r, lim) ==
    /\ lim.cur =< CompatInf /\ lim.max =< CompatInf
    /\ SetRlimit(c, r, Convert(FromCompat, lim))

(* The ids of the caller and all those of the target are the same. *)
SameIds(c, t) == c = t \/ owner[c] = owner[t]

CheckPrlimitPermission(c, t) == SameIds(c, t) \/ MayRaise(c)

Prlimit64(c, t, r, lim) ==
    /\ t \in alive
    /\ CheckPrlimitPermission(c, t)
    /\ Enter(c, t, r, Convert(From64, lim))

(* Mutant: the timer is not armed. *)
WriteNoTimer(c) ==
    LET d == setting[c] IN
    /\ d # NoCall /\ ~d.arm
    /\ d.t \in alive
    /\ d.new.max =< rlim[d.t][d.r].max \/ MayRaise(c)
    /\ rlim' = [rlim EXCEPT ![d.t][d.r] = d.new]
    /\ setting' = [setting EXCEPT ![c] = NoCall]
    /\ UNCHANGED <<timer, owner, alive>>

(* The change, under task_lock. *)
Write(c) ==
    LET d == setting[c] IN
    /\ d # NoCall /\ ~d.arm
    /\ d.t \in alive
    /\ d.new.max =< rlim[d.t][d.r].max \/ MayRaise(c)
    /\ rlim' = [rlim EXCEPT ![d.t][d.r] = d.new]
    /\ setting' = [setting EXCEPT ![c] =
          IF d.r = "cpu" /\ d.new.cur # Inf THEN [d EXCEPT !.arm = TRUE] ELSE NoCall]
    /\ UNCHANGED <<timer, owner, alive>>

(* The target is gone, the hard limit may not be raised, or the security   *)
(* module refuses.                                                         *)
Fail(c) ==
    /\ setting[c] # NoCall /\ ~setting[c].arm
    /\ setting' = [setting EXCEPT ![c] = NoCall]
    /\ UNCHANGED <<rlim, timer, owner, alive>>

(* update_rlimit_cpu, which only ever makes the timer expire earlier; the  *)
(* tasklist lock is still held.                                            *)
Arm(c) ==
    LET d == setting[c] IN
    /\ d # NoCall /\ d.arm
    /\ timer' = [timer EXCEPT ![d.t] = Least(@, d.new.cur)]
    /\ setting' = [setting EXCEPT ![c] = NoCall]
    /\ UNCHANGED <<rlim, owner, alive>>

------------------------------------------------------------------------------
(* The rest of the kernel. *)

InCall(p) == p \in LimitCallers /\ setting[p] # NoCall

(* A program that belongs to another user. *)
OwnerExec(t, u) ==
    /\ t \in alive /\ ~InCall(t)
    /\ owner' = [owner EXCEPT ![t] = u]
    /\ UNCHANGED <<rlim, timer, alive, setting>>

(* Exit waits for the tasklist lock. *)
TargetExit(t) ==
    /\ t \in alive /\ ~InCall(t)
    /\ \A c \in LimitCallers : setting[c] # NoCall /\ setting[c].t = t => ~setting[c].arm
    /\ alive' = alive \ {t}
    /\ UNCHANGED <<rlim, timer, owner, setting>>

LimitsNext ==
    \/ \E c \in LimitCallers, r \in Resources, lim \in [cur : Values, max : Values] :
          \/ c \in LimitTargets /\ (SetRlimit(c, r, lim) \/ CompatSetRlimit(c, r, lim))
          \/ \E t \in LimitTargets : Prlimit64(c, t, r, lim)
    \/ \E c \in LimitCallers : Write(c) \/ Fail(c) \/ Arm(c)
    \/ \E t \in LimitTargets : TargetExit(t) \/ \E u \in Users : OwnerExec(t, u)

LimitsSpec == LimitsInit /\ [][LimitsNext]_limitVars
------------------------------------------------------------------------------
(* Every variable stays in its range. *)
LimitsTypeOK ==
    /\ rlim \in [LimitTargets -> [Resources -> Limits]]
    /\ timer \in [LimitTargets -> 0 .. Inf]
    /\ owner \in [LimitCallers \cup LimitTargets -> Users]
    /\ alive \subseteq LimitTargets
    /\ setting \in [LimitCallers -> Calls \cup {NoCall}]

(* The soft limit stays within the hard one, and that of open files within *)
(* sysctl_nr_open, however the calls of several programs of several word   *)
(* sizes mix (lines 1683-1687).                                            *)
LimitsInOrder ==
    \A t \in LimitTargets, r \in Resources :
        /\ GetRlimit(t, r).cur =< GetRlimit(t, r).max
        /\ r = "nofile" => GetRlimit(t, r).max =< NrOpen

(* The CPU timer expires no later than the soft limit says, although it is *)
(* armed after the limit is changed and the last to change the limit need  *)
(* not be the last to arm (lines 1715-1725).                               *)
CpuLimitEnforced ==
    \A t \in alive :
        (\A c \in LimitCallers : ~(setting[c] # NoCall /\ setting[c].arm /\ setting[c].t = t))
        => timer[t] =< GetRlimit(t, "cpu").cur

(* What a 32-bit program reads and writes back lowers no limit, what       *)
(* prlimit64 reads and writes back changes none, and infinity is all that  *)
(* it shows as infinity; an old program is shown no more than there is     *)
(* (lines 1549-1577, 1604-1629, 1639-1670).                                *)
ConversionsHold ==
    \A t \in LimitTargets, r \in Resources :
        LET real == GetRlimit(t, r)
            back == Convert(FromCompat, CompatGetRlimit(t, r)) IN
        /\ back.cur >= real.cur /\ back.max >= real.max
        /\ OldGetRlimit(t, r).cur =< real.cur
        /\ OldGetRlimit(t, r).cur =< OldGetRlimit(t, r).max
        /\ Convert(From64, PrlimitGet(t, r)) = real
        /\ PrlimitGet(t, r).cur = Inf64 <=> real.cur = Inf

(* What do_prlimit promises, however many callers are in it and whatever   *)
(* the size of their words.                                                *)
LimitsHold == LimitsTypeOK /\ LimitsInOrder /\ CpuLimitEnforced /\ ConversionsHold
==============================================================================
