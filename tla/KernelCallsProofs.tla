--------------------------- MODULE KernelCallsProofs ---------------------------
(***************************************************************************)
(* What is proved of priorities, resource limits and the memory map, for   *)
(* any number of callers and any values: each call checks first and acts   *)
(* later, and the invariants say what keeps the check true in between.     *)
(***************************************************************************)
EXTENDS KernelCalls, TLAPS

------------------------------------------------------------------------------
(* Resource limits. *)

(* What a call has checked stays true: it is about the new limit alone.    *)
Checked ==
    \A c \in LimitCallers : setting[c] # NoCall => ValidLimits(setting[c].r, setting[c].new)

Arming(c, t) == setting[c] # NoCall /\ setting[c].arm /\ setting[c].t = t

(* The timer is early enough, or a call that is going to arm it will make  *)
(* it so.                                                                  *)
TimerDue(t) ==
    \/ timer[t] =< rlim[t]["cpu"].cur
    \/ \E c \in LimitCallers : Arming(c, t) /\ setting[c].new.cur =< rlim[t]["cpu"].cur

LimitInv ==
    /\ LimitsTypeOK
    /\ LimitsInOrder
    /\ Checked
    /\ \A t \in LimitTargets : TimerDue(t)

LEMMA LimitTypes ==
    ASSUME LimitsTypeOK, NEW t \in LimitTargets, NEW r \in Resources
    PROVE  /\ rlim[t] \in [Resources -> Limits]
           /\ rlim[t][r] \in Limits
           /\ rlim[t][r].cur \in 0 .. Inf /\ rlim[t][r].max \in 0 .. Inf
           /\ timer[t] \in 0 .. Inf
BY DEF LimitsTypeOK, Limits

LEMMA CallTypes ==
    ASSUME LimitsTypeOK, NEW c \in LimitCallers, setting[c] # NoCall
    PROVE  /\ setting[c] \in Calls
           /\ setting[c].t \in LimitTargets /\ setting[c].r \in Resources
           /\ setting[c].new \in Limits /\ setting[c].arm \in BOOLEAN
           /\ setting[c].new.cur \in 0 .. Inf /\ setting[c].new.max \in 0 .. Inf
BY DEF LimitsTypeOK, Calls, Limits

LEMMA LimitInvInit == LimitsInit => LimitInv
<1> SUFFICES ASSUME LimitsInit PROVE LimitInv
  OBVIOUS
<1> USE ResourceLimitsAssumption
<1>1. PICK owners \in [LimitCallers \cup LimitTargets -> Users] : Boot(owners)
  BY DEF LimitsInit
<1>2. [cur |-> Inf, max |-> Inf] \in Limits /\ [cur |-> NrOpen, max |-> NrOpen] \in Limits
  BY DEF Limits
<1>3. ASSUME NEW t \in LimitTargets, NEW r \in Resources
      PROVE  rlim[t][r] = IF r = "nofile" THEN [cur |-> NrOpen, max |-> NrOpen]
                          ELSE [cur |-> Inf, max |-> Inf]
  BY <1>1, <1>3 DEF Boot
<1>4. rlim \in [LimitTargets -> [Resources -> Limits]]
  BY <1>1, <1>2 DEF Boot
<1>5. LimitsTypeOK
  BY <1>1, <1>4 DEF LimitsTypeOK, Boot
<1>6. LimitsInOrder
  BY <1>3 DEF LimitsInOrder, GetRlimit
<1>7. Checked
  BY <1>1 DEF Checked, Boot
<1>8. ASSUME NEW t \in LimitTargets PROVE TimerDue(t)
  <2>1. timer[t] = Inf /\ rlim[t]["cpu"].cur = Inf
    BY <1>1, <1>3 DEF Boot
  <2> QED
    BY <2>1 DEF TimerDue
<1> QED
  BY <1>5, <1>6, <1>7, <1>8 DEF LimitInv

LEMMA EnterKeeps ==
    ASSUME LimitInv, NEW c \in LimitCallers, NEW t \in LimitTargets, NEW r \in Resources,
           NEW new \in Limits, Enter(c, t, r, new)
    PROVE  LimitInv'
<1> DEFINE d == [t |-> t, r |-> r, new |-> new, arm |-> FALSE]
<1>1. /\ setting[c] = NoCall /\ setting' = [setting EXCEPT ![c] = d]
      /\ ValidLimits(r, new) /\ UNCHANGED <<rlim, timer, owner, alive>>
  BY DEF Enter
<1>2. d \in Calls
  BY DEF Calls
<1>3. LimitsTypeOK'
  BY <1>1, <1>2 DEF LimitInv, LimitsTypeOK
<1>4. LimitsInOrder'
  BY <1>1 DEF LimitInv, LimitsInOrder, GetRlimit
<1>5. Checked'
  BY <1>1 DEF LimitInv, LimitsTypeOK, Checked, ValidLimits
<1>6. ASSUME NEW u \in LimitTargets PROVE TimerDue(u)'
  <2>1. \A e \in LimitCallers : Arming(e, u) => e # c /\ setting'[e] = setting[e]
    BY <1>1 DEF Arming, LimitInv, LimitsTypeOK
  <2> QED
    BY <1>1, <2>1 DEF LimitInv, TimerDue, Arming
<1> QED
  BY <1>3, <1>4, <1>5, <1>6 DEF LimitInv

LEMMA LimitCallKeeps ==
    ASSUME LimitInv, NEW c \in LimitCallers, NEW r \in Resources,
           NEW lim \in [cur : Values, max : Values],
           \/ c \in LimitTargets /\ (SetRlimit(c, r, lim) \/ CompatSetRlimit(c, r, lim))
           \/ \E t \in LimitTargets : Prlimit64(c, t, r, lim)
    PROVE  LimitInv'
<1> USE ResourceLimitsAssumption
<1>1. lim.cur \in Nat /\ lim.max \in Nat
  <2>1. Values \subseteq Nat
    OBVIOUS
  <2> QED
    BY <2>1
<1>2. ASSUME c \in LimitTargets, NEW new, new = [cur |-> new.cur, max |-> new.max],
             new.cur \in Nat, new.max \in Nat, SetRlimit(c, r, new)
      PROVE  LimitInv'
  <2>1. new \in Limits /\ Enter(c, c, r, new)
    BY <1>2 DEF SetRlimit, Limits
  <2> QED
    BY <1>2, <2>1, EnterKeeps
<1>3. CASE c \in LimitTargets /\ SetRlimit(c, r, lim)
  <2>1. lim = [cur |-> lim.cur, max |-> lim.max]
    OBVIOUS
  <2> QED
    BY <1>1, <1>2, <1>3, <2>1
<1>4. CASE c \in LimitTargets /\ CompatSetRlimit(c, r, lim)
  <2> DEFINE new == [cur |-> FromCompat(lim.cur), max |-> FromCompat(lim.max)]
  <2>1. new.cur \in Nat /\ new.max \in Nat
    BY <1>1 DEF FromCompat
  <2>2. SetRlimit(c, r, new)
    BY <1>4 DEF CompatSetRlimit, Convert
  <2> QED
    BY <1>2, <1>4, <2>1, <2>2
<1>5. ASSUME NEW t \in LimitTargets, Prlimit64(c, t, r, lim)
      PROVE  LimitInv'
  <2> DEFINE new == [cur |-> From64(lim.cur), max |-> From64(lim.max)]
  <2>1. From64(lim.cur) \in 0 .. Inf /\ From64(lim.max) \in 0 .. Inf
    BY <1>1 DEF From64
  <2>2. new \in Limits
    BY <2>1 DEF Limits
  <2>3. Enter(c, t, r, new)
    BY <1>5 DEF Prlimit64, Convert
  <2> QED
    BY <2>2, <2>3, EnterKeeps
<1> QED
  BY <1>3, <1>4, <1>5

(* The limit that is written has been checked; the timer follows now, or   *)
(* later.                                                                  *)
LEMMA WriteKeeps ==
    ASSUME LimitInv, NEW c \in LimitCallers, Write(c)
    PROVE  LimitInv'
<1> USE ResourceLimitsAssumption
<1> DEFINE d == setting[c]
           left == IF d.r = "cpu" /\ d.new.cur # Inf THEN [d EXCEPT !.arm = TRUE] ELSE NoCall
<1>1. /\ d # NoCall /\ ~d.arm
      /\ rlim' = [rlim EXCEPT ![d.t][d.r] = d.new]
      /\ setting' = [setting EXCEPT ![c] = left]
      /\ UNCHANGED <<timer, owner, alive>>
  BY DEF Write
<1>2. /\ d \in Calls /\ d.t \in LimitTargets /\ d.r \in Resources /\ d.new \in Limits
      /\ d.new.cur \in 0 .. Inf /\ d.new.max \in 0 .. Inf
      /\ ValidLimits(d.r, d.new)
  BY <1>1, CallTypes DEF LimitInv, Checked
<1> HIDE DEF d
<1>3. [d EXCEPT !.arm = TRUE] \in Calls /\ [d EXCEPT !.arm = TRUE].new = d.new
      /\ [d EXCEPT !.arm = TRUE].r = d.r /\ [d EXCEPT !.arm = TRUE].t = d.t
      /\ [d EXCEPT !.arm = TRUE].arm
  BY <1>2 DEF Calls
<1>4. left \in Calls \cup {NoCall}
  BY <1>3
<1>5. /\ rlim \in [LimitTargets -> [Resources -> Limits]]
      /\ setting \in [LimitCallers -> Calls \cup {NoCall}]
  BY DEF LimitInv, LimitsTypeOK
<1>6. ASSUME NEW t \in LimitTargets, NEW r \in Resources
      PROVE  rlim'[t][r] = IF t = d.t /\ r = d.r THEN d.new ELSE rlim[t][r]
  BY <1>1, <1>2, <1>5
<1>7. ASSUME NEW e \in LimitCallers
      PROVE  setting'[e] = IF e = c THEN left ELSE setting[e]
  BY <1>1, <1>5
<1>8. LimitsTypeOK'
  <2>1. rlim' \in [LimitTargets -> [Resources -> Limits]]
    BY <1>1, <1>2, <1>5
  <2>2. setting' \in [LimitCallers -> Calls \cup {NoCall}]
    BY <1>1, <1>4, <1>5
  <2> QED
    BY <1>1, <2>1, <2>2 DEF LimitInv, LimitsTypeOK
<1>9. LimitsInOrder'
  BY <1>2, <1>6 DEF LimitInv, LimitsInOrder, GetRlimit, ValidLimits
<1>10. Checked'
  BY <1>2, <1>3, <1>7 DEF LimitInv, Checked
<1>11. ASSUME NEW t \in LimitTargets PROVE TimerDue(t)'
  <2>1. CASE t = d.t /\ d.r = "cpu"
    <3>1. rlim'[t]["cpu"].cur = d.new.cur
      BY <1>6, <2>1
    <3>2. CASE d.new.cur = Inf
      <4>1. timer'[t] \in 0 .. Inf
        BY <1>1, LimitTypes DEF LimitInv
      <4> QED
        BY <3>1, <3>2, <4>1 DEF TimerDue
    <3>3. CASE d.new.cur # Inf
      <4>1. setting'[c] = [d EXCEPT !.arm = TRUE]
        BY <1>7, <2>1, <3>3
      <4>2. setting'[c] # NoCall
        BY <1>2, <1>3, <4>1
      <4>3. (setting[c].t = t)' /\ (setting[c].arm)' /\ (setting[c].new)' = d.new
        BY <1>3, <2>1, <4>1
      <4>4. Arming(c, t)'
        BY <4>2, <4>3 DEF Arming
      <4>5. (setting[c].new.cur =< rlim[t]["cpu"].cur)'
        BY <1>2, <3>1, <4>3
      <4> QED
        BY <4>4, <4>5 DEF TimerDue
    <3> QED
      BY <3>2, <3>3
  <2>2. CASE ~(t = d.t /\ d.r = "cpu")
    <3>1. rlim'[t]["cpu"] = rlim[t]["cpu"] /\ timer'[t] = timer[t]
      BY <1>1, <1>6, <2>2
    <3>2. \A e \in LimitCallers : Arming(e, t) => setting'[e] = setting[e]
      <4>1. ~Arming(c, t)
        BY <1>1 DEF Arming, d
      <4> QED
        BY <1>7, <4>1
    <3> QED
      BY <3>1, <3>2 DEF LimitInv, TimerDue, Arming
  <2> QED
    BY <2>1, <2>2
<1> QED
  BY <1>8, <1>9, <1>10, <1>11 DEF LimitInv

LEMMA FailKeeps ==
    ASSUME LimitInv, NEW c \in LimitCallers, Fail(c)
    PROVE  LimitInv'
<1>1. setting \in [LimitCallers -> Calls \cup {NoCall}]
  BY DEF LimitInv, LimitsTypeOK
<1>2. ASSUME NEW e \in LimitCallers
      PROVE  setting'[e] = IF e = c THEN NoCall ELSE setting[e]
  BY <1>1 DEF Fail
<1>3. LimitsTypeOK'
  BY <1>1 DEF LimitInv, LimitsTypeOK, Fail
<1>4. LimitsInOrder' /\ Checked'
  BY <1>2 DEF LimitInv, LimitsInOrder, GetRlimit, Checked, Fail
<1>5. ASSUME NEW t \in LimitTargets PROVE TimerDue(t)'
  <2>1. \A e \in LimitCallers : Arming(e, t) => setting'[e] = setting[e]
    BY <1>2 DEF Arming, Fail
  <2> QED
    BY <2>1 DEF LimitInv, TimerDue, Arming, Fail
<1> QED
  BY <1>3, <1>4, <1>5 DEF LimitInv

(* The timer is never moved to a later time, so it does not matter which   *)
(* of two calls is the last to arm it.                                     *)
LEMMA ArmKeeps ==
    ASSUME LimitInv, NEW c \in LimitCallers, Arm(c)
    PROVE  LimitInv'
<1> USE ResourceLimitsAssumption
<1>1. setting[c] # NoCall /\ setting[c].arm
  BY DEF Arm
<1>2. setting[c].t \in LimitTargets /\ setting[c].new.cur \in 0 .. Inf
  BY <1>1, CallTypes DEF LimitInv
<1>3. /\ timer \in [LimitTargets -> 0 .. Inf]
      /\ setting \in [LimitCallers -> Calls \cup {NoCall}]
  BY DEF LimitInv, LimitsTypeOK
<1>4. ASSUME NEW e \in LimitCallers
      PROVE  setting'[e] = IF e = c THEN NoCall ELSE setting[e]
  BY <1>3 DEF Arm
<1>5. ASSUME NEW t \in LimitTargets
      PROVE  timer'[t] = IF t = setting[c].t THEN Least(timer[t], setting[c].new.cur) ELSE timer[t]
  BY <1>3 DEF Arm
<1>6. ASSUME NEW t \in LimitTargets
      PROVE  /\ timer'[t] \in 0 .. Inf /\ timer'[t] =< timer[t]
             /\ t = setting[c].t => timer'[t] =< setting[c].new.cur
  BY <1>2, <1>3, <1>5 DEF Least
<1>7. LimitsTypeOK'
  <2>1. timer' \in [LimitTargets -> 0 .. Inf]
    BY <1>3, <1>6 DEF Arm
  <2>2. setting' \in [LimitCallers -> Calls \cup {NoCall}]
    BY <1>3 DEF Arm
  <2> QED
    BY <2>1, <2>2 DEF LimitInv, LimitsTypeOK, Arm
<1>8. LimitsInOrder' /\ Checked'
  BY <1>4 DEF LimitInv, LimitsInOrder, GetRlimit, Checked, Arm
<1>9. ASSUME NEW t \in LimitTargets PROVE TimerDue(t)'
  <2>1. rlim' = rlim /\ rlim[t]["cpu"].cur \in 0 .. Inf /\ timer[t] \in 0 .. Inf
    BY LimitTypes DEF LimitInv, Arm
  <2>2. CASE timer[t] =< rlim[t]["cpu"].cur
    BY <1>6, <2>1, <2>2 DEF TimerDue
  <2>3. ASSUME NEW e \in LimitCallers, Arming(e, t), setting[e].new.cur =< rlim[t]["cpu"].cur
        PROVE  TimerDue(t)'
    <3>1. CASE e = c
      BY <1>2, <1>6, <2>1, <2>3, <3>1 DEF TimerDue, Arming
    <3>2. CASE e # c
      BY <1>4, <2>1, <2>3, <3>2 DEF TimerDue, Arming
    <3> QED
      BY <3>1, <3>2
  <2> QED
    BY <2>2, <2>3 DEF LimitInv, TimerDue
<1> QED
  BY <1>7, <1>8, <1>9 DEF LimitInv

LEMMA LimitInvNext == LimitInv /\ [LimitsNext]_limitVars => LimitInv'
<1> SUFFICES ASSUME LimitInv, [LimitsNext]_limitVars PROVE LimitInv'
  OBVIOUS
<1>1. ASSUME NEW t \in LimitTargets, TargetExit(t) \/ \E u \in Users : OwnerExec(t, u)
      PROVE  LimitInv'
  <2>1. UNCHANGED <<rlim, timer, setting>>
    BY <1>1 DEF TargetExit, OwnerExec
  <2>2. LimitsTypeOK'
    BY <1>1, <2>1 DEF TargetExit, OwnerExec, LimitInv, LimitsTypeOK
  <2> QED
    BY <2>1, <2>2 DEF LimitInv, LimitsInOrder, GetRlimit, Checked, TimerDue, Arming
<1>2. CASE UNCHANGED limitVars
  BY <1>2 DEF limitVars, LimitInv, LimitsTypeOK, LimitsInOrder, GetRlimit, Checked, TimerDue, Arming
<1> QED
  BY <1>1, <1>2, LimitCallKeeps, WriteKeeps, FailKeeps, ArmKeeps DEF LimitsNext

(* What programs of other word sizes see follows from the order alone.     *)
LEMMA ConversionsFollow == LimitInv => ConversionsHold
<1> SUFFICES ASSUME LimitInv, NEW t \in LimitTargets, NEW r \in Resources
             PROVE  LET real == GetRlimit(t, r)
                        back == Convert(FromCompat, CompatGetRlimit(t, r)) IN
                    /\ back.cur >= real.cur /\ back.max >= real.max
                    /\ OldGetRlimit(t, r).cur =< real.cur
                    /\ OldGetRlimit(t, r).cur =< OldGetRlimit(t, r).max
                    /\ Convert(From64, PrlimitGet(t, r)) = real
                    /\ PrlimitGet(t, r).cur = Inf64 <=> real.cur = Inf
  BY DEF ConversionsHold
<1> USE ResourceLimitsAssumption
<1> DEFINE real == rlim[t][r]
<1>1. real.cur \in 0 .. Inf /\ real.max \in 0 .. Inf /\ real.cur =< real.max
  BY LimitTypes DEF LimitInv, LimitsInOrder, GetRlimit
<1>2. real = [cur |-> real.cur, max |-> real.max]
  BY LimitTypes DEF LimitInv, Limits
<1> HIDE DEF real
<1>3. \A x \in 0 .. Inf : /\ FromCompat(ToCompat(x)) >= x
                        /\ From64(To64(x)) = x /\ (To64(x) = Inf64 <=> x = Inf)
                        /\ ToOld(x) =< x
  BY DEF FromCompat, ToCompat, From64, To64, ToOld
<1>4. ToOld(real.cur) =< ToOld(real.max)
  BY <1>1 DEF ToOld
<1>5. /\ Convert(From64, Convert(To64, real)) = real
      /\ Convert(To64, real).cur = Inf64 <=> real.cur = Inf
  BY <1>1, <1>2, <1>3 DEF Convert
<1>6. /\ Convert(FromCompat, Convert(ToCompat, real)).cur >= real.cur
      /\ Convert(FromCompat, Convert(ToCompat, real)).max >= real.max
  BY <1>1, <1>3 DEF Convert
<1>7. Convert(ToOld, real).cur =< real.cur /\ Convert(ToOld, real).cur =< Convert(ToOld, real).max
  BY <1>1, <1>3, <1>4 DEF Convert
<1> QED
  BY <1>5, <1>6, <1>7 DEF real, GetRlimit, CompatGetRlimit, OldGetRlimit, PrlimitGet

(* However many callers are in do_prlimit: limits stay in order, the CPU   *)
(* timer is not later than the limit once all that arm it have done so,    *)
(* and no conversion loses a limit, with a long of 32 bits or of 64 (lines *)
(* 1549-1670, 1683-1725).                                                  *)
THEOREM LimitsKept == LimitsSpec => []LimitsHold
<1>1. LimitInv => CpuLimitEnforced
  BY DEF LimitInv, TimerDue, Arming, CpuLimitEnforced, GetRlimit, LimitsTypeOK
<1>2. LimitInv => LimitsHold
  BY <1>1, ConversionsFollow DEF LimitInv, LimitsHold
<1> QED
  BY <1>2, LimitInvInit, LimitInvNext, PTL DEF LimitsSpec

------------------------------------------------------------------------------
(* The memory map. *)

(* What a thread has checked, or copied under the lock, still holds when   *)
(* it comes to store it.                                                   *)
CopyIsFresh(t) ==
    doing[t] # Nothing /\ doing[t].op = "field" =>
        /\ doing[t] \in FieldCalls
        /\ locked = t
        /\ \A f \in Fields \ {doing[t].f} : doing[t].new[f] = map[f]

MapIsChecked(t) ==
    doing[t] # Nothing /\ doing[t].op # "field" =>
        /\ doing[t] \in MapCalls
        /\ doing[t].op \in {"map", "auxv"} \/ doing[t].new # Nothing =>
              doing[t].new \in Maps /\ Valid(doing[t].new)
        /\ doing[t].op = "auxv" => doing[t].v \in Vectors
        /\ doing[t].op = "exchange" => doing[t].x \in Executable

MapInv ==
    /\ MapTypeOK /\ Valid(map) /\ AuxvTerminated
    /\ \A t \in Threads : CopyIsFresh(t) /\ MapIsChecked(t)

LEMMA FieldsThere == <<"brk", "end">> \in Fields /\ <<"stack", "start">> \in Fields
BY MemoryMapAssumption DEF Fields

LEMMA MapInvInit == MapInit => MapInv
<1> SUFFICES ASSUME MapInit PROVE MapInv
  OBVIOUS
<1> USE MemoryMapAssumption
<1>1. PICK m \in Maps, n \in DataLimits : Loadable(m, n) /\ Loaded(m, n)
  BY DEF MapInit
<1>2. MapTypeOK
  BY <1>1 DEF Loaded, MapTypeOK
<1>3. Valid(map)
  BY <1>1 DEF Loaded, Loadable, Valid, DataSize
<1>4. AuxvTerminated
  BY <1>1 DEF Loaded, AuxvTerminated
<1> QED
  BY <1>1, <1>2, <1>3, <1>4 DEF Loaded, MapInv, CopyIsFresh, MapIsChecked

(* A step of t disturbs no other thread, unless it changes the map or the  *)
(* lock while that one has a copy.                                         *)
LEMMA OthersGoOn ==
    ASSUME MapInv, NEW t \in Threads, NEW d, doing' = [doing EXCEPT ![t] = d],
           UNCHANGED limit,
           \A u \in Threads \ {t} :
              doing[u] # Nothing /\ doing[u].op = "field" => UNCHANGED <<map, locked>>
    PROVE  \A u \in Threads \ {t} : CopyIsFresh(u)' /\ MapIsChecked(u)'
<1> SUFFICES ASSUME NEW u \in Threads \ {t} PROVE CopyIsFresh(u)' /\ MapIsChecked(u)'
  OBVIOUS
<1>1. doing'[u] = doing[u]
  BY DEF MapInv, MapTypeOK
<1>2. CopyIsFresh(u) /\ MapIsChecked(u)
  BY DEF MapInv
<1>3. MapIsChecked(u)'
  BY <1>1, <1>2 DEF MapIsChecked, Valid, DataSize
<1> QED
  BY <1>1, <1>2, <1>3 DEF CopyIsFresh

(* Who has a copy has the lock. *)
LEMMA CopyHasLock ==
    ASSUME MapInv, NEW t \in Threads, locked \in {t, Nothing}
    PROVE  \A u \in Threads \ {t} : ~(doing[u] # Nothing /\ doing[u].op = "field")
BY MemoryMapAssumption DEF MapInv, CopyIsFresh

(* A step of t that leaves the map, the vector and the lock alone. *)
LEMMA TalkKeeps ==
    ASSUME MapInv, NEW t \in Threads, NEW d \in {Nothing} \cup MapCalls,
           doing' = [doing EXCEPT ![t] = d], UNCHANGED <<map, limit, auxv, mapped, locked>>,
           exe' \in Executable,
           d # Nothing =>
              /\ d.op \in {"map", "auxv"} \/ d.new # Nothing => d.new \in Maps /\ Valid(d.new)
              /\ d.op = "auxv" => d.v \in Vectors
              /\ d.op = "exchange" => d.x \in Executable
    PROVE  MapInv'
<1>1. doing'[t] = d /\ doing' \in [Threads -> {Nothing} \cup FieldCalls \cup MapCalls]
  BY DEF MapInv, MapTypeOK
<1>2. MapTypeOK' /\ Valid(map)' /\ AuxvTerminated'
  BY <1>1 DEF MapInv, MapTypeOK, Valid, DataSize, AuxvTerminated
<1>3. d # Nothing => d.op # "field"
  BY DEF MapCalls
<1>4. CopyIsFresh(t)'
  BY <1>1, <1>3 DEF CopyIsFresh
<1>5. MapIsChecked(t)'
  BY <1>1 DEF MapIsChecked, Valid, DataSize
<1> QED
  BY <1>2, <1>4, <1>5, OthersGoOn DEF MapInv

LEMMA CopyKeeps ==
    ASSUME MapInv, NEW t \in Threads, NEW f \in Fields, NEW a \in Addrs, Copy(t, f, a)
    PROVE  MapInv'
<1> DEFINE d == [op |-> "field", new |-> [map EXCEPT ![f] = a], f |-> f, a |-> a]
<1>1. /\ locked = Nothing /\ locked' = t /\ doing' = [doing EXCEPT ![t] = d]
      /\ UNCHANGED <<map, limit, auxv, exe, mapped>>
  BY DEF Copy, Begin
<1>2. d \in FieldCalls /\ \A g \in Fields \ {f} : d.new[g] = map[g]
  BY DEF FieldCalls, MapInv, MapTypeOK, Maps
<1>3. d.op = "field" /\ d.f = f
  OBVIOUS
<1> HIDE DEF d
<1>4. doing'[t] = d /\ doing' \in [Threads -> {Nothing} \cup FieldCalls \cup MapCalls]
  BY <1>1, <1>2 DEF MapInv, MapTypeOK
<1>5. MapTypeOK' /\ Valid(map)' /\ AuxvTerminated'
  BY <1>1, <1>4 DEF MapInv, MapTypeOK, Valid, DataSize, AuxvTerminated
<1>6. CopyIsFresh(t)' /\ MapIsChecked(t)'
  BY <1>1, <1>2, <1>3, <1>4 DEF CopyIsFresh, MapIsChecked
<1> QED
  BY <1>1, <1>5, <1>6, CopyHasLock, OthersGoOn DEF MapInv

(* The copy that is stored was checked against the map as it still is.     *)
LEMMA StoreKeeps ==
    ASSUME MapInv, NEW t \in Threads, Store(t)
    PROVE  MapInv' /\ \A f \in Fields : map'[f] # map[f] => f = doing[t].f
<1>1. /\ doing[t] # Nothing /\ doing[t].op = "field"
      /\ doing' = [doing EXCEPT ![t] = Nothing]
      /\ UNCHANGED <<limit, auxv, exe, mapped>>
  BY DEF Store
<1>2. doing[t] \in FieldCalls /\ locked = t
      /\ \A f \in Fields \ {doing[t].f} : doing[t].new[f] = map[f]
  BY <1>1 DEF MapInv, CopyIsFresh
<1>3. locked' = Nothing
  BY <1>2 DEF Store
<1>4. map' = map \/ (map' = doing[t].new /\ Valid(doing[t].new))
  BY DEF Store
<1>5. map' \in Maps /\ Valid(map)'
  BY <1>1, <1>2, <1>4 DEF MapInv, MapTypeOK, Valid, DataSize, FieldCalls
<1>6. doing'[t] = Nothing /\ doing' \in [Threads -> {Nothing} \cup FieldCalls \cup MapCalls]
  BY <1>1 DEF MapInv, MapTypeOK
<1>7. MapTypeOK' /\ AuxvTerminated'
  BY <1>1, <1>3, <1>5, <1>6 DEF MapInv, MapTypeOK, AuxvTerminated
<1>8. CopyIsFresh(t)' /\ MapIsChecked(t)'
  BY <1>6 DEF CopyIsFresh, MapIsChecked
<1>9. MapInv'
  BY <1>1, <1>2, <1>5, <1>7, <1>8, CopyHasLock, OthersGoOn DEF MapInv
<1> QED
  BY <1>2, <1>4, <1>9

(* Both calls that write the vector leave the end of it zero.              *)
LEMMA VectorEnds ==
    ASSUME AuxvTerminated, auxv \in [1 .. AuxSize -> Nat], NEW v \in Vectors,
           \/ auxv' = [i \in 1 .. AuxSize |-> IF i =< Len(v) THEN Terminated(v)[i] ELSE auxv[i]]
           \/ auxv' = [i \in 1 .. AuxSize |-> IF i =< Len(v) THEN Terminated(v)[i] ELSE 0]
    PROVE  AuxvTerminated' /\ auxv' \in [1 .. AuxSize -> Nat]
<1> USE MemoryMapAssumption
<1>1. v \in Seq(Nat) /\ Len(v) \in Nat
  OBVIOUS
<1>2. ASSUME NEW i \in 1 .. AuxSize, i =< Len(v)
      PROVE  Terminated(v)[i] \in Nat /\ (i > AuxSize - 2 => Terminated(v)[i] = 0)
  <2>1. i \in 1 .. Len(v) /\ v[i] \in Nat
    BY <1>1, <1>2
  <2> QED
    BY <2>1 DEF Terminated
<1>3. AuxSize - 1 \in 1 .. AuxSize /\ AuxSize \in 1 .. AuxSize
      /\ AuxSize - 1 > AuxSize - 2 /\ AuxSize > AuxSize - 2
  OBVIOUS
<1>4. ASSUME NEW i \in 1 .. AuxSize
      PROVE  auxv'[i] \in Nat
  <2>1. CASE i =< Len(v)
    <3>1. auxv'[i] = Terminated(v)[i]
      BY <2>1
    <3> QED
      BY <1>2, <2>1, <3>1
  <2>2. CASE ~(i =< Len(v))
    <3>1. auxv'[i] = auxv[i] \/ auxv'[i] = 0
      BY <2>2
    <3> QED
      BY <3>1
  <2> QED
    BY <2>1, <2>2
<1>5. auxv' \in [1 .. AuxSize -> Nat]
  BY <1>4
<1>6. auxv'[AuxSize - 1] = 0 /\ auxv'[AuxSize] = 0
  BY <1>1, <1>2, <1>3 DEF AuxvTerminated
<1> QED
  BY <1>5, <1>6 DEF AuxvTerminated

LEMMA AuxvKeeps ==
    ASSUME MapInv, NEW t \in Threads,
           StoreAuxv(t) \/ \E v \in Vectors : SetAuxv(t, v)
    PROVE  MapInv'
<1>1. auxv \in [1 .. AuxSize -> Nat] /\ AuxvTerminated
  BY DEF MapInv, MapTypeOK
<1>2. ASSUME NEW v \in Vectors, SetAuxv(t, v)
      PROVE  MapInv'
  <2>1. AuxvTerminated' /\ auxv' \in [1 .. AuxSize -> Nat]
    BY <1>1, <1>2, VectorEnds DEF SetAuxv
  <2> QED
    BY <1>2, <2>1 DEF SetAuxv, MapInv, MapTypeOK, Valid, DataSize, CopyIsFresh, MapIsChecked
<1>3. CASE StoreAuxv(t)
  <2>1. /\ doing[t] # Nothing /\ doing[t].op = "auxv" /\ doing' = [doing EXCEPT ![t] = Nothing]
        /\ UNCHANGED <<map, limit, exe, mapped, locked>>
    BY <1>3 DEF StoreAuxv
  <2>2. doing[t].v \in Vectors
    BY <2>1 DEF MapInv, MapIsChecked
  <2>3. AuxvTerminated' /\ auxv' \in [1 .. AuxSize -> Nat]
    BY <1>1, <1>3, <2>2, VectorEnds DEF StoreAuxv
  <2>4. doing'[t] = Nothing /\ doing' \in [Threads -> {Nothing} \cup FieldCalls \cup MapCalls]
    BY <2>1 DEF MapInv, MapTypeOK
  <2>5. MapTypeOK' /\ Valid(map)'
    BY <2>1, <2>3, <2>4 DEF MapInv, MapTypeOK, Valid, DataSize
  <2>6. CopyIsFresh(t)' /\ MapIsChecked(t)'
    BY <2>4 DEF CopyIsFresh, MapIsChecked
  <2> QED
    BY <2>1, <2>3, <2>5, <2>6, OthersGoOn DEF MapInv
<1> QED
  BY <1>2, <1>3

LEMMA SetMapKeeps ==
    ASSUME MapInv, NEW t \in Threads, NEW m \in Maps, NEW v \in Vectors \cup {Nothing},
           NEW x \in Files \cup {Nothing}, SetMap(t, m, v, x)
    PROVE  MapInv'
<1> DEFINE d == [op |-> IF x = Nothing THEN "map" ELSE "exe", new |-> m, v |-> v, x |-> x]
<1>1. /\ Valid(m) /\ doing' = [doing EXCEPT ![t] = d]
      /\ UNCHANGED <<map, limit, auxv, exe, mapped, locked>>
  BY DEF SetMap, Begin
<1>2. d \in MapCalls /\ d.op \in {"map", "exe"} /\ d.new = m
  BY DEF MapCalls
<1> HIDE DEF d
<1>3. exe' \in Executable
  BY <1>1 DEF MapInv, MapTypeOK
<1> QED
  BY <1>1, <1>2, <1>3, TalkKeeps

LEMMA StoreMapKeeps ==
    ASSUME MapInv, NEW t \in Threads, StoreMap(t)
    PROVE  MapInv'
<1> DEFINE e == doing[t]
           d == IF e.v = Nothing THEN Nothing ELSE [e EXCEPT !.op = "auxv"]
<1>1. /\ e # Nothing /\ e.op = "map" /\ locked = Nothing /\ map' = e.new
      /\ UNCHANGED <<limit, auxv, exe, mapped, locked>>
  BY DEF StoreMap
<1>2. e \in MapCalls /\ e.new \in Maps /\ Valid(e.new)
  BY <1>1 DEF MapInv, MapIsChecked
<1>3. doing' = [doing EXCEPT ![t] = d]
  BY DEF StoreMap
<1> HIDE DEF e
<1>4. e.v \in Vectors \cup {Nothing} /\ [e EXCEPT !.op = "auxv"] \in MapCalls
      /\ [e EXCEPT !.op = "auxv"].op = "auxv" /\ [e EXCEPT !.op = "auxv"].new = e.new
      /\ [e EXCEPT !.op = "auxv"].v = e.v
  BY <1>2 DEF MapCalls
<1>5. d \in {Nothing} \cup MapCalls
      /\ (d # Nothing => d.op = "auxv" /\ d.new = e.new /\ d.v \in Vectors)
  BY <1>4
<1> HIDE DEF d
<1>6. doing'[t] = d /\ doing' \in [Threads -> {Nothing} \cup FieldCalls \cup MapCalls]
  BY <1>3, <1>5 DEF MapInv, MapTypeOK
<1>7. MapTypeOK' /\ Valid(map)' /\ AuxvTerminated'
  BY <1>1, <1>2, <1>6 DEF MapInv, MapTypeOK, Valid, DataSize, AuxvTerminated
<1>8. CopyIsFresh(t)'
  BY <1>5, <1>6 DEF CopyIsFresh
<1>9. MapIsChecked(t)'
  BY <1>1, <1>2, <1>5, <1>6 DEF MapIsChecked, Valid, DataSize
<1> QED
  BY <1>1, <1>3, <1>7, <1>8, <1>9, CopyHasLock, OthersGoOn DEF MapInv

LEMMA ExeKeeps ==
    ASSUME MapInv, NEW t \in Threads,
           \/ \E x \in Files : SetExe(t, x)
           \/ CheckExe(t)
           \/ ExchangeExe(t)
    PROVE  MapInv'
<1>1. exe \in Executable
  BY DEF MapInv, MapTypeOK
<1>2. ASSUME NEW x \in Files, SetExe(t, x)
      PROVE  MapInv'
  <2> DEFINE d == [op |-> "exe", new |-> Nothing, v |-> Nothing, x |-> x]
  <2>1. doing' = [doing EXCEPT ![t] = d] /\ UNCHANGED <<map, limit, auxv, exe, mapped, locked>>
    BY <1>2 DEF SetExe, Begin
  <2>2. d \in MapCalls /\ d.op = "exe" /\ d.new = Nothing
    BY DEF MapCalls
  <2> HIDE DEF d
  <2> QED
    BY <1>1, <2>1, <2>2, TalkKeeps
<1> DEFINE e == doing[t]
<1>3. CASE CheckExe(t)
  <2> DEFINE n == [e EXCEPT !.op = "exchange"]
             d == IF e.x \in Executable /\ exe \notin mapped THEN n ELSE Nothing
  <2>1. /\ e # Nothing /\ e.op = "exe" /\ doing' = [doing EXCEPT ![t] = d]
        /\ UNCHANGED <<map, limit, auxv, exe, mapped, locked>>
    BY <1>3 DEF CheckExe
  <2>2. e \in MapCalls /\ (e.new # Nothing => e.new \in Maps /\ Valid(e.new))
    BY <2>1 DEF MapInv, MapIsChecked
  <2> HIDE DEF e
  <2>3. n \in MapCalls /\ n.op = "exchange" /\ n.new = e.new /\ n.x = e.x
    BY <2>2 DEF MapCalls
  <2> HIDE DEF n
  <2>4. d \in {Nothing} \cup MapCalls
        /\ (d # Nothing => d.op = "exchange" /\ d.new = e.new /\ d.x \in Executable)
    BY <2>3
  <2> HIDE DEF d
  <2> QED
    BY <1>1, <2>1, <2>2, <2>4, TalkKeeps
<1>4. CASE ExchangeExe(t)
  <2> DEFINE n == [e EXCEPT !.op = "map"]
             d == IF e.new = Nothing THEN Nothing ELSE n
  <2>1. /\ e # Nothing /\ e.op = "exchange" /\ doing' = [doing EXCEPT ![t] = d]
        /\ exe' = e.x /\ UNCHANGED <<map, limit, auxv, mapped, locked>>
    BY <1>4 DEF ExchangeExe
  <2>2. e \in MapCalls /\ e.x \in Executable
        /\ (e.new # Nothing => e.new \in Maps /\ Valid(e.new))
    BY <2>1 DEF MapInv, MapIsChecked
  <2> HIDE DEF e
  <2>3. n \in MapCalls /\ n.op = "map" /\ n.new = e.new
    BY <2>2 DEF MapCalls
  <2> HIDE DEF n
  <2>4. d \in {Nothing} \cup MapCalls
        /\ (d # Nothing => d.op = "map" /\ d.new = e.new /\ e.new # Nothing)
    BY <2>3
  <2> HIDE DEF d
  <2> QED
    BY <2>1, <2>2, <2>4, TalkKeeps
<1> QED
  BY <1>2, <1>3, <1>4

(* brk and mmap wait for the threads that have a copy. *)
LEMMA WritersKeep ==
    ASSUME MapInv, NEW t \in Threads,
           \/ \E a \in Addrs : Brk(t, a)
           \/ \E x \in Files : MapFile(t, x)
    PROVE  MapInv'
<1>1. NoReader /\ UNCHANGED <<limit, auxv, exe, doing, locked>>
  BY DEF Brk, MapFile
<1>2. map' \in Maps /\ Valid(map)'
  <2>1. ASSUME NEW a \in Addrs, Brk(t, a) PROVE map' \in Maps /\ Valid(map)'
    <3>1. map' = [map EXCEPT ![<<"brk", "end">>] = a] /\ Valid(map')
      BY <2>1 DEF Brk
    <3> QED
      BY <1>1, <3>1, FieldsThere DEF MapInv, MapTypeOK, Maps, Valid, DataSize
  <2>2. ASSUME NEW x \in Files, MapFile(t, x) PROVE map' \in Maps /\ Valid(map)'
    BY <2>2 DEF MapFile, MapInv, MapTypeOK, Valid, DataSize
  <2> QED
    BY <2>1, <2>2
<1>3. mapped' \subseteq Files
  BY DEF Brk, MapFile, MapInv, MapTypeOK
<1>4. MapTypeOK' /\ AuxvTerminated'
  BY <1>1, <1>2, <1>3 DEF MapInv, MapTypeOK, AuxvTerminated
<1>5. ASSUME NEW u \in Threads PROVE CopyIsFresh(u)' /\ MapIsChecked(u)'
  <2>1. ~(doing[u] # Nothing /\ doing[u].op = "field")
    BY <1>1 DEF NoReader
  <2> QED
    BY <1>1, <2>1 DEF MapInv, CopyIsFresh, MapIsChecked, Valid, DataSize
<1> QED
  BY <1>2, <1>4, <1>5 DEF MapInv

LEMMA MapInvNext == MapInv /\ [MapNext]_mapVars => MapInv'
<1> SUFFICES ASSUME MapInv, [MapNext]_mapVars PROVE MapInv'
  OBVIOUS
<1>1. CASE UNCHANGED mapVars
  BY <1>1 DEF mapVars, MapInv, MapTypeOK, Valid, DataSize, AuxvTerminated, CopyIsFresh, MapIsChecked
<1>2. CASE MapNext
  BY <1>2, CopyKeeps, StoreKeeps, AuxvKeeps, SetMapKeeps, StoreMapKeeps, ExeKeeps, WritersKeep
  DEF MapNext
<1> QED
  BY <1>1, <1>2

(* The segments stay ordered and within the limit of data, the vector      *)
(* terminated and the executable executable, however many threads describe *)
(* the memory at once (lines 2071-2091, 2142-2144, 2233-2235).             *)
THEOREM DescriptionKept == MapSpec => []DescriptionHolds
<1>1. MapInv => DescriptionHolds
  BY DEF MapInv, Valid, DescriptionHolds, MapOrdered, DataWithinLimit
<1> QED
  BY <1>1, MapInvInit, MapInvNext, PTL DEF MapSpec

(* A call that changes one address writes back the others as they are,     *)
(* because of the two locks it holds (lines 2274-2283, 2361-2374).         *)
THEOREM OnlyFieldChanges == MapSpec => OneFieldChanges
<1> DEFINE One == \A t \in Threads, f \in Fields :
                      Store(t) /\ map'[f] # map[f] => f = doing[t].f
<1>1. MapInv => One
  BY StoreKeeps
<1>2. MapSpec => []MapInv
  BY MapInvInit, MapInvNext, PTL DEF MapSpec
<1> QED
  BY <1>1, <1>2, PTL DEF MapSpec, OneFieldChanges
------------------------------------------------------------------------------
(* Priorities. *)

(* The tasks that the loop of a call is done with. *)
Processed(c) == target[c] \ (todo[c] \cup {at[c]})

(* Where the loop stands. *)
LoopStands(c) ==
    /\ todo[c] \subseteq target[c]
    /\ at[c] # NoTask => at[c] \in target[c] \ todo[c]
    /\ c \notin calling => todo[c] = {} /\ at[c] = NoTask

(* What the result says of the tasks so far, and what holds of those that  *)
(* the call has changed.                                                   *)
SpeaksSoFar(c) ==
    /\ reached[c] \subseteq Processed(c)
    /\ error[c] = "ESRCH" <=> Processed(c) = {}
    /\ error[c] = "none" => reached[c] = Processed(c)
    /\ c \notin undone => \A p \in reached[c] : nice[p] = value[c]

PrioInv ==
    /\ PrioritiesTypeOK
    /\ \A c \in PrioCallers : LoopStands(c) /\ SpeaksSoFar(c)

LEMMA PrioInvInit == PrioritiesInit => PrioInv
  BY PrioritiesAssumption
  DEF PrioritiesInit, PrioInv, PrioritiesTypeOK, LoopStands, SpeaksSoFar, Processed, Nices, Errors

LEMMA NormalizedInRange ==
    ASSUME NEW n \in Asked
    PROVE  Normalized(n) \in Nices
  BY PrioritiesAssumption DEF Normalized, Nices

LEMMA TargetsAreTasks ==
    ASSUME NEW S \in PrioTargets
    PROVE  S \subseteq Niced
  BY DEF PrioTargets

LEMMA SetPriorityKeeps ==
    ASSUME PrioInv, NEW c \in PrioCallers, NEW S \in PrioTargets, NEW n \in Asked,
           SetPriority(c, S, n)
    PROVE  PrioInv'
<1>1. PrioritiesTypeOK'
  BY NormalizedInRange, TargetsAreTasks DEF SetPriority, PrioInv, PrioritiesTypeOK, Errors
<1>2. at[c] = NoTask /\ at'[c] = NoTask
  BY DEF SetPriority, PrioInv, LoopStands
<1>3. /\ target'[c] = S /\ todo'[c] = S /\ reached'[c] = {} /\ error'[c] = "ESRCH"
      /\ c \in calling' /\ c \notin undone'
  BY DEF SetPriority, PrioInv, PrioritiesTypeOK
<1>4. LoopStands(c)' /\ SpeaksSoFar(c)'
  BY <1>2, <1>3 DEF LoopStands, SpeaksSoFar, Processed
<1>5. ASSUME NEW d \in PrioCallers, d # c
      PROVE  LoopStands(d)' /\ SpeaksSoFar(d)'
  BY <1>5 DEF SetPriority, PrioInv, PrioritiesTypeOK, LoopStands, SpeaksSoFar, Processed
<1> QED
  BY <1>1, <1>4, <1>5 DEF PrioInv

LEMMA AllowKeeps ==
    ASSUME PrioInv, NEW c \in PrioCallers, NEW p \in Niced, Allow(c, p)
    PROVE  PrioInv'
<1>1. PrioritiesTypeOK'
  BY DEF Allow, PrioInv, PrioritiesTypeOK
<1>2. /\ at[c] = NoTask /\ at'[c] = p /\ todo'[c] = todo[c] \ {p} /\ p \in todo[c]
      /\ UNCHANGED <<nice, calling, target, value, error, reached, undone>>
  BY DEF Allow, PrioInv, PrioritiesTypeOK
<1>3. p # NoTask /\ NoTask \notin target[c]
  BY PrioritiesAssumption DEF PrioInv, PrioritiesTypeOK
<1>4. LoopStands(c)'
  BY <1>2, <1>3 DEF PrioInv, LoopStands
<1>5. Processed(c)' = Processed(c)
  BY <1>2, <1>3 DEF PrioInv, LoopStands, Processed
<1>6. SpeaksSoFar(c)'
  BY <1>2, <1>5 DEF PrioInv, SpeaksSoFar
<1>7. ASSUME NEW d \in PrioCallers, d # c
      PROVE  LoopStands(d)' /\ SpeaksSoFar(d)'
  BY <1>7 DEF Allow, PrioInv, PrioritiesTypeOK, LoopStands, SpeaksSoFar, Processed
<1> QED
  BY <1>1, <1>4, <1>6, <1>7 DEF PrioInv

LEMMA RefuseKeeps ==
    ASSUME PrioInv, NEW c \in PrioCallers, NEW p \in Niced, Refuse(c, p)
    PROVE  PrioInv'
<1>1. PrioritiesTypeOK'
  BY DEF Refuse, PrioInv, PrioritiesTypeOK, Errors
<1>2. /\ at[c] = NoTask /\ todo'[c] = todo[c] \ {p} /\ p \in todo[c]
      /\ error'[c] \in {"EPERM", "EACCES", "refused"}
      /\ UNCHANGED <<nice, calling, target, value, at, reached, undone>>
  BY DEF Refuse, PrioInv, PrioritiesTypeOK
<1>3. p # NoTask /\ NoTask \notin target[c]
  BY PrioritiesAssumption DEF PrioInv, PrioritiesTypeOK
<1>4. LoopStands(c)'
  BY <1>2, <1>3 DEF PrioInv, LoopStands
<1>5. Processed(c)' = Processed(c) \cup {p}
  BY <1>2, <1>3 DEF PrioInv, LoopStands, Processed
<1>6. SpeaksSoFar(c)'
  BY <1>2, <1>5 DEF PrioInv, SpeaksSoFar
<1>7. ASSUME NEW d \in PrioCallers, d # c
      PROVE  LoopStands(d)' /\ SpeaksSoFar(d)'
  BY <1>7 DEF Refuse, PrioInv, PrioritiesTypeOK, LoopStands, SpeaksSoFar, Processed
<1> QED
  BY <1>1, <1>4, <1>6, <1>7 DEF PrioInv

(* A change undoes the other calls that have reached the task, and only    *)
(* completes its own.                                                      *)
LEMMA SetUserNiceKeeps ==
    ASSUME PrioInv, NEW c \in PrioCallers, SetUserNice(c)
    PROVE  PrioInv'
<1> DEFINE p == at[c]
<1>1. p # NoTask /\ p \in Niced /\ p \in target[c] \ todo[c] /\ NoTask \notin target[c]
  BY PrioritiesAssumption DEF SetUserNice, PrioInv, PrioritiesTypeOK, LoopStands
<1>2. PrioritiesTypeOK'
  BY <1>1 DEF SetUserNice, PrioInv, PrioritiesTypeOK, Errors
<1>3. /\ nice'[p] = value[c] /\ at'[c] = NoTask /\ reached'[c] = reached[c] \cup {p}
      /\ \A q \in Niced \ {p} : nice'[q] = nice[q]
      /\ error'[c] = IF error[c] = "ESRCH" THEN "none" ELSE error[c]
      /\ c \in undone' <=> c \in undone
      /\ UNCHANGED <<calling, target, value, todo>>
  BY <1>1 DEF SetUserNice, PrioInv, PrioritiesTypeOK
<1>4. LoopStands(c)'
  BY <1>1, <1>3 DEF PrioInv, LoopStands
<1>5. Processed(c)' = Processed(c) \cup {p}
  BY <1>1, <1>3 DEF Processed
<1>6. reached[c] \subseteq Niced
  BY DEF PrioInv, PrioritiesTypeOK
<1>7. SpeaksSoFar(c)'
  <2>1. reached'[c] \subseteq Processed(c)'
    BY <1>3, <1>5 DEF PrioInv, SpeaksSoFar
  <2>2. error'[c] # "ESRCH" /\ Processed(c)' # {}
    BY <1>3, <1>5
  <2>3. error'[c] = "none" => reached'[c] = Processed(c)'
    BY <1>3, <1>5 DEF PrioInv, SpeaksSoFar
  <2>4. c \notin undone' => \A q \in reached'[c] : nice'[q] = value'[c]
    BY <1>3, <1>6 DEF PrioInv, SpeaksSoFar
  <2> QED
    BY <2>1, <2>2, <2>3, <2>4 DEF SpeaksSoFar
<1>8. ASSUME NEW d \in PrioCallers, d # c
      PROVE  LoopStands(d)' /\ SpeaksSoFar(d)'
  <2>1. /\ at'[d] = at[d] /\ reached'[d] = reached[d] /\ error'[d] = error[d]
        /\ d \notin undone' => d \notin undone /\ p \notin reached[d]
        /\ UNCHANGED <<calling, target, value, todo>>
    BY <1>8 DEF SetUserNice, PrioInv, PrioritiesTypeOK
  <2>2. reached[d] \subseteq Niced
    BY DEF PrioInv, PrioritiesTypeOK
  <2>3. d \notin undone' => \A q \in reached'[d] : nice'[q] = value'[d]
    BY <1>3, <2>1, <2>2 DEF PrioInv, SpeaksSoFar
  <2> QED
    BY <2>1, <2>3 DEF PrioInv, LoopStands, SpeaksSoFar, Processed
<1> QED
  BY <1>2, <1>4, <1>7, <1>8 DEF PrioInv

LEMMA PrioReturnKeeps ==
    ASSUME PrioInv, NEW c \in PrioCallers, PrioReturn(c)
    PROVE  PrioInv'
  BY DEF PrioReturn, PrioInv, PrioritiesTypeOK, LoopStands, SpeaksSoFar, Processed

LEMMA PrioInvNext == PrioInv /\ [PrioritiesNext]_prioVars => PrioInv'
<1> SUFFICES ASSUME PrioInv, [PrioritiesNext]_prioVars
             PROVE  PrioInv'
  OBVIOUS
<1>1. CASE UNCHANGED prioVars
  BY <1>1 DEF prioVars, call, PrioInv, PrioritiesTypeOK, LoopStands, SpeaksSoFar, Processed
<1>2. CASE PrioritiesNext
  BY <1>2, SetPriorityKeeps, AllowKeeps, RefuseKeeps, SetUserNiceKeeps, PrioReturnKeeps
  DEF PrioritiesNext
<1> QED
  BY <1>1, <1>2

(* getpriority of tasks that all have one nice value gives it; -ESRCH is   *)
(* below every range value.                                                *)
LEMMA GetPriorityOfEqual ==
    ASSUME NEW S, S # {}, NEW n \in Nices, \A p \in S : nice[p] = n
    PROVE  GetPriority(S) = NiceToRlimit(n)
<1> DEFINE found == {NiceToRlimit(nice[p]) : p \in S} \cup {ESRCH}
<1>1. NiceToRlimit(n) \in Int /\ NiceToRlimit(n) >= 1 /\ ESRCH = -3
  BY PrioritiesAssumption DEF Nices, NiceToRlimit, ESRCH
<1>2. found = {NiceToRlimit(n), -3}
  BY <1>1
<1> HIDE DEF found
<1>3. \A x \in found : (\A y \in found : x >= y) <=> x = NiceToRlimit(n)
  BY <1>1, <1>2
<1>4. NiceToRlimit(n) \in found
  BY <1>2
<1>5. Max(found) = NiceToRlimit(n)
  BY <1>3, <1>4 DEF Max
<1> QED
  BY <1>5 DEF GetPriority, found

LEMMA PrioInvResult == PrioInv => ResultIsTrue
<1> SUFFICES ASSUME PrioInv
             PROVE  ResultIsTrue
  OBVIOUS
<1>1. ASSUME NEW c \in PrioCallers, c \notin calling
      PROVE  Processed(c) = target[c] /\ value[c] \in Nices
  BY <1>1, PrioritiesAssumption DEF PrioInv, PrioritiesTypeOK, LoopStands, Processed
<1>2. ResultSpeaksForAll
  BY <1>1 DEF PrioInv, SpeaksSoFar, ResultSpeaksForAll
<1>3. SetThenGet
  <2> SUFFICES ASSUME NEW c \in PrioCallers \ (calling \cup undone), error[c] = "none"
               PROVE  GetPriority(target[c]) = NiceToRlimit(value[c])
    BY DEF SetThenGet
  <2>1. target[c] # {} /\ \A p \in target[c] : nice[p] = value[c]
    BY <1>1 DEF PrioInv, SpeaksSoFar
  <2> QED
    BY <1>1, <2>1, GetPriorityOfEqual
<1> QED
  BY <1>2, <1>3 DEF PrioInv, ResultIsTrue

(* What setpriority returns is true of all its tasks, and getpriority      *)
(* gives the value back until another call changes one of them, for any    *)
(* tasks, callers and ranges (lines 250-280, 318-322, 362-386).            *)
THEOREM ResultTrue == PrioritiesSpec => []ResultIsTrue
  BY PrioInvInit, PrioInvNext, PrioInvResult, PTL DEF PrioritiesSpec
------------------------------------------------------------------------------
(* The five families in one specification. *)

(* There is a description to start from. *)
LEMMA SomethingLoadable ==
    ASSUME NEW n \in DataLimits
    PROVE  \E m \in Maps : Loadable(m, n)
<1> USE MemoryMapAssumption
<1> DEFINE m == [f \in Fields |-> IF f = <<"code", "end">> THEN MinAddr + 1 ELSE MinAddr]
<1>1. m \in Maps
  BY DEF Maps, Addrs
<1>2. ASSUME NEW s \in Segments
      PROVE  Size(m, s) = IF s = "code" THEN 1 ELSE 0
  <2>1. <<s, "start">> \in Fields /\ <<s, "end">> \in Fields
    BY DEF Fields
  <2>2. m[<<s, "start">>] = MinAddr /\ m[<<s, "end">>] = IF s = "code" THEN MinAddr + 1 ELSE MinAddr
    BY <2>1
  <2> QED
    BY <2>2 DEF Size
<1> HIDE DEF m
<1>3. Ordered(m)
  BY <1>2 DEF Ordered
<1>4. Size(m, "brk") = 0 /\ Size(m, "data") = 0 /\ n \in Nat
  BY <1>2
<1>5. Loadable(m, n)
  BY <1>3, <1>4 DEF Loadable
<1> QED
  BY <1>1, <1>5

LEMMA InitOfFamilies ==
    Init => ProcessesInit /\ CredentialsInit /\ PrioritiesInit /\ LimitsInit /\ MapInit
<1> SUFFICES ASSUME Init
             PROVE  ProcessesInit /\ CredentialsInit /\ PrioritiesInit /\ LimitsInit /\ MapInit
  OBVIOUS
<1>1. ProcessesInit /\ PrioritiesInit
  BY DEF Init
<1>2. CredentialsInit
  <2>1. CASE family = "credentials"
    BY <2>1 DEF Init
  <2>2. CASE family # "credentials"
    <3> DEFINE g == CHOOSE h \in Gids : TRUE
    <3>1. g \in Gids /\ Root \in Ids /\ {} \in SUBSET Limited
      BY CredentialsAssumption
    <3>2. Login(Root, g, {})
      BY <2>2 DEF Init
    <3> HIDE DEF g
    <3> QED
      BY <3>1, <3>2 DEF CredentialsInit
  <2> QED
    BY <2>1, <2>2
<1>3. LimitsInit
  <2>1. CASE family = "limits"
    BY <2>1 DEF Init
  <2>2. CASE family # "limits"
    <3> DEFINE owners == [p \in LimitCallers \cup LimitTargets |-> Admin]
    <3>1. owners \in [LimitCallers \cup LimitTargets -> Users] /\ Boot(owners)
      BY <2>2, ResourceLimitsAssumption DEF Init
    <3> QED
      BY <3>1 DEF LimitsInit
  <2> QED
    BY <2>1, <2>2
<1>4. MapInit
  <2>1. CASE family = "map"
    BY <2>1 DEF Init
  <2>2. CASE family # "map"
    <3> DEFINE n == CHOOSE k \in DataLimits : TRUE
               m == CHOOSE m \in Maps : Loadable(m, n)
    <3>1. n \in DataLimits
      BY MemoryMapAssumption
    <3>2. Loaded(m, n)
      BY <2>2 DEF Init
    <3> HIDE DEF n
    <3>3. m \in Maps /\ Loadable(m, n)
      BY <3>1, SomethingLoadable
    <3> HIDE DEF m
    <3> QED
      BY <3>1, <3>2, <3>3 DEF MapInit
  <2> QED
    BY <2>1, <2>2
<1> QED
  BY <1>1, <1>2, <1>3, <1>4

LEMMA NextOfFamilies ==
    [Next]_vars =>
        /\ [ProcessesNext]_processVars
        /\ [CredentialsNext]_credVars
        /\ [PrioritiesNext]_prioVars
        /\ [LimitsNext]_limitVars
        /\ [MapNext]_mapVars
  BY DEF Next, vars

(* The system calls together are, to each family, only its own: what is    *)
(* proved of a family holds of all of them (the entry points of            *)
(* project4/sys.c; what one reads of another is a parameter of its model). *)
THEOREM EachFamily ==
    Spec => ProcessesSpec /\ CredentialsSpec /\ PrioritiesSpec /\ LimitsSpec /\ MapSpec
  BY InitOfFamilies, NextOfFamilies, PTL
  DEF Spec, ProcessesSpec, CredentialsSpec, PrioritiesSpec, LimitsSpec, MapSpec
==============================================================================
