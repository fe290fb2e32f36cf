---------------------------- MODULE TrafficSimProofs ----------------------------
(***************************************************************************)
(* The safety of trafficsim.c for any buffer size, threshold and number of *)
(* cars.  The invariant says, for each semaphore, who may wait on it and   *)
(* where, and what its permits stand for; the mutex, the counters and the  *)
(* direction follow from that.                                             *)
(***************************************************************************)
EXTENDS TrafficSim, SequenceTheorems, FiniteSetTheorems, TLAPS

(* A semaphore whose waiters differ, and who wait for lack of permits. *)
SemInv(sem) ==
    /\ sem \in SemType
    /\ \A i, j \in DOMAIN sem.waiting : sem.waiting[i] = sem.waiting[j] => i = j
    /\ sem.permits > 0 => sem.waiting = <<>>

NoWaiter(sem) == \A q \in Procs : ~WaitsOn(sem, q)

LEMMA SemFresh ==
    ASSUME NEW v \in Nat
    PROVE  SemInv(Sem(v)) /\ Sem(v).permits = v /\ NoWaiter(Sem(v))
<1>1. Sem(v).waiting = <<>> /\ <<>> \in Seq(Procs) /\ Sem(v) \in SemType
  BY DEF Sem, SemType
<1> QED
  BY <1>1 DEF Sem, SemInv, NoWaiter, WaitsOn

LEMMA SemHasPermits ==
    ASSUME NEW sem, SemInv(sem)
    PROVE  sem.permits \in Nat /\ (sem.permits > 0 => NoWaiter(sem))
BY DEF SemInv, SemType, NoWaiter, WaitsOn

(* down() takes a permit, or puts the caller behind those who wait. *)
LEMMA DownEffect ==
    ASSUME NEW sem, SemInv(sem), NEW p \in Procs, ~WaitsOn(sem, p)
    PROVE  /\ SemInv(Down(sem, p))
           /\ \/ /\ Down(sem, p).permits = sem.permits - 1
                 /\ NoWaiter(sem) /\ NoWaiter(Down(sem, p)) /\ sem.permits > 0
              \/ /\ Down(sem, p).permits = sem.permits /\ sem.permits = 0
                 /\ \A q \in Procs : WaitsOn(Down(sem, p), q) <=> WaitsOn(sem, q) \/ q = p
<1>1. sem \in SemType /\ sem.permits \in Nat /\ sem.waiting \in Seq(Procs)
  BY DEF SemInv, SemType
<1>2. CASE sem.permits > 0
  <2>1. Down(sem, p) = [sem EXCEPT !.permits = sem.permits - 1]
    BY <1>2 DEF Down
  <2>2. /\ Down(sem, p) \in SemType
        /\ Down(sem, p).permits = sem.permits - 1
        /\ Down(sem, p).waiting = sem.waiting /\ sem.waiting = <<>>
    BY <1>1, <1>2, <2>1 DEF SemType, SemInv
  <2> QED
    BY <1>2, <2>2 DEF SemInv, NoWaiter, WaitsOn
<1>3. CASE sem.permits = 0
  <2> DEFINE w == Append(sem.waiting, p)
  <2>1. Down(sem, p) = [sem EXCEPT !.waiting = w]
    BY <1>3 DEF Down
  <2>2. /\ Down(sem, p) \in SemType
        /\ Down(sem, p).permits = sem.permits
        /\ Down(sem, p).waiting = w
    BY <1>1, <2>1 DEF SemType
  <2>3. /\ DOMAIN sem.waiting = 1 .. Len(sem.waiting)
        /\ DOMAIN w = 1 .. Len(sem.waiting) + 1
        /\ Len(sem.waiting) \in Nat
        /\ \A i \in 1 .. Len(sem.waiting) : w[i] = sem.waiting[i]
        /\ w[Len(sem.waiting) + 1] = p
    BY <1>1
  <2> HIDE DEF w
  <2>4. \A i, j \in DOMAIN w : w[i] = w[j] => i = j
    BY <2>3 DEF WaitsOn, SemInv
  <2>5. \A q \in Procs : WaitsOn(Down(sem, p), q) <=> WaitsOn(sem, q) \/ q = p
    BY <2>2, <2>3 DEF WaitsOn
  <2> QED
    BY <1>3, <2>2, <2>4, <2>5 DEF SemInv
<1> QED
  BY <1>1, <1>2, <1>3

(* up() adds a permit, or lets the one who waits longest go. *)
LEMMA UpEffect ==
    ASSUME NEW sem, SemInv(sem)
    PROVE  /\ SemInv(Up(sem))
           /\ \/ /\ Up(sem).permits = sem.permits + 1
                 /\ NoWaiter(sem) /\ NoWaiter(Up(sem))
              \/ /\ Up(sem).permits = sem.permits /\ sem.permits = 0
                 /\ \E h \in Procs :
                       /\ WaitsOn(sem, h)
                       /\ \A q \in Procs : WaitsOn(Up(sem), q) <=> WaitsOn(sem, q) /\ q # h
<1>1. sem \in SemType /\ sem.permits \in Nat /\ sem.waiting \in Seq(Procs)
  BY DEF SemInv, SemType
<1>2. CASE sem.waiting = <<>>
  <2>1. Up(sem) = [sem EXCEPT !.permits = sem.permits + 1]
    BY <1>2 DEF Up
  <2>2. /\ Up(sem) \in SemType
        /\ Up(sem).permits = sem.permits + 1
        /\ Up(sem).waiting = <<>>
    BY <1>1, <1>2, <2>1 DEF SemType
  <2> QED
    BY <1>2, <2>2 DEF SemInv, NoWaiter, WaitsOn
<1>3. CASE sem.waiting # <<>>
  <2> DEFINE s == sem.waiting
             w == Tail(s)
             n == Len(s)
  <2>1. Up(sem) = [sem EXCEPT !.waiting = w]
    BY <1>3 DEF Up
  <2>2. /\ Up(sem) \in SemType
        /\ Up(sem).permits = sem.permits /\ sem.permits = 0
        /\ Up(sem).waiting = w
    BY <1>1, <1>3, <2>1, SMTT(30) DEF SemType, SemInv
  <2>3. /\ n \in Nat \ {0} /\ DOMAIN s = 1 .. n /\ DOMAIN w = 1 .. n - 1
        /\ \A i \in 1 .. n - 1 : w[i] = s[i + 1]
        /\ s[1] \in Procs
    BY <1>1, <1>3
  <2>4. \A i, j \in 1 .. n : s[i] = s[j] => i = j
    BY <2>3 DEF SemInv
  <2> HIDE DEF w, n, s
  <2>5. \A i, j \in DOMAIN w : w[i] = w[j] => i = j
    BY <2>3, <2>4
  <2>6. \A q \in Procs : (\E i \in DOMAIN w : w[i] = q) <=> (\E i \in DOMAIN s : s[i] = q) /\ q # s[1]
    <3> SUFFICES ASSUME NEW q \in Procs
                 PROVE  (\E i \in DOMAIN w : w[i] = q) <=> (\E i \in DOMAIN s : s[i] = q) /\ q # s[1]
      OBVIOUS
    <3>1. ASSUME NEW i \in DOMAIN w, w[i] = q PROVE (\E j \in DOMAIN s : s[j] = q) /\ q # s[1]
      BY <2>3, <2>4, <3>1
    <3>2. ASSUME NEW i \in DOMAIN s, s[i] = q, q # s[1] PROVE \E j \in DOMAIN w : w[j] = q
      <4>1. i - 1 \in DOMAIN w /\ w[i - 1] = q
        BY <2>3, <3>2
      <4> QED
        BY <4>1
    <3> QED
      BY <3>1, <3>2
  <2>7. 1 \in DOMAIN s
    BY <2>3
  <2>8. /\ WaitsOn(sem, s[1])
        /\ \A q \in Procs : WaitsOn(Up(sem), q) <=> WaitsOn(sem, q) /\ q # s[1]
    BY <2>2, <2>6, <2>7 DEF WaitsOn, s
  <2> QED
    BY <2>2, <2>3, <2>5, <2>8 DEF SemInv
<1> QED
  BY <1>2, <1>3

--------------------------------------------------------------------------------
(* The invariant. *)

SemShape ==
    /\ empty \in [Directions -> SemType] /\ full \in [Directions -> SemType]
    /\ \A d \in Directions : SemInv(empty[d]) /\ SemInv(full[d])
    /\ SemInv(mutex) /\ SemInv(cum_sem)

DataShape ==
    /\ total_cars \in Cars
    /\ direction \in Directions \cup {" "}
    /\ honked \in {"N", "Y"}
    /\ count \in [Directions -> Int]
    /\ buffer \in [Directions -> [Slots -> Cars]]
    /\ in \in [Directions -> Slots]
    /\ out \in [Directions -> Slots]
    /\ side \in Directions
    /\ car_num \in Cars \cup {None}

PcShape ==
    /\ pc \in [Procs -> ProducerLabels \cup FlagLabels]
    /\ pc[Flag] \in FlagLabels
    /\ \A d \in Directions : pc[d] \in ProducerLabels

(* Who may wait, and for which semaphore at which label. *)
WaitersKnown ==
    /\ \A p \in Procs : WaitsOn(mutex, p) => pc[p] \in {"arrive", "check", "choose"}
    /\ \A d \in Directions, p \in Procs : WaitsOn(empty[d], p) => p = d /\ pc[p] = "down_mutex"
    /\ \A d \in Directions, p \in Procs :
          WaitsOn(full[d], p) => p = Flag /\ pc[p] = "take" /\ side = d
    /\ \A p \in Procs : WaitsOn(cum_sem, p) => p = Flag /\ pc[p] = "down_mutex2"

(* The permit of the mutex is free, or somebody is in the critical section *)
(* (or nobody ever will be again, which WokenForACar excludes).            *)
MutexInv ==
    /\ mutex.permits <= 1
    /\ mutex.permits = 1 => \A p \in Procs : ~InCriticalSection(p)
    /\ MutexExcludes

FullTokens(d) ==
    count[d] = full[d].permits
                 + One(pc[d] \in {"up_mutex", "up_full"})
                 + One(pc[Flag] = "take" /\ side = d /\ ~WaitsOn(full[d], Flag))

EmptyTokens(d) ==
    BufferSize = empty[d].permits + count[d]
                   + One(pc[d] \in {"down_mutex", "arrive"} /\ ~WaitsOn(empty[d], d))
                   + One(pc[Flag] \in {"up_mutex2", "up_empty"} /\ side = d)

OnItsWay(d) == One(pc[d] \in {"up_mutex", "up_full", "up_cum"})

CumTokens ==
    count["N"] + count["S"] = cum_sem.permits + OnItsWay("N") + OnItsWay("S")
          + One(/\ pc[Flag] \in {"down_mutex2", "choose", "down_full", "take"}
                /\ ~WaitsOn(cum_sem, Flag))

(* The first car gives the road a direction. *)
DirectionSet == direction = " " => honked = "N" /\ \A d \in Directions : count[d] = 0

(* The flagperson looks for a car where there is one. *)
CarChosen == pc[Flag] \in {"down_full", "take"} => count[side] > 0

(* Once the flagperson has found both ends empty the next car honks. *)
HornReset ==
    pc[Flag] \in {"up_mutex1", "down_cum"} \/ WaitsOn(cum_sem, Flag) =>
        honked = "N" \/ \E d \in Directions : count[d] > 0

TrafficInv ==
    /\ SemShape /\ DataShape /\ PcShape
    /\ WaitersKnown /\ MutexInv
    /\ \A d \in Directions : FullTokens(d) /\ EmptyTokens(d)
    /\ CumTokens /\ DirectionSet /\ CarChosen /\ HornReset

LEMMA InitInv == Init => TrafficInv
<1> SUFFICES ASSUME Init PROVE TrafficInv
  OBVIOUS
<1>1. BufferSize \in Nat \ {0} /\ CarRange \in Nat \ {0}
  BY TrafficSimAssumption
<1>2. /\ \A d \in Directions :
            /\ SemInv(empty[d]) /\ empty[d].permits = BufferSize /\ NoWaiter(empty[d])
            /\ SemInv(full[d]) /\ full[d].permits = 0 /\ NoWaiter(full[d])
      /\ SemInv(mutex) /\ mutex.permits = 1 /\ NoWaiter(mutex)
      /\ SemInv(cum_sem) /\ cum_sem.permits = 0 /\ NoWaiter(cum_sem)
  BY <1>1, SemFresh DEF Init
<1>3. /\ pc[Flag] = "down_mutex1" /\ \A d \in Directions : pc[d] \in {"down_empty", "none"}
      /\ pc \in [Procs -> ProducerLabels \cup FlagLabels]
  BY DEF Init, Procs, Producers, Directions, Flag, ProducerLabels, FlagLabels
<1>4. /\ empty \in [Directions -> SemType] /\ full \in [Directions -> SemType]
      /\ total_cars = 0 /\ direction = " " /\ honked = "N" /\ side = "N" /\ car_num = None
      /\ count = [d \in Directions |-> 0]
      /\ buffer = [d \in Directions |-> [i \in Slots |-> 0]]
      /\ in = [d \in Directions |-> 0] /\ out = [d \in Directions |-> 0]
  BY <1>2 DEF Init, SemInv
<1>5. SemShape /\ PcShape
  <2>1. pc[Flag] \in FlagLabels /\ \A d \in Directions : pc[d] \in ProducerLabels
    BY <1>3 DEF FlagLabels, ProducerLabels
  <2> QED
    BY <1>2, <1>3, <1>4, <2>1 DEF SemShape, PcShape
<1>11. DataShape
  <2>1. 0 \in Cars /\ 0 \in Slots
    BY <1>1 DEF Cars, Slots
  <2>2. /\ buffer \in [Directions -> [Slots -> Cars]]
        /\ in \in [Directions -> Slots] /\ out \in [Directions -> Slots]
    BY <1>4, <2>1
  <2>3. count \in [Directions -> Int]
    <3>1. 0 \in Int
      OBVIOUS
    <3> QED
      BY <1>4, <3>1, Zenon
  <2>4. side \in Directions
    BY <1>4 DEF Directions
  <2> QED
    BY <1>4, <2>1, <2>2, <2>3, <2>4 DEF DataShape
<1>6. WaitersKnown
  BY <1>2 DEF WaitersKnown, NoWaiter
<1>7. MutexInv
  BY <1>2, <1>3 DEF MutexInv, MutexExcludes, InCriticalSection, Procs, Producers
<1>8. ASSUME NEW d \in Directions PROVE FullTokens(d) /\ EmptyTokens(d)
  <2>1. count[d] = 0 /\ empty[d].permits = BufferSize /\ full[d].permits = 0
    BY <1>2, <1>4
  <2> QED
    BY <1>1, <1>3, <2>1 DEF FullTokens, EmptyTokens, One
<1>9. CumTokens
  <2>1. OnItsWay("N") = 0 /\ OnItsWay("S") = 0 /\ count["N"] = 0 /\ count["S"] = 0
    BY <1>3, <1>4 DEF OnItsWay, One, Directions
  <2> QED
    BY <1>2, <1>3, <2>1 DEF CumTokens, One
<1>10. DirectionSet /\ CarChosen /\ HornReset
  BY <1>2, <1>3, <1>4 DEF DirectionSet, CarChosen, HornReset
<1> QED
  BY <1>5, <1>6, <1>7, <1>8, <1>9, <1>10, <1>11 DEF TrafficInv

--------------------------------------------------------------------------------
(* What the steps of one process leave alone. *)

LEMMA Roles ==
    /\ Flag \in Procs /\ Flag \notin Directions
    /\ Producers = Directions /\ Directions = {"N", "S"} /\ Flag # "N" /\ Flag # "S"
    /\ \A p \in Procs : p = Flag \/ p \in Directions
    /\ \A d \in Directions : /\ d \in Procs /\ d # Flag /\ d # " "
                            /\ Opposite(d) \in Directions /\ Opposite(d) # d
    /\ \A d, e \in Directions : e = d \/ e = Opposite(d)
BY DEF Flag, Procs, Producers, Directions, Opposite

Free(p) ==
    /\ ~WaitsOn(mutex, p) /\ ~WaitsOn(cum_sem, p)
    /\ \A d \in Directions : ~WaitsOn(empty[d], p) /\ ~WaitsOn(full[d], p)

LEMMA Moves ==
    ASSUME PcShape, NEW p \in Procs, NEW from, NEW to, Step(p, from, to),
           to \in (IF p = Flag THEN FlagLabels ELSE ProducerLabels)
    PROVE  /\ PcShape' /\ Free(p)
           /\ pc[p] = from /\ pc'[p] = to
           /\ \A q \in Procs \ {p} : pc'[q] = pc[q]
<1>1. /\ pc[p] = from /\ pc' = [pc EXCEPT ![p] = to] /\ Free(p)
  BY DEF Step, Blocked, Free
<1>2. to \in ProducerLabels \cup FlagLabels
  OBVIOUS
<1>3. /\ pc' \in [Procs -> ProducerLabels \cup FlagLabels]
      /\ pc'[p] = to /\ \A q \in Procs \ {p} : pc'[q] = pc[q]
  BY <1>1, <1>2 DEF PcShape
<1>4. pc'[Flag] \in FlagLabels /\ \A d \in Directions : pc'[d] \in ProducerLabels
  BY <1>3, Roles DEF PcShape
<1> QED
  BY <1>1, <1>3, <1>4 DEF PcShape

LEMMA WaitersNext ==
    ASSUME WaitersKnown, NEW p \in Procs, Free(p),
           \A q \in Procs \ {p} : pc'[q] = pc[q],
           \A q \in Procs : WaitsOn(mutex', q) =>
               WaitsOn(mutex, q) \/ (q = p /\ pc'[q] \in {"arrive", "check", "choose"}),
           \A d \in Directions, q \in Procs : WaitsOn(empty'[d], q) =>
               WaitsOn(empty[d], q) \/ (q = p /\ q = d /\ pc'[q] = "down_mutex"),
           \A d \in Directions, q \in Procs : WaitsOn(full'[d], q) =>
               WaitsOn(full[d], q) \/ (q = p /\ q = Flag /\ pc'[q] = "take" /\ side' = d),
           \A q \in Procs : WaitsOn(cum_sem', q) =>
               WaitsOn(cum_sem, q) \/ (q = p /\ q = Flag /\ pc'[q] = "down_mutex2"),
           side' = side \/ p = Flag
    PROVE  WaitersKnown'
BY DEF WaitersKnown, Free

CriticalLabels == {"arrive", "up_mutex", "check", "up_mutex1", "choose",
                   "down_full", "take", "up_mutex2"}

LEMMA MutexKeep ==
    ASSUME MutexInv, mutex' = mutex, NEW p \in Procs,
           \A q \in Procs \ {p} : pc'[q] = pc[q],
           pc'[p] \in CriticalLabels => pc[p] \in CriticalLabels
    PROVE  MutexInv'
<1>1. \A q \in Procs : InCriticalSection(q)' => InCriticalSection(q)
  BY DEF InCriticalSection, CriticalLabels
<1> QED
  BY <1>1 DEF MutexInv, MutexExcludes

LEMMA MutexDown ==
    ASSUME MutexInv, SemInv(mutex), NEW p \in Procs, mutex' = Down(mutex, p),
           ~WaitsOn(mutex, p), pc[p] \notin CriticalLabels,
           \A q \in Procs \ {p} : pc'[q] = pc[q]
    PROVE  /\ SemInv(mutex') /\ MutexInv'
           /\ \A q \in Procs : WaitsOn(mutex', q) => WaitsOn(mutex, q) \/ q = p
<1>1. mutex.permits \in Nat /\ mutex.permits <= 1
  BY SemHasPermits DEF MutexInv
<1>2. SemInv(mutex')
  BY DownEffect
<1>3. CASE /\ mutex'.permits = mutex.permits - 1 /\ mutex.permits > 0
           /\ NoWaiter(mutex) /\ NoWaiter(mutex')
  <2>1. \A q \in Procs \ {p} : ~InCriticalSection(q)'
    BY <1>1, <1>3 DEF MutexInv, InCriticalSection, NoWaiter
  <2> QED
    BY <1>1, <1>2, <1>3, <2>1 DEF MutexInv, MutexExcludes, NoWaiter
<1>4. CASE /\ mutex'.permits = mutex.permits /\ mutex.permits = 0
           /\ \A q \in Procs : WaitsOn(mutex', q) <=> WaitsOn(mutex, q) \/ q = p
  <2>1. \A q \in Procs : InCriticalSection(q)' => InCriticalSection(q)
    BY <1>4 DEF InCriticalSection
  <2> QED
    BY <1>2, <1>4, <2>1 DEF MutexInv, MutexExcludes
<1> QED
  BY <1>3, <1>4, DownEffect

LEMMA MutexUp ==
    ASSUME MutexInv, SemInv(mutex), NEW p \in Procs, mutex' = Up(mutex),
           ~WaitsOn(mutex, p), pc[p] \in CriticalLabels, pc'[p] \notin CriticalLabels,
           \A q \in Procs \ {p} : pc'[q] = pc[q]
    PROVE  /\ SemInv(mutex') /\ MutexInv'
           /\ \A q \in Procs : WaitsOn(mutex', q) => WaitsOn(mutex, q)
<1>1. /\ mutex.permits = 0 /\ InCriticalSection(p) /\ ~InCriticalSection(p)'
      /\ SemInv(mutex')
  BY SemHasPermits, UpEffect DEF MutexInv, InCriticalSection, CriticalLabels
<1>2. \A q \in Procs : InCriticalSection(q) => q = p
  BY <1>1 DEF MutexInv, MutexExcludes
<1>3. CASE mutex'.permits = mutex.permits + 1 /\ NoWaiter(mutex) /\ NoWaiter(mutex')
  <2>1. \A q \in Procs : ~InCriticalSection(q)'
    BY <1>1, <1>2, <1>3 DEF InCriticalSection, NoWaiter
  <2> QED
    BY <1>1, <1>3, <2>1 DEF MutexInv, MutexExcludes, NoWaiter
<1>4. ASSUME mutex'.permits = mutex.permits,
             NEW h \in Procs, WaitsOn(mutex, h),
             \A q \in Procs : WaitsOn(mutex', q) <=> WaitsOn(mutex, q) /\ q # h
      PROVE  MutexInv' /\ \A q \in Procs : WaitsOn(mutex', q) => WaitsOn(mutex, q)
  <2>1. \A q \in Procs : InCriticalSection(q)' => q = h
    BY <1>1, <1>2, <1>4 DEF InCriticalSection
  <2> QED
    BY <1>1, <1>4, <2>1 DEF MutexInv, MutexExcludes
<1> QED
  BY <1>1, <1>3, <1>4, UpEffect

LEMMA ModRange ==
    ASSUME NEW a \in Nat, NEW n \in Nat \ {0}
    PROVE  a % n \in 0 .. n - 1
OBVIOUS

LEMMA Indices ==
    /\ \A c \in Cars : (c + 1) % CarRange \in Cars
    /\ \A i \in Slots : NextSlot(i) \in Slots
<1>1. BufferSize \in Nat \ {0} /\ CarRange \in Nat \ {0}
  BY TrafficSimAssumption
<1>2. \A c \in Cars : c + 1 \in Nat
  BY <1>1 DEF Cars
<1>3. \A i \in Slots : i + 1 \in Nat
  BY <1>1 DEF Slots
<1> QED
  BY <1>1, <1>2, <1>3, ModRange DEF Cars, Slots, NextSlot

--------------------------------------------------------------------------------
(* The producers. *)

LEMMA DownEmptyKeeps ==
    ASSUME TrafficInv, NEW d \in Directions, DownEmpty(d)
    PROVE  TrafficInv'
<1> USE DEF TrafficInv
<1>1. /\ Free(d) /\ pc[d] = "down_empty" /\ pc'[d] = "down_mutex" /\ PcShape'
      /\ \A q \in Procs \ {d} : pc'[q] = pc[q]
  <2>1. Step(d, "down_empty", "down_mutex") /\ "down_mutex" \in ProducerLabels
    BY DEF DownEmpty, ProducerLabels
  <2> QED
    BY <2>1, Moves, Roles
<1>2. /\ empty' = [empty EXCEPT ![d] = Down(empty[d], d)]
      /\ UNCHANGED <<full, mutex, cum_sem, total_cars, direction, honked, count, buffer, in, out,
                     side, car_num>>
  BY DEF DownEmpty, shared
<1>3. /\ empty'[d] = Down(empty[d], d) /\ \A e \in Directions : e # d => empty'[e] = empty[e]
      /\ SemInv(empty'[d])
      /\ \/ empty'[d].permits = empty[d].permits - 1 /\ NoWaiter(empty'[d])
         \/ empty'[d].permits = empty[d].permits
            /\ \A q \in Procs : WaitsOn(empty'[d], q) <=> WaitsOn(empty[d], q) \/ q = d
  BY <1>1, <1>2, DownEffect, Roles DEF SemShape, Free
<1>4. SemShape' /\ DataShape'
  <2>1. empty' \in [Directions -> SemType]
    BY <1>2, <1>3 DEF SemShape, SemInv
  <2> QED
    BY <1>2, <1>3, <2>1 DEF SemShape, DataShape
<1>5. WaitersKnown'
  <2>1. \A e \in Directions, q \in Procs : WaitsOn(empty'[e], q) =>
            WaitsOn(empty[e], q) \/ (q = d /\ q = e)
    BY <1>3, Roles DEF NoWaiter
  <2> QED
    BY <1>1, <1>2, <2>1, WaitersNext, Roles
<1>6. MutexInv'
  BY <1>1, <1>2, MutexKeep, Roles DEF CriticalLabels
<1>7. ASSUME NEW e \in Directions PROVE FullTokens(e)' /\ EmptyTokens(e)'
  <2>1. FullTokens(e)'
    BY <1>1, <1>2, Roles DEF FullTokens, One
  <2>2. empty[e].permits \in Nat /\ count[e] \in Int
    BY SemHasPermits DEF SemShape, DataShape
  <2>3. EmptyTokens(e)'
    BY <1>1, <1>2, <1>3, <2>2, Roles DEF EmptyTokens, One, NoWaiter
  <2> QED
    BY <2>1, <2>3
<1>8. CumTokens'
  <2>1. \A e \in Directions : OnItsWay(e)' = OnItsWay(e)
    BY <1>1, Roles DEF OnItsWay, One
  <2> QED
    BY <1>1, <1>2, <2>1, Roles DEF CumTokens
<1>9. DirectionSet' /\ CarChosen' /\ HornReset'
  BY <1>1, <1>2, Roles DEF DirectionSet, CarChosen, HornReset
<1> QED
  BY <1>1, <1>4, <1>5, <1>6, <1>7, <1>8, <1>9

LEMMA DownMutexKeeps ==
    ASSUME TrafficInv, NEW d \in Directions, DownMutex(d)
    PROVE  TrafficInv'
<1> USE DEF TrafficInv
<1>1. /\ Free(d) /\ pc[d] = "down_mutex" /\ pc'[d] = "arrive" /\ PcShape'
      /\ \A q \in Procs \ {d} : pc'[q] = pc[q]
  <2>1. Step(d, "down_mutex", "arrive") /\ "arrive" \in ProducerLabels
    BY DEF DownMutex, ProducerLabels
  <2> QED
    BY <2>1, Moves, Roles
<1>2. /\ mutex' = Down(mutex, d)
      /\ UNCHANGED <<empty, full, cum_sem, total_cars, direction, honked, count, buffer, in, out,
                     side, car_num>>
  BY DEF DownMutex, shared
<1>3. /\ SemInv(mutex') /\ MutexInv'
      /\ \A q \in Procs : WaitsOn(mutex', q) => WaitsOn(mutex, q) \/ q = d
  BY <1>1, <1>2, MutexDown, Roles DEF SemShape, Free, CriticalLabels
<1>4. SemShape' /\ DataShape'
  BY <1>2, <1>3 DEF SemShape, DataShape
<1>5. WaitersKnown'
  BY <1>1, <1>2, <1>3, WaitersNext, Roles
<1>6. ASSUME NEW e \in Directions PROVE FullTokens(e)' /\ EmptyTokens(e)'
  <2>1. FullTokens(e)'
    BY <1>1, <1>2, Roles DEF FullTokens, One
  <2>2. EmptyTokens(e)'
    BY <1>1, <1>2, Roles DEF EmptyTokens, One, Free
  <2> QED
    BY <2>1, <2>2
<1>7. CumTokens'
  <2>1. \A e \in Directions : OnItsWay(e)' = OnItsWay(e)
    BY <1>1, Roles DEF OnItsWay, One
  <2> QED
    BY <1>1, <1>2, <2>1, Roles DEF CumTokens
<1>8. DirectionSet' /\ CarChosen' /\ HornReset'
  BY <1>1, <1>2, Roles DEF DirectionSet, CarChosen, HornReset
<1> QED
  BY <1>1, <1>3, <1>4, <1>5, <1>6, <1>7, <1>8

LEMMA ArriveKeeps ==
    ASSUME TrafficInv, NEW d \in Directions, Arrive(d)
    PROVE  TrafficInv'
<1> USE DEF TrafficInv
<1>1. /\ Free(d) /\ pc[d] = "arrive" /\ pc'[d] = "up_mutex" /\ PcShape'
      /\ \A q \in Procs \ {d} : pc'[q] = pc[q]
  <2>1. Step(d, "arrive", "up_mutex") /\ "up_mutex" \in ProducerLabels
    BY DEF Arrive, ProducerLabels
  <2> QED
    BY <2>1, Moves, Roles
<1>2. /\ total_cars' = (total_cars + 1) % CarRange
      /\ buffer' = [buffer EXCEPT ![d][in[d]] = total_cars']
      /\ in' = [in EXCEPT ![d] = NextSlot(in[d])]
      /\ count' = [count EXCEPT ![d] = count[d] + 1]
      /\ honked' = "Y" /\ direction' = IF honked = "N" THEN d ELSE direction
      /\ UNCHANGED <<empty, full, mutex, cum_sem, out, side, car_num>>
  BY DEF Arrive, sems
<1>3. \A e \in Directions : /\ full[e].permits \in Nat /\ empty[e].permits \in Nat
                            /\ count[e] \in Int
                            /\ count'[e] = IF e = d THEN count[e] + 1 ELSE count[e]
  BY <1>2, SemHasPermits DEF SemShape, DataShape
<1>4. DataShape'
  <2>1. total_cars' \in Cars
    BY <1>2, Indices DEF DataShape
  <2>2. NextSlot(in[d]) \in Slots
    BY Indices DEF DataShape
  <2>3. in' \in [Directions -> Slots] /\ buffer' \in [Directions -> [Slots -> Cars]]
    BY <1>2, <2>1, <2>2 DEF DataShape
  <2>4. count' \in [Directions -> Int]
    <3>1. count[d] + 1 \in Int
      BY <1>3
    <3> QED
      BY <1>2, <3>1, Zenon DEF DataShape
  <2>5. honked' \in {"N", "Y"} /\ direction' \in Directions \cup {" "}
    BY <1>2 DEF DataShape
  <2> QED
    BY <1>2, <2>1, <2>3, <2>4, <2>5 DEF DataShape
<1>5. SemShape' /\ WaitersKnown'
  <2>1. SemShape'
    BY <1>2 DEF SemShape
  <2> QED
    BY <1>1, <1>2, <2>1, WaitersNext, Roles
<1>6. MutexInv'
  BY <1>1, <1>2, MutexKeep, Roles DEF CriticalLabels
<1>7. ASSUME NEW e \in Directions PROVE FullTokens(e)' /\ EmptyTokens(e)'
  <2>1. FullTokens(e)'
    BY <1>1, <1>2, <1>3, Roles DEF FullTokens, One
  <2>2. EmptyTokens(e)'
    BY <1>1, <1>2, <1>3, Roles DEF EmptyTokens, One, Free
  <2> QED
    BY <2>1, <2>2
<1>8. CumTokens'
  <2>1. OnItsWay(d) = 0 /\ OnItsWay(d)' = 1 /\ OnItsWay(Opposite(d))' = OnItsWay(Opposite(d))
    BY <1>1, Roles DEF OnItsWay, One
  <2>2. cum_sem.permits \in Nat
    BY SemHasPermits DEF SemShape
  <2>3. pc'[Flag] = pc[Flag] /\ cum_sem' = cum_sem
    BY <1>1, <1>2, Roles
  <2>4. CASE d = "N"
    BY <1>3, <2>1, <2>2, <2>3, <2>4 DEF CumTokens, One, OnItsWay, Opposite, Directions
  <2>5. CASE d = "S"
    BY <1>3, <2>1, <2>2, <2>3, <2>5 DEF CumTokens, One, OnItsWay, Opposite, Directions
  <2> QED
    BY <2>4, <2>5, Roles
<1>9. ASSUME NEW e \in Directions PROVE count[e] >= 0
  BY <1>3 DEF FullTokens, One
<1>10. DirectionSet' /\ CarChosen' /\ HornReset'
  <2>1. DirectionSet'
    BY <1>2, Roles DEF DirectionSet
  <2>2. CarChosen'
    <3>1. pc'[Flag] = pc[Flag] /\ side' = side /\ side \in Directions
      BY <1>1, <1>2, Roles DEF DataShape
    <3> QED
      BY <1>3, <3>1 DEF CarChosen
  <2>3. count'[d] > 0
    BY <1>3, <1>9
  <2> QED
    BY <2>1, <2>2, <2>3 DEF HornReset
<1> QED
  BY <1>1, <1>4, <1>5, <1>6, <1>7, <1>8, <1>10

LEMMA UpMutexKeeps ==
    ASSUME TrafficInv, NEW d \in Directions, UpMutex(d)
    PROVE  TrafficInv'
<1> USE DEF TrafficInv
<1>1. /\ Free(d) /\ pc[d] = "up_mutex" /\ pc'[d] = "up_full" /\ PcShape'
      /\ \A q \in Procs \ {d} : pc'[q] = pc[q]
  <2>1. Step(d, "up_mutex", "up_full") /\ "up_full" \in ProducerLabels
    BY DEF UpMutex, ProducerLabels
  <2> QED
    BY <2>1, Moves, Roles
<1>2. /\ mutex' = Up(mutex)
      /\ UNCHANGED <<empty, full, cum_sem, total_cars, direction, honked, count, buffer, in, out,
                     side, car_num>>
  BY DEF UpMutex, shared
<1>3. /\ SemInv(mutex') /\ MutexInv'
      /\ \A q \in Procs : WaitsOn(mutex', q) => WaitsOn(mutex, q)
  BY <1>1, <1>2, MutexUp, Roles DEF SemShape, Free, CriticalLabels
<1>4. SemShape' /\ DataShape'
  BY <1>2, <1>3 DEF SemShape, DataShape
<1>5. WaitersKnown'
  BY <1>1, <1>2, <1>3, WaitersNext, Roles
<1>6. ASSUME NEW e \in Directions PROVE FullTokens(e)' /\ EmptyTokens(e)'
  <2>1. FullTokens(e)'
    BY <1>1, <1>2, Roles DEF FullTokens, One
  <2>2. EmptyTokens(e)'
    BY <1>1, <1>2, Roles DEF EmptyTokens, One
  <2> QED
    BY <2>1, <2>2
<1>7. CumTokens'
  <2>1. \A e \in Directions : OnItsWay(e)' = OnItsWay(e)
    BY <1>1, Roles DEF OnItsWay, One
  <2> QED
    BY <1>1, <1>2, <2>1, Roles DEF CumTokens
<1>8. DirectionSet' /\ CarChosen' /\ HornReset'
  BY <1>1, <1>2, Roles DEF DirectionSet, CarChosen, HornReset
<1> QED
  BY <1>1, <1>3, <1>4, <1>5, <1>6, <1>7, <1>8

LEMMA UpFullKeeps ==
    ASSUME TrafficInv, NEW d \in Directions, UpFull(d)
    PROVE  TrafficInv'
<1> USE DEF TrafficInv
<1>1. /\ Free(d) /\ pc[d] = "up_full" /\ pc'[d] = "up_cum" /\ PcShape'
      /\ \A q \in Procs \ {d} : pc'[q] = pc[q]
  <2>1. Step(d, "up_full", "up_cum") /\ "up_cum" \in ProducerLabels
    BY DEF UpFull, ProducerLabels
  <2> QED
    BY <2>1, Moves, Roles
<1>2. /\ full' = [full EXCEPT ![d] = Up(full[d])]
      /\ UNCHANGED <<empty, mutex, cum_sem, total_cars, direction, honked, count, buffer, in, out,
                     side, car_num>>
  BY DEF UpFull, shared
<1>3. /\ full'[d] = Up(full[d]) /\ \A e \in Directions : e # d => full'[e] = full[e]
      /\ SemInv(full'[d])
      /\ \/ full'[d].permits = full[d].permits + 1 /\ NoWaiter(full[d]) /\ NoWaiter(full'[d])
         \/ /\ full'[d].permits = full[d].permits
            /\ WaitsOn(full[d], Flag) /\ NoWaiter(full'[d])
  <2>1. full'[d] = Up(full[d]) /\ \A e \in Directions : e # d => full'[e] = full[e]
    BY <1>2 DEF SemShape
  <2>2. \A q \in Procs : WaitsOn(full[d], q) => q = Flag
    BY DEF WaitersKnown
  <2> QED
    BY <2>1, <2>2, UpEffect DEF SemShape, NoWaiter
<1>4. SemShape' /\ DataShape'
  <2>1. full' \in [Directions -> SemType]
    BY <1>2, <1>3 DEF SemShape, SemInv
  <2> QED
    BY <1>2, <1>3, <2>1 DEF SemShape, DataShape
<1>5. WaitersKnown'
  <2>1. \A e \in Directions, q \in Procs : WaitsOn(full'[e], q) => WaitsOn(full[e], q)
    BY <1>3, Roles DEF NoWaiter
  <2> QED
    BY <1>1, <1>2, <2>1, WaitersNext, Roles
<1>6. MutexInv'
  BY <1>1, <1>2, MutexKeep, Roles DEF CriticalLabels
<1>7. ASSUME NEW e \in Directions PROVE FullTokens(e)' /\ EmptyTokens(e)'
  <2>1. full[e].permits \in Nat /\ count[e] \in Int
    BY SemHasPermits DEF SemShape, DataShape
  <2>2. WaitsOn(full[d], Flag) => pc[Flag] = "take" /\ side = d
    BY Roles DEF WaitersKnown
  <2>3. FullTokens(e)'
    BY <1>1, <1>2, <1>3, <2>1, <2>2, Roles DEF FullTokens, One, NoWaiter
  <2>4. EmptyTokens(e)'
    BY <1>1, <1>2, Roles DEF EmptyTokens, One
  <2> QED
    BY <2>3, <2>4
<1>8. CumTokens'
  <2>1. \A e \in Directions : OnItsWay(e)' = OnItsWay(e)
    BY <1>1, Roles DEF OnItsWay, One
  <2> QED
    BY <1>1, <1>2, <2>1, Roles DEF CumTokens
<1>9. DirectionSet' /\ CarChosen' /\ HornReset'
  BY <1>1, <1>2, Roles DEF DirectionSet, CarChosen, HornReset
<1> QED
  BY <1>1, <1>4, <1>5, <1>6, <1>7, <1>8, <1>9

LEMMA UpCumKeeps ==
    ASSUME TrafficInv, NEW d \in Directions, UpCum(d)
    PROVE  TrafficInv'
<1> USE DEF TrafficInv
<1>1. /\ Free(d) /\ pc[d] = "up_cum" /\ pc'[d] = "down_empty" /\ PcShape'
      /\ \A q \in Procs \ {d} : pc'[q] = pc[q]
  <2>1. Step(d, "up_cum", "down_empty") /\ "down_empty" \in ProducerLabels
    BY DEF UpCum, ProducerLabels
  <2> QED
    BY <2>1, Moves, Roles
<1>2. /\ cum_sem' = Up(cum_sem)
      /\ UNCHANGED <<empty, full, mutex, total_cars, direction, honked, count, buffer, in, out,
                     side, car_num>>
  BY DEF UpCum, shared
<1>3. /\ SemInv(cum_sem') /\ NoWaiter(cum_sem')
      /\ \/ cum_sem'.permits = cum_sem.permits + 1 /\ NoWaiter(cum_sem)
         \/ cum_sem'.permits = cum_sem.permits /\ WaitsOn(cum_sem, Flag)
  <2>1. \A q \in Procs : WaitsOn(cum_sem, q) => q = Flag
    BY DEF WaitersKnown
  <2> QED
    BY <1>2, <2>1, UpEffect DEF SemShape, NoWaiter
<1>4. SemShape' /\ DataShape'
  BY <1>2, <1>3 DEF SemShape, DataShape
<1>5. WaitersKnown'
  BY <1>1, <1>2, <1>3, WaitersNext, Roles DEF NoWaiter
<1>6. MutexInv'
  BY <1>1, <1>2, MutexKeep, Roles DEF CriticalLabels
<1>7. ASSUME NEW e \in Directions PROVE FullTokens(e)' /\ EmptyTokens(e)'
  <2>1. FullTokens(e)'
    BY <1>1, <1>2, Roles DEF FullTokens, One
  <2>2. EmptyTokens(e)'
    BY <1>1, <1>2, Roles DEF EmptyTokens, One
  <2> QED
    BY <2>1, <2>2
<1>8. CumTokens'
  <2>1. OnItsWay(d) = 1 /\ OnItsWay(d)' = 0 /\ OnItsWay(Opposite(d))' = OnItsWay(Opposite(d))
    BY <1>1, Roles DEF OnItsWay, One
  <2>2. cum_sem.permits \in Nat /\ \A e \in Directions : count[e] \in Int /\ OnItsWay(e) \in Nat
    BY SemHasPermits DEF SemShape, DataShape, OnItsWay, One
  <2>3. pc'[Flag] = pc[Flag] /\ count' = count /\ (WaitsOn(cum_sem, Flag) => pc[Flag] = "down_mutex2")
    BY <1>1, <1>2, Roles DEF WaitersKnown
  <2>4. CASE d = "N"
    <3>1. OnItsWay("N") = 1 /\ OnItsWay("N")' = 0 /\ OnItsWay("S")' = OnItsWay("S")
      BY <2>1, <2>4 DEF Opposite
    <3> QED
      BY <1>3, <2>2, <2>3, <3>1, Roles DEF CumTokens, One, NoWaiter
  <2>5. CASE d = "S"
    <3>1. OnItsWay("S") = 1 /\ OnItsWay("S")' = 0 /\ OnItsWay("N")' = OnItsWay("N")
      BY <2>1, <2>5 DEF Opposite
    <3> QED
      BY <1>3, <2>2, <2>3, <3>1, Roles DEF CumTokens, One, NoWaiter
  <2> QED
    BY <2>4, <2>5, Roles
<1>9. DirectionSet' /\ CarChosen' /\ HornReset'
  BY <1>1, <1>2, <1>3, Roles DEF DirectionSet, CarChosen, HornReset, NoWaiter
<1> QED
  BY <1>1, <1>4, <1>5, <1>6, <1>7, <1>8, <1>9

--------------------------------------------------------------------------------
(* The flagperson. *)

LEMMA FlagDownMutexKeeps ==
    ASSUME TrafficInv, FlagDownMutex
    PROVE  TrafficInv'
<1> USE DEF TrafficInv
<1>1. /\ Free(Flag) /\ PcShape'
      /\ \/ pc[Flag] = "down_mutex1" /\ pc'[Flag] = "check"
         \/ pc[Flag] = "down_mutex2" /\ pc'[Flag] = "choose"
      /\ \A q \in Procs \ {Flag} : pc'[q] = pc[q]
  <2>1. "check" \in FlagLabels /\ "choose" \in FlagLabels
    BY DEF FlagLabels
  <2>2. CASE Step(Flag, "down_mutex1", "check")
    BY <2>1, <2>2, Moves, Roles
  <2>3. CASE Step(Flag, "down_mutex2", "choose")
    BY <2>1, <2>3, Moves, Roles
  <2> QED
    BY <2>2, <2>3 DEF FlagDownMutex
<1>2. /\ mutex' = Down(mutex, Flag)
      /\ UNCHANGED <<empty, full, cum_sem, total_cars, direction, honked, count, buffer, in, out,
                     side, car_num>>
  BY DEF FlagDownMutex, shared
<1>3. /\ SemInv(mutex') /\ MutexInv'
      /\ \A q \in Procs : WaitsOn(mutex', q) => WaitsOn(mutex, q) \/ q = Flag
  BY <1>1, <1>2, MutexDown, Roles DEF SemShape, Free, CriticalLabels
<1>4. SemShape' /\ DataShape'
  BY <1>2, <1>3 DEF SemShape, DataShape
<1>5. WaitersKnown'
  BY <1>1, <1>2, <1>3, WaitersNext, Roles
<1>6. ASSUME NEW e \in Directions PROVE FullTokens(e)' /\ EmptyTokens(e)'
  <2>1. FullTokens(e)'
    BY <1>1, <1>2, Roles DEF FullTokens, One
  <2>2. EmptyTokens(e)'
    BY <1>1, <1>2, Roles DEF EmptyTokens, One
  <2> QED
    BY <2>1, <2>2
<1>7. CumTokens'
  <2>1. \A e \in Directions : OnItsWay(e)' = OnItsWay(e)
    BY <1>1, Roles DEF OnItsWay, One
  <2> QED
    BY <1>1, <1>2, <2>1, Roles DEF CumTokens, Free, One
<1>8. DirectionSet' /\ CarChosen' /\ HornReset'
  BY <1>1, <1>2, Roles DEF DirectionSet, CarChosen, HornReset, Free
<1> QED
  BY <1>1, <1>3, <1>4, <1>5, <1>6, <1>7, <1>8

LEMMA CheckKeeps ==
    ASSUME TrafficInv, Check
    PROVE  TrafficInv'
<1> USE DEF TrafficInv
<1>1. /\ Free(Flag) /\ pc[Flag] = "check" /\ pc'[Flag] = "up_mutex1" /\ PcShape'
      /\ \A q \in Procs \ {Flag} : pc'[q] = pc[q]
  <2>1. Step(Flag, "check", "up_mutex1") /\ "up_mutex1" \in FlagLabels
    BY DEF Check, FlagLabels
  <2> QED
    BY <2>1, Moves, Roles
<1>2. /\ honked' = IF \A d \in Directions : count[d] = 0 THEN "N" ELSE honked
      /\ UNCHANGED <<empty, full, mutex, cum_sem, total_cars, direction, count, buffer, in, out,
                     side, car_num>>
  BY DEF Check, sems
<1>3. SemShape' /\ DataShape'
  BY <1>2 DEF SemShape, DataShape
<1>4. WaitersKnown'
  BY <1>1, <1>2, WaitersNext, Roles
<1>5. MutexInv'
  BY <1>1, <1>2, MutexKeep, Roles DEF CriticalLabels
<1>6. ASSUME NEW e \in Directions PROVE count[e] >= 0 /\ FullTokens(e)' /\ EmptyTokens(e)'
  <2>1. FullTokens(e)'
    BY <1>1, <1>2, Roles DEF FullTokens, One
  <2>2. EmptyTokens(e)'
    BY <1>1, <1>2, Roles DEF EmptyTokens, One
  <2>3. count[e] >= 0
    BY SemHasPermits DEF FullTokens, One, SemShape
  <2> QED
    BY <2>1, <2>2, <2>3
<1>7. CumTokens'
  <2>1. \A e \in Directions : OnItsWay(e)' = OnItsWay(e)
    BY <1>1, Roles DEF OnItsWay, One
  <2> QED
    BY <1>1, <1>2, <2>1, Roles DEF CumTokens, One
<1>8. DirectionSet' /\ CarChosen'
  BY <1>1, <1>2, Roles DEF DirectionSet, CarChosen
<1>9. HornReset'
  <2>1. \A e \in Directions : count[e] \in Int
    BY DEF DataShape
  <2>2. honked' = "N" \/ \E e \in Directions : count[e] > 0
    BY <1>2, <1>6, <2>1
  <2> QED
    BY <1>2, <2>2 DEF HornReset
<1> QED
  BY <1>1, <1>3, <1>4, <1>5, <1>6, <1>7, <1>8, <1>9

LEMMA FlagUpMutexKeeps ==
    ASSUME TrafficInv, FlagUpMutex
    PROVE  TrafficInv'
<1> USE DEF TrafficInv
<1>1. /\ Free(Flag) /\ PcShape'
      /\ \/ pc[Flag] = "up_mutex1" /\ pc'[Flag] = "down_cum"
         \/ pc[Flag] = "up_mutex2" /\ pc'[Flag] = "up_empty"
      /\ \A q \in Procs \ {Flag} : pc'[q] = pc[q]
  <2>1. "down_cum" \in FlagLabels /\ "up_empty" \in FlagLabels
    BY DEF FlagLabels
  <2>2. CASE Step(Flag, "up_mutex1", "down_cum")
    BY <2>1, <2>2, Moves, Roles
  <2>3. CASE Step(Flag, "up_mutex2", "up_empty")
    BY <2>1, <2>3, Moves, Roles
  <2> QED
    BY <2>2, <2>3 DEF FlagUpMutex
<1>2. /\ mutex' = Up(mutex)
      /\ UNCHANGED <<empty, full, cum_sem, total_cars, direction, honked, count, buffer, in, out,
                     side, car_num>>
  BY DEF FlagUpMutex, shared
<1>3. /\ SemInv(mutex') /\ MutexInv'
      /\ \A q \in Procs : WaitsOn(mutex', q) => WaitsOn(mutex, q)
  BY <1>1, <1>2, MutexUp, Roles DEF SemShape, Free, CriticalLabels
<1>4. SemShape' /\ DataShape'
  BY <1>2, <1>3 DEF SemShape, DataShape
<1>5. WaitersKnown'
  BY <1>1, <1>2, <1>3, WaitersNext, Roles
<1>6. ASSUME NEW e \in Directions PROVE FullTokens(e)' /\ EmptyTokens(e)'
  <2>1. FullTokens(e)'
    BY <1>1, <1>2, Roles DEF FullTokens, One
  <2>2. EmptyTokens(e)'
    BY <1>1, <1>2, Roles DEF EmptyTokens, One
  <2> QED
    BY <2>1, <2>2
<1>7. CumTokens'
  <2>1. \A e \in Directions : OnItsWay(e)' = OnItsWay(e)
    BY <1>1, Roles DEF OnItsWay, One
  <2> QED
    BY <1>1, <1>2, <2>1, Roles DEF CumTokens, One
<1>8. DirectionSet' /\ CarChosen' /\ HornReset'
  BY <1>1, <1>2, Roles DEF DirectionSet, CarChosen, HornReset, Free
<1> QED
  BY <1>1, <1>3, <1>4, <1>5, <1>6, <1>7, <1>8

LEMMA DownCumKeeps ==
    ASSUME TrafficInv, DownCum
    PROVE  TrafficInv'
<1> USE DEF TrafficInv
<1>1. /\ Free(Flag) /\ pc[Flag] = "down_cum" /\ pc'[Flag] = "down_mutex2" /\ PcShape'
      /\ \A q \in Procs \ {Flag} : pc'[q] = pc[q]
  <2>1. Step(Flag, "down_cum", "down_mutex2") /\ "down_mutex2" \in FlagLabels
    BY DEF DownCum, FlagLabels
  <2> QED
    BY <2>1, Moves, Roles
<1>2. /\ cum_sem' = Down(cum_sem, Flag)
      /\ UNCHANGED <<empty, full, mutex, total_cars, direction, honked, count, buffer, in, out,
                     side, car_num>>
  BY DEF DownCum, shared
<1>3. /\ SemInv(cum_sem')
      /\ \/ cum_sem'.permits = cum_sem.permits - 1 /\ NoWaiter(cum_sem')
         \/ /\ cum_sem'.permits = cum_sem.permits
            /\ \A q \in Procs : WaitsOn(cum_sem', q) <=> WaitsOn(cum_sem, q) \/ q = Flag
  BY <1>1, <1>2, DownEffect, Roles DEF SemShape, Free
<1>4. SemShape' /\ DataShape'
  BY <1>2, <1>3 DEF SemShape, DataShape
<1>5. WaitersKnown'
  BY <1>1, <1>2, <1>3, WaitersNext, Roles DEF NoWaiter
<1>6. MutexInv'
  BY <1>1, <1>2, MutexKeep, Roles DEF CriticalLabels
<1>7. ASSUME NEW e \in Directions PROVE FullTokens(e)' /\ EmptyTokens(e)'
  <2>1. FullTokens(e)'
    BY <1>1, <1>2, Roles DEF FullTokens, One
  <2>2. EmptyTokens(e)'
    BY <1>1, <1>2, Roles DEF EmptyTokens, One
  <2> QED
    BY <2>1, <2>2
<1>8. CumTokens'
  <2>1. /\ \A e \in Directions : OnItsWay(e)' = OnItsWay(e)
        /\ OnItsWay("N") \in Nat /\ OnItsWay("S") \in Nat
    BY <1>1, Roles DEF OnItsWay, One
  <2>2. cum_sem.permits \in Nat /\ count' = count
    BY <1>2, SemHasPermits DEF SemShape
  <2> QED
    BY <1>1, <1>3, <2>1, <2>2, Roles DEF CumTokens, NoWaiter, One
<1>9. DirectionSet' /\ CarChosen' /\ HornReset'
  BY <1>1, <1>2, Roles DEF DirectionSet, CarChosen, HornReset
<1> QED
  BY <1>1, <1>4, <1>5, <1>6, <1>7, <1>8, <1>9

(* The flagperson decides: a direction is set, and the end it goes to has  *)
(* a car.                                                                  *)
LEMMA ChooseKeeps ==
    ASSUME TrafficInv, Choose
    PROVE  TrafficInv'
<1> USE DEF TrafficInv
<1>1. /\ pc[Flag] = "choose" /\ Free(Flag)
      /\ direction' = IF TurnsSign THEN Opposite(direction) ELSE direction
      /\ side' = IF direction' \in Directions THEN direction' ELSE side
      /\ Step(Flag, "choose", IF direction' \in Directions THEN "down_full" ELSE "down_mutex1")
      /\ UNCHANGED <<empty, full, mutex, cum_sem, total_cars, honked, count, buffer, in, out,
                     car_num>>
  BY DEF Choose, sems, Step, Blocked, Free
<1>2. ASSUME NEW e \in Directions PROVE count[e] \in Int /\ count[e] >= 0
  <2>1. count[e] \in Int /\ full[e].permits \in Nat
    BY SemHasPermits DEF SemShape, DataShape
  <2>2. FullTokens(e)
    OBVIOUS
  <2> QED
    BY <2>1, <2>2 DEF FullTokens, One
<1>3. count["N"] + count["S"] > 0
  <2>1. OnItsWay("N") \in Nat /\ OnItsWay("S") \in Nat /\ cum_sem.permits \in Nat
    BY SemHasPermits DEF OnItsWay, One, SemShape
  <2> QED
    BY <1>1, <2>1 DEF CumTokens, One, Free
<1>4. direction \in Directions
  <2>1. direction \in Directions \/ direction = " "
    BY DEF DataShape
  <2>2. ~(count["N"] = 0 /\ count["S"] = 0)
    BY <1>3
  <2>3. ~\A e \in Directions : count[e] = 0
    BY <2>2, Roles
  <2> QED
    BY <2>1, <2>3 DEF DirectionSet
<1>5. direction' \in Directions /\ side' = direction' /\ count[direction'] > 0
  <2>1. count[direction] > 0 \/ count[Opposite(direction)] > 0
    BY <1>2, <1>3, <1>4, Roles
  <2>2. CASE TurnsSign
    <3>1. count[direction] = 0 \/ count[Opposite(direction)] >= Threshold
      BY <2>2 DEF TurnsSign
    <3>2. count[Opposite(direction)] > 0
      BY <1>2, <1>4, <2>1, <3>1, Roles, TrafficSimAssumption
    <3> QED
      BY <1>1, <1>4, <2>2, <3>2, Roles
  <2>3. CASE ~TurnsSign
    <3>1. count[direction] > 0
      BY <1>2, <1>4, <2>3 DEF TurnsSign
    <3> QED
      BY <1>1, <1>4, <2>3, <3>1
  <2> QED
    BY <2>2, <2>3
<1>6. /\ pc'[Flag] = "down_full" /\ PcShape'
      /\ \A q \in Procs \ {Flag} : pc'[q] = pc[q]
  <2>1. Step(Flag, "choose", "down_full") /\ "down_full" \in FlagLabels
    BY <1>1, <1>5 DEF FlagLabels
  <2> QED
    BY <2>1, Moves, Roles
<1>7. SemShape' /\ DataShape'
  BY <1>1, <1>5 DEF SemShape, DataShape
<1>8. WaitersKnown'
  BY <1>1, <1>6, WaitersNext, Roles
<1>9. MutexInv'
  BY <1>1, <1>6, MutexKeep, Roles DEF CriticalLabels
<1>10. ASSUME NEW e \in Directions PROVE FullTokens(e)' /\ EmptyTokens(e)'
  <2>1. FullTokens(e)'
    BY <1>1, <1>6, Roles DEF FullTokens, One
  <2>2. EmptyTokens(e)'
    BY <1>1, <1>6, Roles DEF EmptyTokens, One
  <2> QED
    BY <2>1, <2>2
<1>11. CumTokens'
  <2>1. \A e \in Directions : OnItsWay(e)' = OnItsWay(e)
    BY <1>6, Roles DEF OnItsWay, One
  <2> QED
    BY <1>1, <1>6, <2>1, Roles DEF CumTokens, One
<1>12. DirectionSet' /\ CarChosen' /\ HornReset'
  BY <1>1, <1>5, <1>6, Roles DEF DirectionSet, CarChosen, HornReset, Free
<1> QED
  BY <1>6, <1>7, <1>8, <1>9, <1>10, <1>11, <1>12

LEMMA DownFullKeeps ==
    ASSUME TrafficInv, DownFull
    PROVE  TrafficInv'
<1> USE DEF TrafficInv
<1>1. /\ Free(Flag) /\ pc[Flag] = "down_full" /\ pc'[Flag] = "take" /\ PcShape'
      /\ \A q \in Procs \ {Flag} : pc'[q] = pc[q]
  <2>1. Step(Flag, "down_full", "take") /\ "take" \in FlagLabels
    BY DEF DownFull, FlagLabels
  <2> QED
    BY <2>1, Moves, Roles
<1>2. /\ full' = [full EXCEPT ![side] = Down(full[side], Flag)]
      /\ UNCHANGED <<empty, mutex, cum_sem, total_cars, direction, honked, count, buffer, in, out,
                     side, car_num>>
  BY DEF DownFull, shared
<1>3. /\ side \in Directions
      /\ full'[side] = Down(full[side], Flag)
      /\ \A e \in Directions : e # side => full'[e] = full[e]
      /\ SemInv(full'[side])
      /\ \/ full'[side].permits = full[side].permits - 1 /\ NoWaiter(full'[side])
         \/ /\ full'[side].permits = full[side].permits
            /\ \A q \in Procs : WaitsOn(full'[side], q) <=> WaitsOn(full[side], q) \/ q = Flag
  <2>1. /\ side \in Directions /\ full'[side] = Down(full[side], Flag)
        /\ \A e \in Directions : e # side => full'[e] = full[e]
    BY <1>2 DEF SemShape, DataShape
  <2>2. SemInv(full[side]) /\ ~WaitsOn(full[side], Flag) /\ Flag \in Procs
    BY <1>1, <2>1, Roles DEF SemShape, Free
  <2> QED
    BY <2>1, <2>2, DownEffect
<1>4. SemShape' /\ DataShape'
  <2>1. full' \in [Directions -> SemType]
    BY <1>2, <1>3 DEF SemShape, SemInv
  <2> QED
    BY <1>2, <1>3, <2>1 DEF SemShape, DataShape
<1>5. WaitersKnown'
  <2>1. \A e \in Directions, q \in Procs : WaitsOn(full'[e], q) =>
            WaitsOn(full[e], q) \/ (q = Flag /\ e = side)
    BY <1>3, Roles DEF NoWaiter
  <2> QED
    BY <1>1, <1>2, <2>1, WaitersNext, Roles
<1>6. MutexInv'
  BY <1>1, <1>2, MutexKeep, Roles DEF CriticalLabels
<1>7. ASSUME NEW e \in Directions PROVE FullTokens(e)' /\ EmptyTokens(e)'
  <2>1. full[e].permits \in Nat /\ count[e] \in Int
    BY SemHasPermits DEF SemShape, DataShape
  <2>2. FullTokens(e)'
    BY <1>1, <1>2, <1>3, <2>1, Roles DEF FullTokens, One, NoWaiter
  <2>3. EmptyTokens(e)'
    BY <1>1, <1>2, Roles DEF EmptyTokens, One
  <2> QED
    BY <2>2, <2>3
<1>8. CumTokens'
  <2>1. \A e \in Directions : OnItsWay(e)' = OnItsWay(e)
    BY <1>1, Roles DEF OnItsWay, One
  <2> QED
    BY <1>1, <1>2, <2>1, Roles DEF CumTokens, One
<1>9. DirectionSet' /\ CarChosen' /\ HornReset'
  BY <1>1, <1>2, Roles DEF DirectionSet, CarChosen, HornReset, Free
<1> QED
  BY <1>1, <1>4, <1>5, <1>6, <1>7, <1>8, <1>9

LEMMA TakeKeeps ==
    ASSUME TrafficInv, Take
    PROVE  TrafficInv'
<1> USE DEF TrafficInv
<1>1. /\ Free(Flag) /\ pc[Flag] = "take" /\ pc'[Flag] = "up_mutex2" /\ PcShape'
      /\ \A q \in Procs \ {Flag} : pc'[q] = pc[q]
  <2>1. Step(Flag, "take", "up_mutex2") /\ "up_mutex2" \in FlagLabels
    BY DEF Take, FlagLabels
  <2> QED
    BY <2>1, Moves, Roles
<1>2. /\ car_num' = buffer[side][out[side]]
      /\ count' = [count EXCEPT ![side] = count[side] - 1]
      /\ out' = [out EXCEPT ![side] = NextSlot(out[side])]
      /\ UNCHANGED <<empty, full, mutex, cum_sem, total_cars, direction, honked, buffer, in, side>>
  BY DEF Take, sems
<1>3. /\ side \in Directions
      /\ \A e \in Directions : /\ full[e].permits \in Nat /\ empty[e].permits \in Nat
                               /\ count[e] \in Int
                               /\ count'[e] = IF e = side THEN count[e] - 1 ELSE count[e]
  BY <1>2, SemHasPermits DEF SemShape, DataShape
<1>4. DataShape'
  <2>1. NextSlot(out[side]) \in Slots /\ out[side] \in Slots
    BY <1>3, Indices DEF DataShape
  <2>2. out' \in [Directions -> Slots] /\ car_num' \in Cars \cup {None}
    BY <1>2, <1>3, <2>1, ZenonT(40) DEF DataShape
  <2>3. count' \in [Directions -> Int]
    <3>1. count[side] - 1 \in Int
      BY <1>3
    <3> QED
      BY <1>2, <3>1, Zenon DEF DataShape
  <2> QED
    BY <1>2, <2>2, <2>3 DEF DataShape
<1>5. SemShape' /\ WaitersKnown'
  <2>1. SemShape'
    BY <1>2 DEF SemShape
  <2> QED
    BY <1>1, <1>2, <2>1, WaitersNext, Roles
<1>6. MutexInv'
  BY <1>1, <1>2, MutexKeep, Roles DEF CriticalLabels
<1>7. ASSUME NEW e \in Directions PROVE FullTokens(e)' /\ EmptyTokens(e)'
  <2>1. FullTokens(e)'
    BY <1>1, <1>2, <1>3, Roles DEF FullTokens, One, Free
  <2>2. EmptyTokens(e)'
    BY <1>1, <1>2, <1>3, Roles DEF EmptyTokens, One
  <2> QED
    BY <2>1, <2>2
<1>8. CumTokens'
  <2>1. /\ \A e \in Directions : OnItsWay(e)' = OnItsWay(e)
        /\ OnItsWay("N") \in Nat /\ OnItsWay("S") \in Nat
    BY <1>1, Roles DEF OnItsWay, One
  <2>2. cum_sem.permits \in Nat /\ cum_sem' = cum_sem
    BY <1>2, SemHasPermits DEF SemShape
  <2>3. count'["N"] + count'["S"] = count["N"] + count["S"] - 1
    BY <1>3, Roles
  <2> QED
    BY <1>1, <1>3, <2>1, <2>2, <2>3, Roles DEF CumTokens, Free, One
<1>9. DirectionSet' /\ CarChosen' /\ HornReset'
  <2>1. count[side] > 0
    BY <1>1 DEF CarChosen
  <2>2. direction' # " "
    <3>1. ASSUME direction = " " PROVE count[side] = 0
      BY <1>3, <3>1 DEF DirectionSet
    <3>2. count[side] # 0
      BY <1>3, <2>1
    <3>3. direction' = direction
      BY <1>2
    <3> QED
      BY <3>1, <3>2, <3>3
  <2>3. pc'[Flag] = "up_mutex2" /\ ~WaitsOn(cum_sem', Flag)
    BY <1>1, <1>2 DEF Free
  <2> QED
    BY <2>2, <2>3 DEF DirectionSet, CarChosen, HornReset
<1> QED
  BY <1>1, <1>4, <1>5, <1>6, <1>7, <1>8, <1>9

LEMMA UpEmptyKeeps ==
    ASSUME TrafficInv, UpEmpty
    PROVE  TrafficInv'
<1> USE DEF TrafficInv
<1>1. /\ Free(Flag) /\ pc[Flag] = "up_empty" /\ pc'[Flag] = "down_mutex1" /\ PcShape'
      /\ \A q \in Procs \ {Flag} : pc'[q] = pc[q]
  <2>1. Step(Flag, "up_empty", "down_mutex1") /\ "down_mutex1" \in FlagLabels
    BY DEF UpEmpty, FlagLabels
  <2> QED
    BY <2>1, Moves, Roles
<1>2. /\ empty' = [empty EXCEPT ![side] = Up(empty[side])]
      /\ car_num' = None
      /\ UNCHANGED <<full, mutex, cum_sem, total_cars, direction, honked, count, buffer, in, out,
                     side>>
  BY DEF UpEmpty, shared
<1>3. /\ side \in Directions
      /\ empty'[side] = Up(empty[side])
      /\ \A e \in Directions : e # side => empty'[e] = empty[e]
      /\ SemInv(empty'[side])
      /\ \/ /\ empty'[side].permits = empty[side].permits + 1
            /\ NoWaiter(empty[side]) /\ NoWaiter(empty'[side])
         \/ /\ empty'[side].permits = empty[side].permits
            /\ WaitsOn(empty[side], side) /\ NoWaiter(empty'[side])
  <2>1. /\ side \in Directions /\ empty'[side] = Up(empty[side])
        /\ \A e \in Directions : e # side => empty'[e] = empty[e]
    BY <1>2 DEF SemShape, DataShape
  <2>2. \A q \in Procs : WaitsOn(empty[side], q) => q = side
    BY <2>1 DEF WaitersKnown
  <2> QED
    BY <2>1, <2>2, UpEffect DEF SemShape, NoWaiter
<1>4. SemShape' /\ DataShape'
  <2>1. empty' \in [Directions -> SemType]
    BY <1>2, <1>3 DEF SemShape, SemInv
  <2> QED
    BY <1>2, <1>3, <2>1 DEF SemShape, DataShape
<1>5. WaitersKnown'
  <2>1. \A e \in Directions, q \in Procs : WaitsOn(empty'[e], q) => WaitsOn(empty[e], q)
    BY <1>3 DEF NoWaiter
  <2> QED
    BY <1>1, <1>2, <2>1, WaitersNext, Roles
<1>6. MutexInv'
  BY <1>1, <1>2, MutexKeep, Roles DEF CriticalLabels
<1>7. ASSUME NEW e \in Directions PROVE FullTokens(e)' /\ EmptyTokens(e)'
  <2>1. FullTokens(e)'
    BY <1>1, <1>2, Roles DEF FullTokens, One
  <2>2. empty[e].permits \in Nat /\ count[e] \in Int
    BY SemHasPermits DEF SemShape, DataShape
  <2>3. WaitsOn(empty[side], side) => pc[side] = "down_mutex"
    BY <1>3, Roles DEF WaitersKnown
  <2>4. EmptyTokens(e)'
    BY <1>1, <1>2, <1>3, <2>2, <2>3, Roles DEF EmptyTokens, One, NoWaiter
  <2> QED
    BY <2>1, <2>4
<1>8. CumTokens'
  <2>1. \A e \in Directions : OnItsWay(e)' = OnItsWay(e)
    BY <1>1, Roles DEF OnItsWay, One
  <2> QED
    BY <1>1, <1>2, <2>1, Roles DEF CumTokens, One
<1>9. DirectionSet' /\ CarChosen' /\ HornReset'
  BY <1>1, <1>2, Roles DEF DirectionSet, CarChosen, HornReset, Free
<1> QED
  BY <1>1, <1>4, <1>5, <1>6, <1>7, <1>8, <1>9

--------------------------------------------------------------------------------
(* Every step keeps the invariant. *)

LEMMA ProducerKeeps ==
    ASSUME TrafficInv, NEW d \in Directions, Producer(d)
    PROVE  TrafficInv'
<1>1. CASE DownEmpty(d)
  BY <1>1, DownEmptyKeeps
<1>2. CASE DownMutex(d)
  BY <1>2, DownMutexKeeps
<1>3. CASE Arrive(d)
  BY <1>3, ArriveKeeps
<1>4. CASE UpMutex(d)
  BY <1>4, UpMutexKeeps
<1>5. CASE UpFull(d)
  BY <1>5, UpFullKeeps
<1>6. CASE UpCum(d)
  BY <1>6, UpCumKeeps
<1> QED
  BY <1>1, <1>2, <1>3, <1>4, <1>5, <1>6 DEF Producer

LEMMA FlagpersonKeeps ==
    ASSUME TrafficInv, Flagperson
    PROVE  TrafficInv'
<1>1. CASE FlagDownMutex
  BY <1>1, FlagDownMutexKeeps
<1>2. CASE Check
  BY <1>2, CheckKeeps
<1>3. CASE FlagUpMutex
  BY <1>3, FlagUpMutexKeeps
<1>4. CASE DownCum
  BY <1>4, DownCumKeeps
<1>5. CASE Choose
  BY <1>5, ChooseKeeps
<1>6. CASE DownFull
  BY <1>6, DownFullKeeps
<1>7. CASE Take
  BY <1>7, TakeKeeps
<1>8. CASE UpEmpty
  BY <1>8, UpEmptyKeeps
<1> QED
  BY <1>1, <1>2, <1>3, <1>4, <1>5, <1>6, <1>7, <1>8 DEF Flagperson

LEMMA StutterKeeps ==
    ASSUME TrafficInv, UNCHANGED vars
    PROVE  TrafficInv'
<1>1. UNCHANGED <<empty, full, mutex, cum_sem, total_cars, direction, honked, count, buffer,
                  in, out, side, car_num, pc>>
  BY DEF vars, sems, shared
<1>2. SemShape' /\ DataShape' /\ PcShape' /\ WaitersKnown'
  BY <1>1 DEF TrafficInv, SemShape, DataShape, PcShape, WaitersKnown
<1>3. MutexInv'
  BY <1>1 DEF TrafficInv, MutexInv, MutexExcludes, InCriticalSection
<1>4. (\A d \in Directions : FullTokens(d) /\ EmptyTokens(d))' /\ CumTokens'
  BY <1>1 DEF TrafficInv, FullTokens, EmptyTokens, CumTokens, OnItsWay, One
<1>5. DirectionSet' /\ CarChosen' /\ HornReset'
  BY <1>1 DEF TrafficInv, DirectionSet, CarChosen, HornReset
<1> QED
  BY <1>2, <1>3, <1>4, <1>5 DEF TrafficInv

LEMMA TrafficInvariant == SafeSpec => []TrafficInv
<1>1. TrafficInv /\ [Next]_vars => TrafficInv'
  <2> SUFFICES ASSUME TrafficInv, [Next]_vars PROVE TrafficInv'
    OBVIOUS
  <2>1. CASE Flagperson
    BY <2>1, FlagpersonKeeps
  <2>2. ASSUME NEW d \in Producers, Producer(d) PROVE TrafficInv'
    BY <2>2, ProducerKeeps, Roles
  <2>3. CASE UNCHANGED vars
    BY <2>3, StutterKeeps
  <2> QED
    BY <2>1, <2>2, <2>3 DEF Next
<1> QED
  BY <1>1, InitInv, PTL DEF SafeSpec

--------------------------------------------------------------------------------
(* What the invariant gives. *)

LEMMA CountInRange ==
    ASSUME TrafficInv, NEW d \in Directions
    PROVE  count[d] \in 0 .. BufferSize
<1> USE DEF TrafficInv
<1>1. /\ count[d] \in Int /\ full[d].permits \in Nat /\ empty[d].permits \in Nat
      /\ BufferSize \in Nat
  BY SemHasPermits, TrafficSimAssumption DEF SemShape, DataShape
<1>2. FullTokens(d) /\ EmptyTokens(d)
  OBVIOUS
<1>3. count[d] >= 0
  BY <1>1, <1>2 DEF FullTokens, One
<1>4. count[d] <= BufferSize
  BY <1>1, <1>2 DEF EmptyTokens, One
<1> QED
  BY <1>1, <1>3, <1>4

(* Every variable stays in its range: the counters of cars between 0 and   *)
(* buffer_size, and the indices inside the buffers of mmap'ed memory.      *)
THEOREM TypeCorrect == SafeSpec => []TypeOK
<1>1. ASSUME TrafficInv PROVE TypeOK
  <2> USE <1>1 DEF TrafficInv
  <2>1. \A d \in Directions : count[d] \in 0 .. BufferSize
    BY CountInRange
  <2>2. count \in [Directions -> 0 .. BufferSize]
    <3>1. count = [d \in Directions |-> count[d]]
      BY DEF DataShape
    <3> QED
      BY <2>1, <3>1, Zenon
  <2> QED
    BY <2>2 DEF TypeOK, SemShape, DataShape, PcShape, SemInv
<1> QED
  BY <1>1, TrafficInvariant, PTL

(* The shared counters, buffers and flags are touched by one process at a  *)
(* time: no two are between a down(mutex) that has returned and the next   *)
(* up(mutex), wherever they sleep in between.                              *)
THEOREM MutualExclusion == SafeSpec => []MutexExcludes
<1>1. TrafficInv => MutexExcludes
  BY DEF TrafficInv, MutexInv
<1> QED
  BY <1>1, TrafficInvariant, PTL

LEMMA OnTheirWay ==
    Cardinality({d \in Producers : pc[d] \in {"up_mutex", "up_full", "up_cum"}})
        = OnItsWay("N") + OnItsWay("S")
<1> DEFINE L == {"up_mutex", "up_full", "up_cum"}
           A == {d \in Producers : pc[d] \in L}
<1> HIDE DEF L
<1>1. CASE pc["N"] \in L /\ pc["S"] \in L
  <2>1. A = {"N"} \cup {"S"} /\ "S" \notin {"N"}
    BY <1>1, Roles
  <2>2. Cardinality(A) = 2
    <3>1. IsFiniteSet({"N"}) /\ Cardinality({"N"}) = 1
      BY FS_Singleton
    <3>2. Cardinality({"N"} \cup {"S"}) = Cardinality({"N"}) + 1
      BY <2>1, <3>1, FS_AddElement
    <3> QED
      BY <2>1, <3>1, <3>2
  <2> QED
    BY <1>1, <2>2 DEF OnItsWay, One, L
<1>2. CASE pc["N"] \in L /\ pc["S"] \notin L
  <2>1. A = {"N"}
    BY <1>2, Roles
  <2> QED
    BY <1>2, <2>1, FS_Singleton DEF OnItsWay, One, L
<1>3. CASE pc["N"] \notin L /\ pc["S"] \in L
  <2>1. A = {"S"}
    BY <1>3, Roles
  <2>2. Cardinality(A) = 1
    BY <2>1, FS_Singleton
  <2>3. OnItsWay("N") = 0 /\ OnItsWay("S") = 1
    BY <1>3 DEF OnItsWay, One, L
  <2> QED
    BY <2>2, <2>3 DEF L
<1>4. CASE pc["N"] \notin L /\ pc["S"] \notin L
  <2>1. A = {}
    BY <1>4, Roles
  <2> QED
    BY <1>4, <2>1, FS_EmptySet DEF OnItsWay, One, L
<1> QED
  BY <1>1, <1>2, <1>3, <1>4 DEF L

(* At every moment each car counted is a permit of full or one on its way  *)
(* to or from it, each slot is a permit of empty, a car, or held between   *)
(* taking and giving back, and each car will wake the flagperson once.     *)
THEOREM TokensKept == SafeSpec => []TokensMatchCars
<1>1. ASSUME TrafficInv PROVE TokensMatchCars
  <2>1. \A d \in Producers : FullTokens(d) /\ EmptyTokens(d)
    BY <1>1, Roles DEF TrafficInv
  <2>2. CumTokens
    BY <1>1 DEF TrafficInv
  <2>3. cum_sem.permits + OnItsWay("N") + OnItsWay("S")
          = cum_sem.permits + (OnItsWay("N") + OnItsWay("S"))
    <3>1. cum_sem.permits \in Nat /\ OnItsWay("N") \in Nat /\ OnItsWay("S") \in Nat
      BY <1>1, SemHasPermits DEF TrafficInv, SemShape, OnItsWay, One
    <3> QED
      BY <3>1
  <2> QED
    BY <2>1, <2>2, <2>3, OnTheirWay DEF TokensMatchCars, FullTokens, EmptyTokens, CumTokens
<1> QED
  BY <1>1, TrafficInvariant, PTL

(* The flagperson that sleeps in down(full) with the mutex held sleeps for *)
(* an up(full) the producer is about to call, past its critical section:   *)
(* the deadly embrace never closes.                                        *)
THEOREM NoDeadlyEmbrace == SafeSpec => []HoldAndWaitSafe
<1>1. ASSUME TrafficInv, NEW d \in Directions, WaitsOn(full[d], Flag)
      PROVE  d \in Producers /\ pc[d] = "up_full" /\ ~Blocked(d)
  <2> USE <1>1 DEF TrafficInv
  <2>1. pc[Flag] = "take" /\ side = d
    BY Roles DEF WaitersKnown
  <2>2. full[d].permits = 0 /\ count[d] \in Int /\ count[d] > 0
    <3>1. full[d].permits \in Nat /\ full[d].permits <= 0
      BY SemHasPermits, Roles DEF SemShape, NoWaiter
    <3>2. count[side] > 0
      BY <2>1 DEF CarChosen
    <3>3. count[d] \in Int
      BY DEF DataShape
    <3> QED
      BY <2>1, <3>1, <3>2, <3>3
  <2>3. pc[d] \in {"up_mutex", "up_full"}
    BY <1>1, <2>1, <2>2 DEF FullTokens, One
  <2>4. ~WaitsOn(mutex, Flag) /\ ~WaitsOn(mutex, d)
    BY <2>1, <2>3, Roles DEF WaitersKnown
  <2>5. pc[d] # "up_mutex"
    BY <2>1, <2>4, Roles DEF MutexInv, MutexExcludes, InCriticalSection
  <2>6. ~Blocked(d)
    <3>1. ~WaitsOn(cum_sem, d) /\ \A e \in Directions : ~WaitsOn(empty[e], d) /\ ~WaitsOn(full[e], d)
      BY <2>3, Roles DEF WaitersKnown
    <3> QED
      BY <2>4, <3>1 DEF Blocked
  <2> QED
    BY <2>3, <2>5, <2>6, Roles
<1>2. TrafficInv => HoldAndWaitSafe
  BY <1>1 DEF HoldAndWaitSafe
<1> QED
  BY <1>2, TrafficInvariant, PTL

(* Past down(cum_sem) there is a car, and the road has a direction. *)
LEMMA ACarIsThere ==
    ASSUME TrafficInv, pc[Flag] = "choose", ~Blocked(Flag)
    PROVE  direction \in Directions /\ \E d \in Directions : count[d] > 0
<1> USE DEF TrafficInv
<1>1. ASSUME NEW e \in Directions PROVE count[e] \in Int
  BY DEF DataShape
<1>2. count["N"] + count["S"] > 0
  <2>1. OnItsWay("N") \in Nat /\ OnItsWay("S") \in Nat /\ cum_sem.permits \in Nat
    BY SemHasPermits DEF OnItsWay, One, SemShape
  <2>2. ~WaitsOn(cum_sem, Flag)
    BY DEF Blocked
  <2> QED
    BY <2>1, <2>2 DEF CumTokens, One
<1>3. \E d \in Directions : count[d] > 0
  BY <1>1, <1>2, Roles
<1>4. direction \in Directions \/ direction = " "
  BY DEF DataShape
<1>5. ~\A e \in Directions : count[e] = 0
  BY <1>3
<1> QED
  BY <1>3, <1>4, <1>5 DEF DirectionSet

(* The flagperson that comes out of down(cum_sem) finds a car, and a       *)
(* direction: the loop never starts again with the mutex held.             *)
THEOREM NeverWokenInVain == SafeSpec => []WokenForACar
<1>1. TrafficInv => WokenForACar
  BY ACarIsThere DEF WokenForACar
<1> QED
  BY <1>1, TrafficInvariant, PTL

(* The flagperson sleeps with nobody on the way to wake it only when no    *)
(* car waits, and the next car will honk.                                  *)
THEOREM SleepIsSafe == SafeSpec => []SleepsOnlyWithoutCars
<1>1. ASSUME TrafficInv, WaitsOn(cum_sem, Flag),
             \A d \in Producers : pc[d] \notin {"up_mutex", "up_full", "up_cum"}
      PROVE  honked = "N" /\ \A d \in Directions : count[d] = 0
  <2> USE <1>1 DEF TrafficInv
  <2>1. ASSUME NEW e \in Directions PROVE count[e] \in Int /\ count[e] >= 0
    <3>1. count[e] \in Int /\ full[e].permits \in Nat
      BY SemHasPermits DEF SemShape, DataShape
    <3>2. FullTokens(e)
      OBVIOUS
    <3> QED
      BY <3>1, <3>2 DEF FullTokens, One
  <2>2. cum_sem.permits = 0
    <3>1. cum_sem.permits \in Nat /\ cum_sem.permits <= 0
      BY SemHasPermits, Roles DEF SemShape, NoWaiter
    <3> QED
      BY <3>1
  <2>3. OnItsWay("N") = 0 /\ OnItsWay("S") = 0
    BY <1>1, Roles DEF OnItsWay, One
  <2>4. count["N"] + count["S"] = 0
    BY <1>1, <2>2, <2>3 DEF CumTokens, One
  <2>5. \A d \in Directions : count[d] = 0
    BY <2>1, <2>4, Roles
  <2> QED
    BY <2>5 DEF HornReset
<1>2. TrafficInv => SleepsOnlyWithoutCars
  BY <1>1 DEF SleepsOnlyWithoutCars
<1> QED
  BY <1>2, TrafficInvariant, PTL

(* The three waits of the flagperson, each safe from its own part of the   *)
(* invariant (lines 68, 131-174).                                          *)
THEOREM WaitsSafe == SafeSpec => []WaitsAreSafe
BY NoDeadlyEmbrace, NeverWokenInVain, SleepIsSafe, PTL DEF WaitsAreSafe

--------------------------------------------------------------------------------
(* The construction zone: the buffers are queues of cars. *)

LEMMA DivMod ==
    ASSUME NEW n \in Nat, NEW w \in Nat \ {0}
    PROVE  /\ n \div w \in Int /\ n % w \in 0 .. w - 1
           /\ n = w * (n \div w) + (n % w)
<1>1. n \div w \in Int
  BY SMT
<1>2. n % w \in 0 .. w - 1
  BY SMT
<1>3. n = w * (n \div w) + (n % w)
  BY SMT
<1> QED
  BY <1>1, <1>2, <1>3

(* An index runs at most once beyond the end of its buffer. *)
LEMMA Wraps ==
    ASSUME NEW n \in Nat, n < 2 * BufferSize
    PROVE  n % BufferSize = IF n < BufferSize THEN n ELSE n - BufferSize
<1> DEFINE w == BufferSize  q == n \div w  m == n % w
<1>0. w \in Nat /\ w # 0
  BY TrafficSimAssumption
<1>1. q \in Int /\ m \in 0 .. w - 1 /\ n = w * q + m
  BY <1>0, DivMod
<1> HIDE DEF w, q, m
<1>2. q >= 0
  <2>1. SUFFICES ASSUME q <= -1 PROVE FALSE
    BY <1>1, SMT
  <2>2. w * q <= -w
    BY <1>0, <1>1, <2>1, SMT
  <2> QED
    BY <1>0, <1>1, <2>2, SMT
<1>3. q <= 1
  <2>1. SUFFICES ASSUME q >= 2 PROVE FALSE
    BY <1>1, SMT
  <2>2. w * q >= 2 * w
    BY <1>0, <1>1, <2>1, SMT
  <2>3. n < 2 * w
    BY DEF w
  <2> QED
    BY <1>0, <1>1, <2>2, <2>3, SMT
<1>4. q = 0 \/ q = 1
  BY <1>1, <1>2, <1>3
<1>5. m = IF n < w THEN n ELSE n - w
  <2>1. CASE q = 0
    <3>1. w * q = 0
      BY <1>0, <2>1, SMT
    <3> QED
      BY <1>0, <1>1, <3>1, SMT
  <2>2. CASE q = 1
    <3>1. w * q = w
      BY <1>0, <2>2, SMT
    <3> QED
      BY <1>0, <1>1, <3>1, SMT
  <2> QED
    BY <1>4, <2>1, <2>2
<1> QED
  BY <1>5 DEF w, m

(* The place of the i-th car. *)
SlotOf(d, i) == (out[d] + i - 1) % BufferSize

LEMMA SlotOfIs ==
    ASSUME DataShape, NEW d \in Directions, NEW i \in 1 .. BufferSize + 1
    PROVE  /\ out[d] \in 0 .. BufferSize - 1 /\ BufferSize \in Nat
           /\ SlotOf(d, i) = IF out[d] + i - 1 < BufferSize THEN out[d] + i - 1
                             ELSE (out[d] + i - 1) - BufferSize
           /\ i <= BufferSize => SlotOf(d, i) \in Slots
<1>1. out[d] \in 0 .. BufferSize - 1 /\ BufferSize \in Nat
  BY TrafficSimAssumption DEF DataShape, Slots
<1>2. out[d] + i - 1 \in Nat /\ out[d] + i - 1 < 2 * BufferSize
  BY <1>1
<1>3. SlotOf(d, i) = IF out[d] + i - 1 < BufferSize THEN out[d] + i - 1
                     ELSE (out[d] + i - 1) - BufferSize
  <2> DEFINE n == out[d] + i - 1
  <2>1. n \in Nat /\ n < 2 * BufferSize /\ SlotOf(d, i) = n % BufferSize
    BY <1>2 DEF SlotOf
  <2> HIDE DEF n
  <2>2. SlotOf(d, i) = IF n < BufferSize THEN n ELSE n - BufferSize
    BY <2>1, Wraps
  <2> QED
    BY <2>2, Zenon DEF n
<1>4. i <= BufferSize => SlotOf(d, i) \in Slots
  BY <1>1, <1>3 DEF Slots
<1> QED
  BY <1>1, <1>3, <1>4

NextSlotOf(d) == (out[d] + count[d]) % BufferSize

(* The producers fill the slot behind the last car; a car is in the        *)
(* flagperson's hands between its turn and the end of its crossing; a      *)
(* direction is set with the horn only while no car waits.                 *)
QueueInv ==
    /\ \A d \in Directions : in[d] = NextSlotOf(d)
    /\ car_num # None <=> pc[Flag] \in {"up_mutex2", "up_empty"}
    /\ honked = "N" => \A d \in Directions : count[d] = 0

(* The producer that numbers a car has a slot for it. *)
LEMMA SlotForArrival ==
    ASSUME TrafficInv, NEW d \in Directions, Arrive(d)
    PROVE  count[d] < BufferSize
<1> USE DEF TrafficInv
<1>1. /\ count[d] \in Int /\ empty[d].permits \in Nat /\ BufferSize \in Nat
  BY SemHasPermits, TrafficSimAssumption DEF SemShape, DataShape
<1>2. pc[d] = "arrive" /\ ~WaitsOn(empty[d], d)
  BY DEF Arrive, Step, Blocked
<1> QED
  BY <1>1, <1>2 DEF EmptyTokens, One

LEMMA RoadIsQueue ==
    ASSUME TrafficInv, NEW d \in Directions
    PROVE  /\ Road(d) \in Seq(Cars) /\ Len(Road(d)) = count[d]
           /\ Road(d) = [i \in 1 .. count[d] |-> buffer[d][SlotOf(d, i)]]
           /\ Road(d) = <<>> <=> count[d] = 0
<1> DEFINE n == count[d]
<1>1. n \in 0 .. BufferSize /\ BufferSize \in Nat
  BY CountInRange, TrafficSimAssumption
<1>2. Road(d) = [i \in 1 .. n |-> buffer[d][SlotOf(d, i)]]
  BY DEF Road, SlotOf
<1>3. \A i \in 1 .. n : buffer[d][SlotOf(d, i)] \in Cars
  <2> SUFFICES ASSUME NEW i \in 1 .. n PROVE buffer[d][SlotOf(d, i)] \in Cars
    OBVIOUS
  <2>1. i \in 1 .. BufferSize + 1 /\ i <= BufferSize
    BY <1>1
  <2>2. SlotOf(d, i) \in Slots
    BY <2>1, SlotOfIs DEF TrafficInv
  <2> QED
    BY <2>2 DEF TrafficInv, DataShape
<1> HIDE DEF n
<1>4. Road(d) \in Seq(Cars) /\ Len(Road(d)) = n
  <2>1. n \in Nat
    BY <1>1
  <2> QED
    BY <1>2, <1>3, <2>1
<1>5. Road(d) = <<>> <=> n = 0
  BY <1>4
<1> QED
  BY <1>2, <1>4, <1>5 DEF n

LEMMA NextSlotIs ==
    ASSUME TrafficInv, NEW d \in Directions
    PROVE  /\ NextSlotOf(d) = SlotOf(d, count[d] + 1)
           /\ \A i \in 1 .. count[d] : count[d] < BufferSize => SlotOf(d, i) # NextSlotOf(d)
<1>1. count[d] \in 0 .. BufferSize /\ BufferSize \in Nat /\ out[d] \in 0 .. BufferSize - 1
  BY CountInRange, TrafficSimAssumption DEF TrafficInv, DataShape, Slots
<1>2. NextSlotOf(d) = SlotOf(d, count[d] + 1)
  <2>1. out[d] + (count[d] + 1) - 1 = out[d] + count[d]
    BY <1>1
  <2> QED
    BY <2>1 DEF NextSlotOf, SlotOf
<1>3. ASSUME NEW i \in 1 .. count[d], count[d] < BufferSize
      PROVE  SlotOf(d, i) # SlotOf(d, count[d] + 1)
  <2>1. i \in 1 .. BufferSize + 1 /\ count[d] + 1 \in 1 .. BufferSize + 1
    BY <1>1
  <2>2. SlotOf(d, i) = IF out[d] + i - 1 < BufferSize THEN out[d] + i - 1
                       ELSE (out[d] + i - 1) - BufferSize
    BY <2>1, SlotOfIs DEF TrafficInv
  <2>3. SlotOf(d, count[d] + 1) = IF out[d] + (count[d] + 1) - 1 < BufferSize THEN out[d] + (count[d] + 1) - 1
                                  ELSE (out[d] + (count[d] + 1) - 1) - BufferSize
    BY <2>1, SlotOfIs DEF TrafficInv
  <2> QED
    BY <1>1, <1>3, <2>2, <2>3
<1> QED
  BY <1>2, <1>3

LEMMA QueueInit == ASSUME Init PROVE QueueInv
<1>1. BufferSize \in Nat \ {0}
  BY TrafficSimAssumption
<1>2. /\ pc[Flag] = "down_mutex1" /\ car_num = None
      /\ \A d \in Directions : in[d] = 0 /\ out[d] = 0 /\ count[d] = 0
  BY Roles DEF Init
<1>3. 0 % BufferSize = 0
  BY <1>1, Wraps
<1> QED
  BY <1>2, <1>3 DEF QueueInv, NextSlotOf

(* A step that does not touch the queues. *)
LEMMA QueueRests ==
    ASSUME QueueInv, UNCHANGED <<in, out, count, car_num>>, honked' = "N" => honked = "N",
           pc'[Flag] \in {"up_mutex2", "up_empty"} <=> pc[Flag] \in {"up_mutex2", "up_empty"}
    PROVE  QueueInv'
BY DEF QueueInv, NextSlotOf

(* The flagperson and a producer are told apart by their labels. *)
LEMMA FlagMoves ==
    ASSUME PcShape, NEW p \in Procs, NEW from, NEW to, Step(p, from, to)
    PROVE  /\ p = Flag => pc[Flag] = from /\ pc'[Flag] = to
           /\ p # Flag => pc'[Flag] = pc[Flag]
BY Roles DEF Step, PcShape

LEMMA ArriveQueues ==
    ASSUME TrafficInv, QueueInv, NEW d \in Directions, Arrive(d)
    PROVE  QueueInv'
<1>1. /\ in' = [in EXCEPT ![d] = NextSlot(in[d])]
      /\ count' = [count EXCEPT ![d] = count[d] + 1]
      /\ honked' = "Y" /\ UNCHANGED <<out, car_num>>
  BY DEF Arrive
<1>2. pc'[Flag] = pc[Flag]
  BY FlagMoves, Roles DEF Arrive, TrafficInv
<1>3. ASSUME NEW e \in Directions
      PROVE  in'[e] = NextSlotOf(e)'
  <2>1. CASE e # d
    <3>1. in'[e] = in[e] /\ count'[e] = count[e] /\ out'[e] = out[e]
      BY <1>1, <2>1 DEF TrafficInv, DataShape
    <3> QED
      BY <3>1 DEF QueueInv, NextSlotOf
  <2>2. CASE e = d
    <3> DEFINE c == count[d]  o == out[d]  w == BufferSize
    <3>1. /\ c \in 0 .. w /\ c < w /\ w \in Nat /\ o \in 0 .. w - 1
      BY CountInRange, SlotForArrival, TrafficSimAssumption DEF TrafficInv, DataShape, Slots
    <3>2. in'[d] = (in[d] + 1) % w /\ in[d] = (o + c) % w /\ NextSlotOf(d)' = (o + (c + 1)) % w
      BY <1>1 DEF TrafficInv, DataShape, QueueInv, NextSlotOf, NextSlot
    <3> HIDE DEF c, o
    <3>3. (o + c) % w = IF o + c < w THEN o + c ELSE o + c - w
      BY <3>1, Wraps
    <3>4. (o + (c + 1)) % w = IF o + (c + 1) < w THEN o + (c + 1) ELSE o + (c + 1) - w
      BY <3>1, Wraps
    <3>5. in[d] \in 0 .. w - 1 /\ (in[d] + 1) % w = IF in[d] + 1 < w THEN in[d] + 1 ELSE in[d] + 1 - w
      <4>1. in[d] \in 0 .. w - 1
        BY <3>1, <3>2, <3>3
      <4> QED
        BY <3>1, <4>1, Wraps
    <3>6. (in[d] + 1) % w = (o + (c + 1)) % w
      BY <3>1, <3>2, <3>3, <3>4, <3>5
    <3> QED
      BY <2>2, <3>2, <3>6
  <2> QED
    BY <2>1, <2>2
<1> QED
  BY <1>1, <1>2, <1>3 DEF QueueInv

LEMMA TakeQueues ==
    ASSUME TrafficInv, QueueInv, Take
    PROVE  QueueInv'
<1>1. /\ car_num' = buffer[side][out[side]]
      /\ count' = [count EXCEPT ![side] = count[side] - 1]
      /\ out' = [out EXCEPT ![side] = NextSlot(out[side])]
      /\ UNCHANGED <<honked, in>>
  BY DEF Take
<1>2. pc[Flag] = "take" /\ pc'[Flag] = "up_mutex2" /\ side \in Directions /\ count[side] > 0
  BY FlagMoves, Roles DEF Take, TrafficInv, DataShape, CarChosen
<1>3. car_num' # None
  <2>1. car_num' \in Cars
    BY <1>1, <1>2 DEF TrafficInv, DataShape
  <2> QED
    BY <2>1, TrafficSimAssumption DEF Cars
<1>4. ASSUME NEW e \in Directions
      PROVE  in'[e] = NextSlotOf(e)'
  <2>1. CASE e # side
    <3>1. in'[e] = in[e] /\ count'[e] = count[e] /\ out'[e] = out[e]
      BY <1>1, <2>1 DEF TrafficInv, DataShape
    <3> QED
      BY <3>1 DEF QueueInv, NextSlotOf
  <2>2. CASE e = side
    <3> DEFINE c == count[side]  o == out[side]  w == BufferSize
    <3>1. /\ c \in 1 .. w /\ w \in Nat /\ o \in 0 .. w - 1
      <4>1. count[side] \in 0 .. BufferSize
        BY <1>2, CountInRange
      <4>2. out[side] \in 0 .. BufferSize - 1 /\ BufferSize \in Nat
        BY <1>2, TrafficSimAssumption DEF TrafficInv, DataShape, Slots
      <4> QED
        BY <1>2, <4>1, <4>2
    <3>2. /\ out'[e] = (o + 1) % w /\ count'[e] = c - 1
          /\ in'[e] = (o + c) % w /\ NextSlotOf(e)' = (out'[e] + count'[e]) % w
      BY <1>1, <1>2, <2>2 DEF TrafficInv, DataShape, QueueInv, NextSlotOf, NextSlot
    <3> HIDE DEF c, o
    <3>3. (o + c) % w = IF o + c < w THEN o + c ELSE o + c - w
      BY <3>1, Wraps
    <3>4. (o + 1) % w = IF o + 1 < w THEN o + 1 ELSE o + 1 - w
      BY <3>1, Wraps
    <3> DEFINE p == (o + 1) % w
    <3>5. p \in 0 .. w - 1
      BY <3>1, <3>4
    <3>6. p = IF o + 1 < w THEN o + 1 ELSE o + 1 - w
      BY <3>4
    <3> HIDE DEF p
    <3>7. (p + (c - 1)) % w = IF p + (c - 1) < w THEN p + (c - 1) ELSE p + (c - 1) - w
      BY <3>1, <3>5, Wraps
    <3>8. (p + (c - 1)) % w = (o + c) % w
      BY <3>1, <3>3, <3>5, <3>6, <3>7
    <3> QED
      BY <3>2, <3>8 DEF p
  <2> QED
    BY <2>1, <2>2
<1>5. honked' # "N"
  BY <1>1, <1>2 DEF QueueInv
<1> QED
  BY <1>2, <1>3, <1>4, <1>5 DEF QueueInv

LEMMA QueueKept == ASSUME TrafficInv, QueueInv, [Next]_vars PROVE QueueInv'
<1> USE Roles
<1>0. PcShape
  BY DEF TrafficInv
<1>1. ASSUME NEW d \in Directions, DownEmpty(d) \/ DownMutex(d) \/ UpMutex(d) \/ UpFull(d) \/ UpCum(d)
      PROVE  QueueInv'
  <2>1. UNCHANGED shared /\ UNCHANGED car_num
    BY <1>1 DEF DownEmpty, DownMutex, UpMutex, UpFull, UpCum
  <2>2. pc'[Flag] = pc[Flag]
    BY <1>0, <1>1, FlagMoves DEF DownEmpty, DownMutex, UpMutex, UpFull, UpCum
  <2> QED
    BY <2>1, <2>2, QueueRests DEF shared
<1>2. CASE FlagDownMutex \/ Check \/ FlagUpMutex \/ DownCum \/ Choose \/ DownFull
  <2>1. UNCHANGED <<in, out, count, car_num>>
    BY <1>2 DEF FlagDownMutex, Check, FlagUpMutex, DownCum, Choose, DownFull, shared
  <2>2. pc'[Flag] \in {"up_mutex2", "up_empty"} <=> pc[Flag] \in {"up_mutex2", "up_empty"}
    <3>1. CASE FlagDownMutex
      BY <1>0, <3>1, FlagMoves DEF FlagDownMutex
    <3>2. CASE Check
      BY <1>0, <3>2, FlagMoves DEF Check
    <3>3. CASE FlagUpMutex
      BY <1>0, <3>3, FlagMoves DEF FlagUpMutex
    <3>4. CASE DownCum
      BY <1>0, <3>4, FlagMoves DEF DownCum
    <3>5. CASE Choose
      <4>1. PICK to \in {"down_full", "down_mutex1"} : Step(Flag, "choose", to)
        BY <3>5 DEF Choose
      <4> QED
        BY <1>0, <4>1, FlagMoves
    <3>6. CASE DownFull
      BY <1>0, <3>6, FlagMoves DEF DownFull
    <3> QED
      BY <1>2, <3>1, <3>2, <3>3, <3>4, <3>5, <3>6
  <2>3. CASE Check
    <3>1. honked' = IF \A d \in Directions : count[d] = 0 THEN "N" ELSE honked
      BY <2>3 DEF Check
    <3> QED
      BY <2>1, <2>2, <3>1 DEF QueueInv, NextSlotOf
  <2>4. CASE ~Check
    <3>1. honked' = honked
      BY <1>2, <2>4 DEF FlagDownMutex, FlagUpMutex, DownCum, Choose, DownFull, shared
    <3> QED
      BY <2>1, <2>2, <3>1, QueueRests
  <2> QED
    BY <2>3, <2>4
<1>3. CASE UpEmpty
  <2>1. UNCHANGED <<in, out, count, honked>> /\ car_num' = None
    BY <1>3 DEF UpEmpty, shared
  <2>2. pc'[Flag] = "down_mutex1"
    BY <1>0, <1>3, FlagMoves DEF UpEmpty
  <2> QED
    BY <2>1, <2>2 DEF QueueInv, NextSlotOf
<1>4. CASE UNCHANGED vars
  BY <1>4 DEF vars, shared, QueueInv, NextSlotOf
<1>5. ASSUME NEW d \in Directions, Producer(d) PROVE QueueInv'
  BY <1>1, <1>5, ArriveQueues DEF Producer
<1>6. CASE Flagperson
  BY <1>2, <1>3, <1>6, TakeQueues DEF Flagperson
<1> QED
  BY <1>4, <1>5, <1>6 DEF Next

--------------------------------------------------------------------------------
(* The steps of the program as steps of the zone. *)

ZoneRoad == [d \in Directions |-> Road(d)]
ZoneFlow == IF direction = " " THEN None ELSE direction
ZoneChosen == IF pc[Flag] \in {"down_full", "take"} THEN side ELSE None

LEMMA ZoneRests ==
    ASSUME UNCHANGED <<total_cars, direction, count, buffer, out, side, car_num>>,
           pc'[Flag] \in {"down_full", "take"} <=> pc[Flag] \in {"down_full", "take"}
    PROVE  UNCHANGED (Zone!vars)
<1>1. ZoneRoad' = ZoneRoad
  BY DEF ZoneRoad, Road
<1>2. ZoneFlow' = ZoneFlow /\ ZoneChosen' = ZoneChosen
  BY DEF ZoneFlow, ZoneChosen
<1> QED
  BY <1>1, <1>2 DEF Zone!vars, ZoneRoad, ZoneFlow, ZoneChosen

LEMMA ZoneStarts == ASSUME Init PROVE Zone!Init
<1>1. /\ total_cars = 0 /\ direction = " " /\ pc[Flag] = "down_mutex1" /\ car_num = None
      /\ \A d \in Directions : count[d] = 0
  BY Roles DEF Init
<1>2. \A d \in Directions : Road(d) = <<>>
  BY <1>1, InitInv, RoadIsQueue
<1>3. ZoneRoad = [d \in Directions |-> <<>>]
  BY <1>2 DEF ZoneRoad
<1> QED
  BY <1>1, <1>3 DEF Zone!Init, Zone!Directions, Directions, ZoneRoad

(* The car of a producer joins its end of the road. *)
LEMMA ArriveJoins ==
    ASSUME TrafficInv, QueueInv, TrafficInv', NEW d \in Directions, Arrive(d)
    PROVE  Zone!Arrive(d)
<1>1. /\ total_cars' = (total_cars + 1) % CarRange
      /\ buffer' = [buffer EXCEPT ![d][in[d]] = total_cars']
      /\ count' = [count EXCEPT ![d] = count[d] + 1]
      /\ direction' = IF honked = "N" THEN d ELSE direction
      /\ UNCHANGED <<out, side, car_num>>
  BY DEF Arrive
<1>2. pc'[Flag] = pc[Flag]
  BY FlagMoves, Roles DEF Arrive, TrafficInv
<1> DEFINE c == count[d]
<1>3. c \in Nat /\ c < BufferSize /\ BufferSize \in Nat
  BY CountInRange, SlotForArrival, TrafficSimAssumption
<1>4. /\ Road(d) \in Seq(Cars) /\ Len(Road(d)) = c
      /\ Road(d) = [i \in 1 .. c |-> buffer[d][SlotOf(d, i)]]
  BY RoadIsQueue
<1>5. total_cars' \in Cars /\ in[d] \in Slots /\ count'[d] = c + 1
  BY <1>1 DEF TrafficInv, DataShape
<1>6. \A e \in Directions : e # d => Road(e)' = Road(e)
  BY <1>1 DEF Road, TrafficInv, DataShape
<1>7. Road(d)' = Append(Road(d), total_cars')
  <2> DEFINE new == [i \in 1 .. c + 1 |-> buffer'[d][SlotOf(d, i)]]
  <2>1. Road(d)' = new
    BY <1>1, <1>5 DEF Road, SlotOf
  <2>2. /\ \A i \in 1 .. c : SlotOf(d, i) \in Slots /\ SlotOf(d, i) # in[d]
        /\ SlotOf(d, c + 1) = in[d]
    <3>1. in[d] = SlotOf(d, c + 1) /\ \A i \in 1 .. c : SlotOf(d, i) # in[d]
      BY <1>3, NextSlotIs DEF QueueInv
    <3>2. ASSUME NEW i \in 1 .. c PROVE SlotOf(d, i) \in Slots
      <4>1. i \in 1 .. BufferSize + 1 /\ i <= BufferSize
        BY <1>3
      <4> QED
        BY <4>1, SlotOfIs DEF TrafficInv
    <3> QED
      BY <3>1, <3>2
  <2>3. /\ \A s \in Slots : s # in[d] => buffer'[d][s] = buffer[d][s]
        /\ buffer'[d][in[d]] = total_cars'
    BY <1>1, <1>5 DEF TrafficInv, DataShape
  <2>4. new \in Seq(Cars) /\ Len(new) = c + 1
    <3>1. \A i \in 1 .. c + 1 : buffer'[d][SlotOf(d, i)] \in Cars
      <4> SUFFICES ASSUME NEW i \in 1 .. c + 1 PROVE buffer'[d][SlotOf(d, i)] \in Cars
        OBVIOUS
      <4>1. SlotOf(d, i) \in Slots
        <5>1. i \in 1 .. c \/ i = c + 1
          BY <1>3
        <5> QED
          BY <1>5, <2>2, <5>1
      <4> QED
        BY <4>1 DEF TrafficInv, DataShape
    <3>2. c + 1 \in Nat
      BY <1>3
    <3> QED
      BY <3>1, <3>2
  <2>5. /\ Append(Road(d), total_cars') \in Seq(Cars) /\ Len(Append(Road(d), total_cars')) = c + 1
        /\ \A i \in 1 .. c : Append(Road(d), total_cars')[i] = Road(d)[i]
        /\ Append(Road(d), total_cars')[c + 1] = total_cars'
    <3> DEFINE q == Road(d)  car == total_cars'
    <3>1. q \in Seq(Cars) /\ car \in Cars /\ Len(q) = c
      BY <1>4, <1>5
    <3> HIDE DEF q, car, c
    <3>2. /\ Append(q, car) \in Seq(Cars) /\ Len(Append(q, car)) = Len(q) + 1
          /\ \A i \in 1 .. Len(q) : Append(q, car)[i] = q[i]
          /\ Append(q, car)[Len(q) + 1] = car
      BY <3>1, AppendProperties
    <3> QED
      BY <3>1, <3>2 DEF q, car
  <2>6. ASSUME NEW i \in 1 .. c + 1
        PROVE  new[i] = Append(Road(d), total_cars')[i]
    <3>1. new[i] = buffer'[d][SlotOf(d, i)]
      OBVIOUS
    <3>2. CASE i \in 1 .. c
      <4>1. new[i] = buffer[d][SlotOf(d, i)]
        BY <2>2, <2>3, <3>1, <3>2
      <4>2. Append(Road(d), total_cars')[i] = Road(d)[i]
        BY <2>5, <3>2
      <4>3. Road(d)[i] = buffer[d][SlotOf(d, i)]
        BY <1>4, <3>2
      <4> QED
        BY <4>1, <4>2, <4>3
    <3>3. CASE i = c + 1
      BY <2>2, <2>3, <2>5, <3>1, <3>3
    <3>4. i \in 1 .. c \/ i = c + 1
      BY <1>3
    <3> QED
      BY <3>2, <3>3, <3>4
  <2> HIDE DEF new
  <2>7. new = Append(Road(d), total_cars')
    BY <2>4, <2>5, <2>6, SeqEqual
  <2> QED
    BY <2>1, <2>7
<1>8. ZoneRoad' = [ZoneRoad EXCEPT ![d] = Append(ZoneRoad[d], total_cars')]
  BY <1>6, <1>7 DEF ZoneRoad
<1>9. ZoneFlow' = d \/ ZoneFlow' = ZoneFlow
  BY <1>1, Roles DEF ZoneFlow
<1>10. ZoneFlow' # ZoneFlow => \A e \in Directions : ZoneRoad[e] = <<>>
  <2>1. SUFFICES ASSUME honked = "N", NEW e \in Directions PROVE Road(e) = <<>>
    BY <1>1 DEF ZoneFlow, ZoneRoad
  <2> QED
    BY <2>1, RoadIsQueue DEF QueueInv
<1>11. ZoneChosen' = ZoneChosen
  BY <1>1, <1>2 DEF ZoneChosen
<1>12. Len(ZoneRoad[d]) < BufferSize
  BY <1>3, <1>4 DEF ZoneRoad
<1> QED
  BY <1>1, <1>8, <1>9, <1>10, <1>11, <1>12
     DEF Zone!Arrive, Zone!Directions, Directions, ZoneRoad, ZoneFlow, ZoneChosen

(* The sign of the flagperson is the sign of the zone, and the end that    *)
(* gets the road has a car.                                                *)
LEMMA ChooseCalls ==
    ASSUME TrafficInv, QueueInv, Choose
    PROVE  Zone!Choose
<1>0. pc[Flag] = "choose" /\ ~Blocked(Flag)
  BY DEF Choose, Step
<1>1. direction \in Directions /\ \E d \in Directions : count[d] > 0
  BY <1>0, ACarIsThere
<1>2. direction' = (IF TurnsSign THEN Opposite(direction) ELSE direction) /\ direction' \in Directions
  BY <1>1, Roles DEF Choose
<1>3. /\ side' = direction' /\ Step(Flag, "choose", "down_full")
      /\ UNCHANGED <<total_cars, count, buffer, out, car_num>>
  BY <1>2 DEF Choose
<1>4. pc'[Flag] = "down_full" /\ car_num = None
  BY <1>0, <1>3, FlagMoves, Roles DEF TrafficInv, QueueInv
<1>5. \A d \in Directions : Road(d) \in Seq(Cars) /\ Len(Road(d)) = count[d] /\ (Road(d) = <<>> <=> count[d] = 0)
  BY RoadIsQueue
<1>6. \A d \in Directions : count[d] \in Nat
  BY CountInRange, TrafficSimAssumption
<1>7. count[direction'] > 0
  <2>1. CASE TurnsSign
    <3>1. direction' = Opposite(direction)
      BY <1>2, <2>1
    <3>2. CASE count[direction] = 0
      BY <1>1, <1>6, <3>1, <3>2, Roles
    <3>3. CASE count[Opposite(direction)] >= Threshold
      BY <1>1, <1>6, <3>1, <3>3, Roles, TrafficSimAssumption
    <3> QED
      BY <2>1, <3>2, <3>3 DEF TurnsSign
  <2>2. CASE ~TurnsSign
    BY <1>1, <1>2, <1>6, <2>2 DEF TurnsSign
  <2> QED
    BY <2>1, <2>2
<1>8. ZoneFlow = direction /\ ZoneFlow' = direction' /\ ZoneChosen = None /\ ZoneChosen' = direction'
  BY <1>0, <1>1, <1>2, <1>3, <1>4, Roles DEF ZoneFlow, ZoneChosen
<1>9. ZoneRoad' = ZoneRoad /\ ZoneRoad[direction'] # <<>>
  <2>1. ZoneRoad' = ZoneRoad
    BY <1>3 DEF ZoneRoad, Road
  <2>2. Road(direction') # <<>>
    BY <1>2, <1>5, <1>7
  <2>3. ZoneRoad[direction'] = Road(direction')
    BY <1>2 DEF ZoneRoad
  <2> QED
    BY <2>1, <2>2, <2>3
<1>10. TurnsSign <=> \/ ZoneRoad[ZoneFlow] = <<>>
                     \/ Len(ZoneRoad[Zone!Opposite(ZoneFlow)]) >= Threshold
  <2>1. Zone!Opposite(direction) = Opposite(direction) /\ Opposite(direction) \in Directions
    BY <1>1, Roles DEF Zone!Opposite, Opposite
  <2>2. ZoneRoad[direction] = Road(direction) /\ ZoneRoad[Opposite(direction)] = Road(Opposite(direction))
    BY <1>1, <2>1 DEF ZoneRoad
  <2> QED
    BY <1>1, <1>5, <1>8, <2>1, <2>2 DEF TurnsSign
<1>11. Zone!TurnsSign <=> TurnsSign
  BY <1>10 DEF Zone!TurnsSign, ZoneRoad, ZoneFlow
<1>12. ZoneFlow' = IF Zone!TurnsSign THEN Zone!Opposite(ZoneFlow) ELSE ZoneFlow
  <2>1. Zone!Opposite(direction) = Opposite(direction)
    BY <1>1, Roles DEF Zone!Opposite, Opposite
  <2> QED
    BY <1>2, <1>8, <1>11, <2>1
<1>13. ZoneFlow \in Zone!Directions /\ ZoneRoad[ZoneFlow'] # <<>> /\ ZoneChosen' = ZoneFlow'
  BY <1>1, <1>8, <1>9 DEF Zone!Directions, Directions
<1> QED
  BY <1>3, <1>4, <1>8, <1>9, <1>12, <1>13 DEF Zone!Choose, ZoneRoad, ZoneFlow, ZoneChosen

(* The car that is taken is the oldest of its end. *)
LEMMA TakeEnters ==
    ASSUME TrafficInv, QueueInv, Take
    PROVE  Zone!Enter
<1>1. /\ car_num' = buffer[side][out[side]]
      /\ count' = [count EXCEPT ![side] = count[side] - 1]
      /\ out' = [out EXCEPT ![side] = NextSlot(out[side])]
      /\ UNCHANGED <<total_cars, direction, buffer>>
  BY DEF Take
<1>2. pc[Flag] = "take" /\ pc'[Flag] = "up_mutex2" /\ side \in Directions /\ count[side] > 0
  BY FlagMoves, Roles DEF Take, TrafficInv, DataShape, CarChosen
<1>3. SUFFICES ASSUME NEW d \in Directions, side = d PROVE Zone!Enter
  BY <1>2
<1> DEFINE c == count[d]  w == BufferSize  o == out[d]
<1>4. c \in 1 .. w /\ w \in Nat /\ o \in 0 .. w - 1
  <2>1. count[d] \in 0 .. BufferSize
    BY CountInRange
  <2>2. out[d] \in 0 .. BufferSize - 1 /\ BufferSize \in Nat
    BY TrafficSimAssumption DEF TrafficInv, DataShape, Slots
  <2> QED
    BY <1>2, <1>3, <2>1, <2>2
<1>5. /\ Road(d) \in Seq(Cars) /\ Len(Road(d)) = c /\ Road(d) # <<>>
      /\ Road(d) = [i \in 1 .. c |-> buffer[d][SlotOf(d, i)]]
  BY <1>4, RoadIsQueue
<1>6. out'[d] = (o + 1) % w /\ count'[d] = c - 1
  BY <1>1, <1>3 DEF TrafficInv, DataShape, NextSlot
<1>7. \A e \in Directions : e # d => Road(e)' = Road(e)
  BY <1>1, <1>3 DEF Road, TrafficInv, DataShape
<1>8. ASSUME NEW i \in 1 .. c - 1 PROVE (out'[d] + i - 1) % w = SlotOf(d, i + 1)
  <2>1. i + 1 \in 1 .. w + 1
    BY <1>4
  <2>2. SlotOf(d, i + 1) = IF o + (i + 1) - 1 < w THEN o + (i + 1) - 1 ELSE (o + (i + 1) - 1) - w
    BY <2>1, SlotOfIs DEF TrafficInv
  <2> DEFINE p == (o + 1) % w
  <2> HIDE DEF c, o
  <2>3. p = IF o + 1 < w THEN o + 1 ELSE o + 1 - w
    BY <1>4, Wraps
  <2>4. p \in 0 .. w - 1
    BY <1>4, <2>3
  <2> HIDE DEF p
  <2> DEFINE n == p + i - 1
  <2>5. n \in Nat /\ n < 2 * w
    BY <1>4, <2>4
  <2> HIDE DEF n
  <2>6. n % w = IF n < w THEN n ELSE n - w
    BY <2>5, Wraps
  <2>7. n % w = SlotOf(d, i + 1)
    BY <1>4, <2>2, <2>3, <2>4, <2>6 DEF n
  <2> QED
    BY <1>6, <2>7 DEF n, p
<1>9. Road(d)' = Tail(Road(d)) /\ Head(Road(d)) = car_num'
  <2>1. Road(d)' = [i \in 1 .. c - 1 |-> buffer[d][(out'[d] + i - 1) % w]]
    BY <1>1, <1>6 DEF Road
  <2>2. Road(d)' = [i \in 1 .. c - 1 |-> buffer[d][SlotOf(d, i + 1)]]
    BY <1>8, <2>1
  <2>3. /\ Tail(Road(d)) \in Seq(Cars) /\ Len(Tail(Road(d))) = c - 1
        /\ \A i \in 1 .. c - 1 : Tail(Road(d))[i] = Road(d)[i + 1]
    BY <1>4, <1>5, HeadTailProperties
  <2>4. \A i \in 1 .. c - 1 : Tail(Road(d))[i] = buffer[d][SlotOf(d, i + 1)]
    <3> SUFFICES ASSUME NEW i \in 1 .. c - 1 PROVE Tail(Road(d))[i] = buffer[d][SlotOf(d, i + 1)]
      OBVIOUS
    <3>1. i + 1 \in 1 .. c
      BY <1>4
    <3> QED
      BY <1>5, <2>3, <3>1
  <2>5. Tail(Road(d)) = [i \in 1 .. c - 1 |-> Tail(Road(d))[i]]
    <3> DEFINE t == Tail(Road(d))  n == c - 1
    <3>1. t \in Seq(Cars) /\ Len(t) = n
      BY <2>3
    <3> HIDE DEF t, n
    <3>2. t \in [1 .. n -> Cars]
      BY <3>1
    <3>3. t = [i \in 1 .. n |-> t[i]]
      BY <3>2
    <3> QED
      BY <3>3 DEF t, n
  <2>6. Road(d)' = Tail(Road(d))
    BY <2>2, <2>4, <2>5
  <2>7. Head(Road(d)) = Road(d)[1] /\ 1 \in 1 .. c
    BY <1>4, <1>5
  <2>8. SlotOf(d, 1) = o
    <3>1. 1 \in 1 .. w + 1
      BY <1>4
    <3>2. SlotOf(d, 1) = IF o + 1 - 1 < w THEN o + 1 - 1 ELSE (o + 1 - 1) - w
      BY <3>1, SlotOfIs DEF TrafficInv
    <3> QED
      BY <1>4, <3>2
  <2>9. Head(Road(d)) = buffer[d][o]
    BY <1>5, <2>7, <2>8
  <2> QED
    BY <1>1, <1>3, <2>6, <2>9
<1>10. ZoneRoad' = [ZoneRoad EXCEPT ![d] = Tail(ZoneRoad[d])] /\ Head(ZoneRoad[d]) = car_num' /\ ZoneRoad[d] # <<>>
  BY <1>5, <1>7, <1>9 DEF ZoneRoad
<1>11. ZoneChosen = d /\ ZoneChosen' = None /\ ZoneFlow' = ZoneFlow
  BY <1>1, <1>2, <1>3 DEF ZoneChosen, ZoneFlow
<1> QED
  BY <1>1, <1>10, <1>11 DEF Zone!Enter, Zone!Directions, Directions, ZoneRoad, ZoneFlow, ZoneChosen

LEMMA UpEmptyLeaves ==
    ASSUME TrafficInv, QueueInv, UpEmpty
    PROVE  Zone!Leave
<1>1. UNCHANGED <<total_cars, direction, count, buffer, out, side>> /\ car_num' = None
  BY DEF UpEmpty, shared
<1>2. pc[Flag] = "up_empty" /\ pc'[Flag] = "down_mutex1"
  BY FlagMoves, Roles DEF UpEmpty, TrafficInv
<1>3. car_num # None
  BY <1>2 DEF QueueInv
<1>4. ZoneRoad' = ZoneRoad /\ ZoneFlow' = ZoneFlow /\ ZoneChosen' = ZoneChosen
  BY <1>1, <1>2 DEF ZoneRoad, Road, ZoneFlow, ZoneChosen
<1> QED
  BY <1>1, <1>3, <1>4 DEF Zone!Leave, ZoneRoad, ZoneFlow, ZoneChosen

LEMMA ZoneSteps ==
    ASSUME TrafficInv, QueueInv, TrafficInv', [Next]_vars
    PROVE  [Zone!Next]_(Zone!vars)
<1> USE Roles
<1>0. PcShape
  BY DEF TrafficInv
<1>1. ASSUME NEW d \in Directions, DownEmpty(d) \/ DownMutex(d) \/ UpMutex(d) \/ UpFull(d) \/ UpCum(d)
      PROVE  UNCHANGED (Zone!vars)
  <2>1. UNCHANGED shared /\ UNCHANGED <<side, car_num>>
    BY <1>1 DEF DownEmpty, DownMutex, UpMutex, UpFull, UpCum
  <2>2. pc'[Flag] = pc[Flag]
    BY <1>0, <1>1, FlagMoves DEF DownEmpty, DownMutex, UpMutex, UpFull, UpCum
  <2> QED
    BY <2>1, <2>2, ZoneRests DEF shared
<1>2. CASE FlagDownMutex \/ Check \/ FlagUpMutex \/ DownCum \/ DownFull
  <2>1. UNCHANGED <<total_cars, direction, count, buffer, out, side, car_num>>
    BY <1>2 DEF FlagDownMutex, Check, FlagUpMutex, DownCum, DownFull, shared
  <2>2. pc'[Flag] \in {"down_full", "take"} <=> pc[Flag] \in {"down_full", "take"}
    <3>1. CASE FlagDownMutex
      BY <1>0, <3>1, FlagMoves DEF FlagDownMutex
    <3>2. CASE Check
      BY <1>0, <3>2, FlagMoves DEF Check
    <3>3. CASE FlagUpMutex
      BY <1>0, <3>3, FlagMoves DEF FlagUpMutex
    <3>4. CASE DownCum
      BY <1>0, <3>4, FlagMoves DEF DownCum
    <3>5. CASE DownFull
      BY <1>0, <3>5, FlagMoves DEF DownFull
    <3> QED
      BY <1>2, <3>1, <3>2, <3>3, <3>4, <3>5
  <2> QED
    BY <2>1, <2>2, ZoneRests
<1>3. ASSUME NEW d \in Directions, Producer(d) PROVE [Zone!Next]_(Zone!vars)
  <2>1. CASE Arrive(d)
    <3>1. d \in Zone!Directions
      BY DEF Zone!Directions, Directions
    <3> QED
      BY <2>1, <3>1, ArriveJoins DEF Zone!Next
  <2> QED
    BY <1>1, <1>3, <2>1 DEF Producer
<1>4. CASE Flagperson
  BY <1>2, <1>4, ChooseCalls, TakeEnters, UpEmptyLeaves DEF Flagperson, Zone!Next
<1>5. CASE UNCHANGED vars
  <2>1. UNCHANGED <<total_cars, direction, count, buffer, out, side, car_num>> /\ pc' = pc
    BY <1>5 DEF vars, shared
  <2> QED
    BY <2>1, ZoneRests
<1> QED
  BY <1>3, <1>4, <1>5 DEF Next

(* Every step of the program is a step of the construction zone or none    *)
(* that can be seen there: the safety part of ImplementsZone.  Cars enter  *)
(* the zone one at a time, in their order of arrival, from the end that    *)
(* has the road, for any size of the buffers and any threshold.            *)
THEOREM ZoneIsSafe == SafeSpec => Zone!SafeSpec
<1>1. Init => Zone!Init /\ QueueInv
  BY ZoneStarts, QueueInit
<1>2. TrafficInv /\ QueueInv /\ [Next]_vars => QueueInv'
  BY QueueKept
<1>3. TrafficInv /\ TrafficInv' /\ QueueInv /\ [Next]_vars => [Zone!Next]_(Zone!vars)
  BY ZoneSteps
<1> QED
  BY <1>1, <1>2, <1>3, TrafficInvariant, PTL DEF SafeSpec, Zone!SafeSpec
==============================================================================
