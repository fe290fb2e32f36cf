------------------------------ MODULE TrafficSim ------------------------------
(***************************************************************************)
(* project4/trafficsim.c: two producers (one for each end of the road) and *)
(* the flagperson, over shared memory and six cs1550 semaphores.           *)
(*                                                                         *)
(* A call of down() or up() is one step, by the refinement checked in      *)
(* KernelSem: a process whose down() found no permit has advanced to the   *)
(* statement after the call and is blocked there until an up() takes it    *)
(* off the queue.  The statements between down(mutex) and up(mutex) only   *)
(* touch data of the critical section and are one step; MutexExcludes      *)
(* checks that two processes are never between those calls.  The sleep()   *)
(* calls take time and change no state.                                    *)
(***************************************************************************)
EXTENDS Integers, Sequences, FiniteSets, SemOps

CONSTANTS
    BufferSize,  \* buffer_size, 24 in the program
    Threshold,   \* the queue length 8 that makes the flagperson turn
    CarRange,    \* bound: cars are numbered modulo CarRange
    None         \* no car

Directions == {"N", "S"}
Opposite(d) == IF d = "N" THEN "S" ELSE "N"

ASSUME TrafficSimAssumption ==
    /\ BufferSize \in Nat \ {0}
    /\ Threshold \in 1 .. BufferSize
    /\ CarRange \in Nat \ {0}
    /\ None \notin Nat \cup Directions

VARIABLES
    empty, full,       \* empty_n, empty_s; full_n, full_s
    mutex, cum_sem,
    total_cars,
    direction, honked,
    count,             \* count_n, count_s
    buffer,            \* n_buff_ptr, s_buff_ptr
    in, out,           \* n_in, s_in; n_out, s_out, which are only used modulo buffer_size
    side,              \* the branch the flagperson is in
    car_num,           \* the car the flagperson has taken, None outside lines 153-160
    pc

sems == <<empty, full, mutex, cum_sem>>
shared == <<total_cars, direction, honked, count, buffer, in, out>>
vars == <<sems, shared, side, car_num, pc>>

Flag == "flagperson"
Producers == Directions
Procs == Producers \cup {Flag}
Slots == 0 .. BufferSize - 1
Cars == 0 .. CarRange - 1
NextSlot(i) == (i + 1) % BufferSize

(* main().  A fork that fails is not noticed: the program goes on without  *)
(* that producer.  (With neither the flagperson sleeps for good.)          *)
Init ==
    /\ empty = [d \in Directions |-> Sem(BufferSize)]
    /\ full = [d \in Directions |-> Sem(0)]
    /\ mutex = Sem(1)
    /\ cum_sem = Sem(0)
    /\ total_cars = 0
    /\ direction = " "
    /\ honked = "N"
    /\ count = [d \in Directions |-> 0]
    /\ buffer = [d \in Directions |-> [i \in Slots |-> 0]]
    /\ in = [d \in Directions |-> 0]
    /\ out = [d \in Directions |-> 0]
    /\ side = "N"
    /\ car_num = None
    /\ \E forked \in (SUBSET Producers) \ {{}} :
          pc = [p \in Procs |-> CASE p = Flag -> "down_mutex1"
                                  [] p \in forked -> "down_empty"
                                  [] OTHER -> "none"]

Blocked(p) ==
    \/ WaitsOn(mutex, p)
    \/ WaitsOn(cum_sem, p)
    \/ \E d \in Directions : WaitsOn(empty[d], p) \/ WaitsOn(full[d], p)

(* Process p, which is not asleep in down(), goes from one label to the next. *)
Step(p, from, to) ==
    /\ pc[p] = from
    /\ ~Blocked(p)
    /\ pc' = [pc EXCEPT ![p] = to]

------------------------------------------------------------------------------
(* producerN and producerS *)

DownEmpty(d) ==
    /\ Step(d, "down_empty", "down_mutex")
    /\ empty' = [empty EXCEPT ![d] = Down(@, d)]
    /\ UNCHANGED <<full, mutex, cum_sem, shared, side, car_num>>

(* Mutant: the producer does not take the mutex. *)
NoDownMutex(d) ==
    /\ Step(d, "down_mutex", "arrive")
    /\ UNCHANGED <<sems, shared, side, car_num>>

DownMutex(d) ==
    /\ Step(d, "down_mutex", "arrive")
    /\ mutex' = Down(mutex, d)
    /\ UNCHANGED <<empty, full, cum_sem, shared, side, car_num>>

(* The critical section: number the car, store it, honk if need be. *)
Arrive(d) ==
    /\ Step(d, "arrive", "up_mutex")
    /\ total_cars' = (total_cars + 1) % CarRange
    /\ buffer' = [buffer EXCEPT ![d][in[d]] = total_cars']
    /\ in' = [in EXCEPT ![d] = NextSlot(@)]
    /\ count' = [count EXCEPT ![d] = @ + 1]
    /\ honked' = "Y"
    /\ direction' = IF honked = "N" THEN d ELSE direction
    /\ UNCHANGED <<sems, out, side, car_num>>

UpMutex(d) ==
    /\ Step(d, "up_mutex", "up_full")
    /\ mutex' = Up(mutex)
    /\ UNCHANGED <<empty, full, cum_sem, shared, side, car_num>>

UpFull(d) ==
    /\ Step(d, "up_full", "up_cum")
    /\ full' = [full EXCEPT ![d] = Up(@)]
    /\ UNCHANGED <<empty, mutex, cum_sem, shared, side, car_num>>

UpCum(d) ==
    /\ Step(d, "up_cum", "down_empty")
    /\ cum_sem' = Up(cum_sem)
    /\ UNCHANGED <<empty, full, mutex, shared, side, car_num>>

Producer(d) ==
    \/ DownEmpty(d) \/ DownMutex(d) \/ Arrive(d)
    \/ UpMutex(d) \/ UpFull(d) \/ UpCum(d)

------------------------------------------------------------------------------
(* flagperson *)

FlagDownMutex ==
    /\ \/ Step(Flag, "down_mutex1", "check")
       \/ Step(Flag, "down_mutex2", "choose")
    /\ mutex' = Down(mutex, Flag)
    /\ UNCHANGED <<empty, full, cum_sem, shared, side, car_num>>

(* Mutant: the flagperson does not ask to be woken with the horn. *)
CheckNoReset ==
    /\ Step(Flag, "check", "up_mutex1")
    /\ UNCHANGED <<sems, shared, side, car_num>>

(* "The flagperson is now asleep": the next car has to honk. *)
Check ==
    /\ Step(Flag, "check", "up_mutex1")
    /\ honked' = IF \A d \in Directions : count[d] = 0 THEN "N" ELSE honked
    /\ UNCHANGED <<sems, total_cars, direction, count, buffer, in, out, side, car_num>>

FlagUpMutex ==
    /\ \/ Step(Flag, "up_mutex1", "down_cum")
       \/ Step(Flag, "up_mutex2", "up_empty")
    /\ mutex' = Up(mutex)
    /\ UNCHANGED <<empty, full, cum_sem, shared, side, car_num>>

DownCum ==
    /\ Step(Flag, "down_cum", "down_mutex2")
    /\ cum_sem' = Down(cum_sem, Flag)
    /\ UNCHANGED <<empty, full, mutex, shared, side, car_num>>

(* Mutant: the sign is turned only when the end that has the road is empty. *)
TurnsSignIfEmpty ==
    /\ direction \in Directions
    /\ count[direction] = 0

(* The sign is turned when the current end is empty or the other is long. *)
TurnsSign ==
    /\ direction \in Directions
    /\ \/ count[direction] = 0
       \/ count[Opposite(direction)] >= Threshold

(* Decide which buffer to consume.  With no direction set neither branch   *)
(* is taken and the loop starts again, the mutex still held.               *)
Choose ==
    /\ direction' = IF TurnsSign THEN Opposite(direction) ELSE direction
    /\ LET consumes == direction' \in Directions IN
       /\ side' = IF consumes THEN direction' ELSE side
       /\ Step(Flag, "choose", IF consumes THEN "down_full" ELSE "down_mutex1")
    /\ UNCHANGED <<sems, total_cars, honked, count, buffer, in, out, car_num>>

(* The flagperson still holds the mutex here. *)
DownFull ==
    /\ Step(Flag, "down_full", "take")
    /\ full' = [full EXCEPT ![side] = Down(@, Flag)]
    /\ UNCHANGED <<empty, mutex, cum_sem, shared, side, car_num>>

(* Mutant: the car is taken from the slot the producer fills next. *)
TakeNewest ==
    /\ Step(Flag, "take", "up_mutex2")
    /\ car_num' = buffer[side][in[side]]
    /\ count' = [count EXCEPT ![side] = @ - 1]
    /\ out' = [out EXCEPT ![side] = NextSlot(@)]
    /\ UNCHANGED <<sems, total_cars, direction, honked, buffer, in, side>>

Take ==
    /\ Step(Flag, "take", "up_mutex2")
    /\ car_num' = buffer[side][out[side]]
    /\ count' = [count EXCEPT ![side] = @ - 1]
    /\ out' = [out EXCEPT ![side] = NextSlot(@)]
    /\ UNCHANGED <<sems, total_cars, direction, honked, buffer, in, side>>

(* Mutant: the slot is given back to the other end. *)
UpEmptyOtherEnd ==
    /\ Step(Flag, "up_empty", "down_mutex1")
    /\ empty' = [empty EXCEPT ![Opposite(side)] = Up(@)]
    /\ car_num' = None
    /\ UNCHANGED <<full, mutex, cum_sem, shared, side>>

(* After sleep(1) the car has left and its slot is given back. *)
UpEmpty ==
    /\ Step(Flag, "up_empty", "down_mutex1")
    /\ empty' = [empty EXCEPT ![side] = Up(@)]
    /\ car_num' = None
    /\ UNCHANGED <<full, mutex, cum_sem, shared, side>>

Flagperson ==
    \/ FlagDownMutex \/ Check \/ FlagUpMutex \/ DownCum
    \/ Choose \/ DownFull \/ Take \/ UpEmpty

Next == Flagperson \/ \E d \in Producers : Producer(d)

SafeSpec == Init /\ [][Next]_vars

(***************************************************************************)
(* Fairness: each process runs for ever and is scheduled whenever it is    *)
(* not blocked.  A blocked process is served in FIFO order, which is part  *)
(* of the semaphores, so weak fairness is enough.                          *)
(***************************************************************************)
Spec == SafeSpec /\ WF_vars(Flagperson) /\ \A d \in Producers : WF_vars(Producer(d))
------------------------------------------------------------------------------
ProducerLabels == {"none", "down_empty", "down_mutex", "arrive", "up_mutex", "up_full", "up_cum"}
FlagLabels == {"down_mutex1", "check", "up_mutex1", "down_cum", "down_mutex2", "choose",
               "down_full", "take", "up_mutex2", "up_empty"}

SemType == [permits : Nat, waiting : Seq(Procs)]

(* Every variable stays in its range; the indices stay inside the buffers. *)
TypeOK ==
    /\ empty \in [Directions -> SemType]
    /\ full \in [Directions -> SemType]
    /\ mutex \in SemType
    /\ cum_sem \in SemType
    /\ total_cars \in Cars
    /\ direction \in Directions \cup {" "}
    /\ honked \in {"N", "Y"}
    /\ count \in [Directions -> 0 .. BufferSize]
    /\ buffer \in [Directions -> [Slots -> Cars]]
    /\ in \in [Directions -> Slots]
    /\ out \in [Directions -> Slots]
    /\ side \in Directions
    /\ car_num \in Cars \cup {None}
    /\ pc \in [Procs -> ProducerLabels \cup FlagLabels]

(* Between a down(mutex) that has returned and the next up(mutex). *)
InCriticalSection(p) ==
    /\ pc[p] \in {"arrive", "up_mutex", "check", "up_mutex1", "choose",
                  "down_full", "take", "up_mutex2"}
    /\ ~WaitsOn(mutex, p)

(* The shared counters, buffers and flags are only touched by one process  *)
(* at a time, although the flagperson goes on to down(full) with the mutex *)
(* held (lines 44-65, 121-129, 132-156).                                   *)
MutexExcludes ==
    \A p, q \in Procs : InCriticalSection(p) /\ InCriticalSection(q) => p = q

(* The flagperson's down(full) under the mutex is no deadly embrace: when  *)
(* it has to sleep there (lines 152, 165), the up(full) that wakes it is   *)
(* already past the producer's critical section and needs no mutex.        *)
HoldAndWaitSafe ==
    \A d \in Directions : WaitsOn(full[d], Flag) =>
        d \in Producers /\ pc[d] = "up_full" /\ ~Blocked(d)

One(condition) == IF condition THEN 1 ELSE 0

(* The three semaphores agree with the counters at every moment: each car  *)
(* of count[d] is a permit of full[d] or one about to become or just taken *)
(* from it; each slot of the buffer is a permit of empty[d], a car, or     *)
(* held by a process between taking and giving it back; and each counted   *)
(* car will wake the flagperson once (cum_sem).                            *)
TokensMatchCars ==
    /\ \A d \in Producers :
          /\ count[d] = full[d].permits
                          + One(pc[d] \in {"up_mutex", "up_full"})
                          + One(pc[Flag] = "take" /\ side = d /\ ~WaitsOn(full[d], Flag))
          /\ BufferSize = empty[d].permits + count[d]
                          + One(pc[d] \in {"down_mutex", "arrive"} /\ ~WaitsOn(empty[d], d))
                          + One(pc[Flag] \in {"up_mutex2", "up_empty"} /\ side = d)
    /\ count["N"] + count["S"] = cum_sem.permits
          + Cardinality({d \in Producers : pc[d] \in {"up_mutex", "up_full", "up_cum"}})
          + One(/\ pc[Flag] \in {"down_mutex2", "choose", "down_full", "take"}
                /\ ~WaitsOn(cum_sem, Flag))

(* The flagperson that comes out of down(cum_sem) finds a car and a        *)
(* direction, so that the loop never starts again with the mutex held      *)
(* (lines 131-174).                                                        *)
WokenForACar ==
    pc[Flag] = "choose" /\ ~Blocked(Flag) =>
        direction \in Directions /\ \E d \in Directions : count[d] > 0

(* "Cum sem is used to sleep naturally when both queues are 0" (line 68):  *)
(* when the flagperson sleeps and no producer is on its way to wake it, no *)
(* car waits, and the next one to come will honk.                          *)
SleepsOnlyWithoutCars ==
    (/\ WaitsOn(cum_sem, Flag)
     /\ \A d \in Producers : pc[d] \notin {"up_mutex", "up_full", "up_cum"})
    => honked = "N" /\ \A d \in Directions : count[d] = 0

(* Whatever the flagperson sleeps on, it is no mistake to sleep there, and *)
(* what wakes it is what it waits for (lines 68, 131-174).                 *)
WaitsAreSafe == HoldAndWaitSafe /\ WokenForACar /\ SleepsOnlyWithoutCars

(* The cars waiting at an end of the road, oldest first. *)
Road(d) == [i \in 1 .. count[d] |-> buffer[d][(out[d] + i - 1) % BufferSize]]

Zone == INSTANCE ConstructionZone WITH
    Capacity <- BufferSize,
    total <- total_cars,
    road <- [d \in Directions |-> Road(d)],
    flow <- IF direction = " " THEN None ELSE direction,
    chosen <- IF pc[Flag] \in {"down_full", "take"} THEN side ELSE None,
    zone <- car_num

(* The program's steps are steps of the construction zone: cars enter the  *)
(* zone one at a time, in the order of arrival at their end, from the end  *)
(* that has the road, and the road changes hands only as it may there.  It *)
(* also keeps the zone's promises of progress: while cars wait, the        *)
(* flagperson calls one, and the car called enters and leaves.             *)
ImplementsZone == Zone!Spec

(* No end of the road waits for ever, and with the order of arrival kept   *)
(* no car does: the oldest car is let through, because the other end gives *)
(* up the road once this one, which keeps growing, has reached the         *)
(* threshold (line 135).                                                   *)
EveryCarLeaves ==
    \A d \in Directions, i \in Slots : count[d] > 0 /\ out[d] = i ~> out[d] # i
==============================================================================
