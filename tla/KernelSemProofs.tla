--------------------------- MODULE KernelSemProofs ---------------------------
(***************************************************************************)
(* What is proved of the semaphore system calls for every number of        *)
(* processes and of queue nodes, and every initial value.  The theorems    *)
(* about the wait list and the debt of a negative value hold even when     *)
(* kmalloc fails and signals arrive; the theorem about wakeups and the     *)
(* implementation of module Semaphore need that neither happens.           *)
(***************************************************************************)
EXTENDS KernelSem, SequenceTheorems, FiniteSetTheorems, TLAPS

USE DEF Goto, ReturnFromDown

(* A sequence of nodes is the function from 1 .. Len that the list is      *)
(* compared with.                                                          *)
LEMMA SeqFacts ==
    ASSUME NEW S, NEW s \in Seq(S)
    PROVE  /\ Len(s) \in Nat
           /\ DOMAIN s = 1 .. Len(s)
           /\ s = <<>> <=> Len(s) = 0
           /\ \A i \in 1 .. Len(s) : s[i] \in S
BY LenProperties, EmptySeq, ElementOfSeq

(* A sequence is Append(s, e) or Tail(s) when its elements are. *)
LEMMA IsAppend ==
    ASSUME NEW S, NEW s \in Seq(S), NEW e \in S, NEW t \in Seq(S),
           Len(t) = Len(s) + 1,
           \A i \in 1 .. Len(s) : t[i] = s[i],
           t[Len(s) + 1] = e
    PROVE  t = Append(s, e)
BY SeqEqual, SeqFacts, AppendProperties

LEMMA IsTail ==
    ASSUME NEW S, NEW s \in Seq(S), s # <<>>, NEW t \in Seq(S),
           Len(t) = Len(s) - 1,
           \A i \in 1 .. Len(s) - 1 : t[i] = s[i + 1]
    PROVE  t = Tail(s)
BY SeqEqual, SeqFacts, HeadTailProperties

-----------------------------------------------------------------------------
(* Type correctness. *)

LEMMA TypeInit == Init => TypeOK
BY DEF Init, TypeOK, Labels

(* The list is needed for one fact: up() finds a head to take off only     *)
(* when the queue is not empty.                                            *)
LEMMA TypeNext == TypeOK /\ ListMatchesQueue /\ [Next]_vars => TypeOK'
<1> SUFFICES ASSUME TypeOK, ListMatchesQueue, [Next]_vars
             PROVE  TypeOK'
  OBVIOUS
<1> USE DEF TypeOK, Labels
<1>1. CASE SemInit
  BY <1>1, KernelSemAssumption DEF SemInit, listVars
<1>2. ASSUME NEW p \in Procs, CallDown(p)
      PROVE  TypeOK'
  BY <1>2 DEF CallDown, listVars
<1>3. ASSUME NEW p \in Procs, CallUp(p)
      PROVE  TypeOK'
  BY <1>3 DEF CallUp, listVars
<1>4. ASSUME NEW p \in Procs, Oops(p)
      PROVE  TypeOK'
  BY <1>4 DEF Oops, listVars
<1>5. ASSUME NEW p \in Procs, DownLock(p)
      PROVE  TypeOK'
  BY <1>5 DEF DownLock, listVars
<1>6. ASSUME NEW p \in Procs, DownUnlock(p)
      PROVE  TypeOK'
  BY <1>6 DEF DownUnlock, listVars
<1>7. ASSUME NEW p \in Procs, DownNoMemory(p)
      PROVE  TypeOK'
  BY <1>7 DEF DownNoMemory, listVars
<1>8. ASSUME NEW p \in Procs, DownEnqueue(p)
      PROVE  TypeOK'
  <2>1. PICK n \in Nodes \ allocated :
            /\ allocated' = allocated \cup {n}
            /\ task' = [task EXCEPT ![n] = p]
            /\ LinkAtTail(n)
            /\ waitq' = Append(waitq, n)
    BY <1>8 DEF DownEnqueue
  <2>2. head' \in Nodes \cup {NULL} /\ tail' \in Nodes \cup {NULL}
    BY <2>1 DEF LinkAtTail
  <2>3. next' \in [Nodes -> Nodes \cup {NULL}]
    BY <2>1 DEF LinkAtTail
  <2>4. allocated' \in SUBSET Nodes /\ waitq' \in Seq(Nodes)
    BY <2>1
  <2>5. task' \in [Nodes -> Procs \cup {NULL}]
    BY <2>1
  <2> QED
    BY <1>8, <2>2, <2>3, <2>4, <2>5 DEF DownEnqueue
<1>9. ASSUME NEW p \in Procs, DownWaitUnlock(p)
      PROVE  TypeOK'
  BY <1>9 DEF DownWaitUnlock, listVars
<1>10. ASSUME NEW p \in Procs, Schedule(p)
       PROVE  TypeOK'
  BY <1>10 DEF Schedule, listVars
<1>11. ASSUME NEW p \in Procs, Signal(p)
       PROVE  TypeOK'
  BY <1>11 DEF Signal, listVars
<1>12. ASSUME NEW p \in Procs, UpLock(p)
       PROVE  TypeOK'
  BY <1>12 DEF UpLock, listVars
<1>13. ASSUME NEW p \in Procs, UpWake(p)
       PROVE  TypeOK'
  <2>1. ASSUME WakeHead
        PROVE  waitq # <<>> /\ head \in Nodes
    BY <2>1 DEF WakeHead, ListMatchesQueue
  <2>2. ASSUME WakeHead
        PROVE  TypeOK'
    <3>1. waitq' \in Seq(Nodes)
      BY <2>1, <2>2 DEF WakeHead
    <3>2. head' \in Nodes \cup {NULL} /\ tail' \in Nodes \cup {NULL}
      BY <2>1, <2>2 DEF WakeHead
    <3>3. sched' \in [Procs -> {"running", "interruptible"}]
      BY <2>2 DEF WakeHead
    <3> QED
      BY <1>13, <2>2, <3>1, <3>2, <3>3 DEF UpWake, WakeHead
  <2>3. ASSUME UNCHANGED <<listVars, sched>>
        PROVE  TypeOK'
    BY <1>13, <2>3 DEF UpWake, listVars
  <2> QED
    BY <1>13, <2>2, <2>3 DEF UpWake
<1>14. ASSUME NEW p \in Procs, UpUnlock(p)
       PROVE  TypeOK'
  BY <1>14 DEF UpUnlock, listVars
<1>15. CASE UNCHANGED vars
  BY <1>15 DEF vars, listVars
<1> QED
  BY <1>1, <1>2, <1>3, <1>4, <1>5, <1>6, <1>7, <1>8, <1>9, <1>10, <1>11, <1>12,
     <1>13, <1>14, <1>15 DEF Next, InKernel

-----------------------------------------------------------------------------
(* The wait list. *)

LEMMA ListInit == Init => ListMatchesQueue
BY DEF Init, ListMatchesQueue

(* The new node is not in the list, so that linking it in leaves the other *)
(* nodes' pointers alone except for the tail's.                            *)
LEMMA ListEnqueue ==
    ASSUME TypeOK, ListMatchesQueue, NEW p \in Procs, DownEnqueue(p)
    PROVE  ListMatchesQueue'
<1>1. PICK n \in Nodes \ allocated :
          /\ allocated' = allocated \cup {n}
          /\ LinkAtTail(n)
          /\ waitq' = Append(waitq, n)
  BY DEF DownEnqueue
<1>2. /\ waitq' \in Seq(Nodes)
      /\ Len(waitq') = Len(waitq) + 1
      /\ \A i \in 1 .. Len(waitq) : waitq'[i] = waitq[i] /\ waitq'[i] # n
      /\ waitq'[Len(waitq) + 1] = n
      /\ \A i \in 1 .. Len(waitq) : waitq[i] \in Nodes
  BY <1>1 DEF TypeOK, ListMatchesQueue
<1>3. head = NULL <=> Len(waitq) = 0
  BY KernelSemAssumption DEF TypeOK, ListMatchesQueue
<1>4. head' = waitq'[1] /\ tail' = waitq'[Len(waitq')]
  BY <1>1, <1>2, <1>3 DEF LinkAtTail, TypeOK, ListMatchesQueue
<1>5. ASSUME NEW i \in 1 .. Len(waitq')
      PROVE  next'[waitq'[i]] = IF i = Len(waitq') THEN NULL ELSE waitq'[i + 1]
  <2>1. CASE i = Len(waitq')
    BY <1>1, <1>2, <1>3, <2>1 DEF LinkAtTail, TypeOK, ListMatchesQueue
  <2>2. CASE i = Len(waitq)
    BY <1>1, <1>2, <1>3, <2>2 DEF LinkAtTail, TypeOK, ListMatchesQueue
  <2>3. CASE i < Len(waitq)
    <3>1. waitq[i] # waitq[Len(waitq)]
      BY <2>3, <1>2 DEF TypeOK, ListMatchesQueue
    <3> QED
      BY <1>1, <1>2, <1>3, <2>3, <3>1 DEF LinkAtTail, TypeOK, ListMatchesQueue
  <2> QED
    BY <1>2, <2>1, <2>2, <2>3 DEF TypeOK
<1>6. allocated' = {waitq'[i] : i \in 1 .. Len(waitq')}
  <2>1. allocated = {waitq[i] : i \in 1 .. Len(waitq)}
    <3>1. DOMAIN waitq = 1 .. Len(waitq)
      BY DEF TypeOK
    <3> QED
      BY <3>1, Zenon DEF ListMatchesQueue
  <2>2. ASSUME NEW m \in allocated'
        PROVE  \E i \in 1 .. Len(waitq') : m = waitq'[i]
    <3>1. CASE m = n
      <4>1. Len(waitq) + 1 \in 1 .. Len(waitq')
        BY <1>2 DEF TypeOK
      <4> QED
        BY <1>2, <3>1, <4>1
    <3>2. CASE m \in allocated
      <4>1. PICK i \in 1 .. Len(waitq) : m = waitq[i]
        BY <2>1, <3>2
      <4>2. i \in 1 .. Len(waitq') /\ m = waitq'[i]
        BY <1>2, <4>1 DEF TypeOK
      <4> QED
        BY <4>2
    <3> QED
      BY <1>1, <2>2, <3>1, <3>2
  <2>3. ASSUME NEW i \in 1 .. Len(waitq')
        PROVE  waitq'[i] \in allocated'
    <3>1. i \in 1 .. Len(waitq) \/ i = Len(waitq) + 1
      BY <1>2 DEF TypeOK
    <3> QED
      BY <1>1, <1>2, <2>1, <3>1
  <2> QED
    BY <2>2, <2>3
<1>7. \A i, j \in 1 .. Len(waitq') : waitq'[i] = waitq'[j] => i = j
  BY <1>2 DEF TypeOK, ListMatchesQueue
<1> QED
  BY <1>2, <1>4, <1>5, <1>6, <1>7 DEF ListMatchesQueue, TypeOK

LEMMA ListWake ==
    ASSUME TypeOK, ListMatchesQueue, WakeHead
    PROVE  ListMatchesQueue'
<1>1. /\ waitq # <<>>
      /\ head = waitq[1]
  BY DEF WakeHead, ListMatchesQueue
<1>2. /\ waitq' = Tail(waitq)
      /\ waitq' \in Seq(Nodes)
      /\ Len(waitq') = Len(waitq) - 1
      /\ \A i \in 1 .. Len(waitq') : waitq'[i] = waitq[i + 1]
      /\ \A i \in 1 .. Len(waitq) : waitq[i] \in Nodes
  BY <1>1 DEF WakeHead, TypeOK
<1>3. head' = IF Len(waitq') = 0 THEN NULL ELSE waitq'[1]
  BY <1>1, <1>2, SMTT(30) DEF WakeHead, TypeOK, ListMatchesQueue
<1>4. tail' = IF Len(waitq') = 0 THEN NULL ELSE waitq'[Len(waitq')]
  BY <1>1, <1>2, <1>3, KernelSemAssumption DEF WakeHead, TypeOK, ListMatchesQueue
<1>5. ASSUME NEW i \in 1 .. Len(waitq')
      PROVE  next'[waitq'[i]] = IF i = Len(waitq') THEN NULL ELSE waitq'[i + 1]
  <2>1. /\ i + 1 \in 1 .. Len(waitq)
        /\ i + 1 = Len(waitq) <=> i = Len(waitq')
        /\ waitq'[i] = waitq[i + 1]
    BY <1>2 DEF TypeOK
  <2>2. next'[waitq'[i]] = IF i + 1 = Len(waitq) THEN NULL ELSE waitq[(i + 1) + 1]
    BY <2>1 DEF WakeHead, TypeOK, ListMatchesQueue
  <2>3. i # Len(waitq') => waitq'[i + 1] = waitq[(i + 1) + 1]
    BY <1>2 DEF TypeOK
  <2> QED
    BY <2>1, <2>2, <2>3
<1>6. allocated' = {waitq'[i] : i \in 1 .. Len(waitq')}
  <2>1. allocated' = {waitq[i] : i \in 1 .. Len(waitq)} \ {waitq[1]}
    <3>1. allocated = {waitq[i] : i \in 1 .. Len(waitq)}
      <4>1. DOMAIN waitq = 1 .. Len(waitq)
        BY DEF TypeOK
      <4> QED
        BY <4>1, Zenon DEF ListMatchesQueue
    <3> QED
      BY <1>1, <3>1 DEF WakeHead
  <2>2. ASSUME NEW n \in allocated'
        PROVE  \E i \in 1 .. Len(waitq') : n = waitq'[i]
    <3>1. PICK j \in 1 .. Len(waitq) : n = waitq[j] /\ j # 1
      BY <2>1, <2>2
    <3>2. j - 1 \in 1 .. Len(waitq') /\ waitq'[j - 1] = waitq[j]
      BY <1>2, <3>1 DEF TypeOK
    <3> QED
      BY <3>1, <3>2
  <2>3. ASSUME NEW i \in 1 .. Len(waitq')
        PROVE  waitq'[i] \in allocated'
    BY <1>1, <1>2, <2>1, SMTT(30) DEF TypeOK, ListMatchesQueue
  <2> QED
    BY <2>2, <2>3
<1>7. \A i, j \in 1 .. Len(waitq') : waitq'[i] = waitq'[j] => i = j
  BY <1>2 DEF TypeOK, ListMatchesQueue
<1>8. /\ DOMAIN waitq' = 1 .. Len(waitq')
      /\ waitq' = <<>> <=> Len(waitq') = 0
  <2>1. waitq' \in Seq(Nodes)
    BY <1>2
  <2> QED
    BY <2>1, SeqFacts, Zenon
<1> QED
  <2>1. /\ head' = IF waitq' = <<>> THEN NULL ELSE waitq'[1]
        /\ tail' = IF waitq' = <<>> THEN NULL ELSE waitq'[Len(waitq')]
    BY <1>3, <1>4, <1>8
  <2> QED
    BY <1>5, <1>6, <1>7, <1>8, <2>1, Zenon DEF ListMatchesQueue

LEMMA ListNext == TypeOK /\ ListMatchesQueue /\ [Next]_vars => ListMatchesQueue'
<1> SUFFICES ASSUME TypeOK, ListMatchesQueue, [Next]_vars
             PROVE  ListMatchesQueue'
  OBVIOUS
<1>1. ASSUME UNCHANGED listVars
      PROVE  ListMatchesQueue'
  BY <1>1 DEF listVars, ListMatchesQueue
<1>2. ASSUME NEW p \in Procs, DownEnqueue(p)
      PROVE  ListMatchesQueue'
  BY <1>2, ListEnqueue
<1>3. ASSUME NEW p \in Procs, UpWake(p)
      PROVE  ListMatchesQueue'
  BY <1>1, <1>3, ListWake DEF UpWake
<1>4. \/ UNCHANGED listVars
      \/ \E p \in Procs : DownEnqueue(p) \/ UpWake(p)
  BY DEF Next, InKernel, SemInit, CallDown, CallUp, Oops, DownLock, DownUnlock,
         DownNoMemory, DownWaitUnlock, Schedule, Signal, UpLock, UpUnlock, vars
<1> QED
  BY <1>1, <1>2, <1>3, <1>4

-----------------------------------------------------------------------------
(* The kernel's mutex, and the length of the queue at each point of a call. *)

Locked == {"down_enqueue", "down_unlock", "down_wait_unlock", "up_wake", "up_unlock"}

(* The owner of the mutex is the one process between lock and unlock. *)
LockOwner == \A p \in Procs : lock = p <=> pc[p] \in Locked

Unforked == pc = [p \in Procs |-> "unforked"]

(* The queue is no longer than the debt, but for the process that has      *)
(* lowered the value and not yet queued, or raised it and not yet woken.   *)
QueueBound ==
    /\ Unforked => waitq = <<>>
    /\ \A p \in Procs : pc[p] = "down_enqueue" => value < 0 /\ Len(waitq) <= -value - 1
    /\ \A p \in Procs : pc[p] = "up_wake" => value <= 0 /\ Len(waitq) <= 1 - value
    /\ (\A p \in Procs : pc[p] \notin {"down_enqueue", "up_wake"}) =>
          Len(waitq) <= IF value < 0 THEN -value ELSE 0

LockInv == TypeOK /\ ListMatchesQueue /\ LockOwner /\ QueueBound

LEMMA LockInit == Init => LockInv
<1> SUFFICES ASSUME Init PROVE LockInv
  OBVIOUS
<1>1. TypeOK /\ ListMatchesQueue
  BY TypeInit, ListInit
<1>2. LockOwner
  BY KernelSemAssumption DEF Init, LockOwner, Locked
<1>3. QueueBound
  BY DEF Init, QueueBound
<1> QED
  BY <1>1, <1>2, <1>3 DEF LockInv

(* Mutual exclusion of the stretches between lock and unlock. *)
LEMMA LockOwnerNext == TypeOK /\ LockOwner /\ [Next]_vars => LockOwner'
<1> SUFFICES ASSUME TypeOK, LockOwner, [Next]_vars
             PROVE  LockOwner'
  OBVIOUS
<1> USE KernelSemAssumption DEF TypeOK, LockOwner, Locked
<1>1. CASE SemInit
  BY <1>1 DEF SemInit
<1>2. ASSUME NEW p \in Procs,
             \/ CallDown(p) \/ CallUp(p) \/ Oops(p) \/ Schedule(p) \/ Signal(p)
      PROVE  LockOwner'
  BY <1>2 DEF CallDown, CallUp, Oops, Schedule, Signal
<1>3. ASSUME NEW p \in Procs, DownLock(p) \/ UpLock(p)
      PROVE  LockOwner'
  BY <1>3 DEF DownLock, UpLock
<1>4. ASSUME NEW p \in Procs,
             \/ DownUnlock(p) \/ DownNoMemory(p) \/ DownWaitUnlock(p) \/ UpUnlock(p)
      PROVE  LockOwner'
  BY <1>4 DEF DownUnlock, DownNoMemory, DownWaitUnlock, UpUnlock
<1>5. ASSUME NEW p \in Procs, DownEnqueue(p) \/ UpWake(p)
      PROVE  LockOwner'
  BY <1>5 DEF DownEnqueue, UpWake
<1>6. CASE UNCHANGED vars
  BY <1>6 DEF vars
<1> QED
  BY <1>1, <1>2, <1>3, <1>4, <1>5, <1>6 DEF Next, InKernel

LEMMA QueueBoundNext == LockInv /\ [Next]_vars => QueueBound'
<1> SUFFICES ASSUME LockInv, [Next]_vars
             PROVE  QueueBound'
  OBVIOUS
<1>1. /\ value \in Int
      /\ pc \in [Procs -> Labels]
      /\ waitq \in Seq(Nodes)
      /\ Len(waitq) \in Nat
      /\ waitq = <<>> <=> Len(waitq) = 0
      /\ \A p \in Procs : lock = p <=> pc[p] \in Locked
      /\ QueueBound
  BY SeqFacts DEF LockInv, TypeOK, LockOwner
<1> USE <1>1, KernelSemAssumption DEF QueueBound, Locked, Unforked
<1>2. CASE SemInit
  BY <1>2 DEF SemInit, listVars
<1>3. ASSUME NEW p \in Procs,
             \/ CallDown(p) \/ CallUp(p) \/ Oops(p) \/ Schedule(p) \/ Signal(p)
             \/ DownUnlock(p) \/ DownWaitUnlock(p) \/ UpUnlock(p)
      PROVE  QueueBound'
  BY <1>3 DEF CallDown, CallUp, Oops, Schedule, Signal, DownUnlock, DownWaitUnlock,
              UpUnlock, listVars
<1>4. ASSUME NEW p \in Procs, DownLock(p)
      PROVE  QueueBound'
  BY <1>4 DEF DownLock, listVars
<1>5. ASSUME NEW p \in Procs, UpLock(p)
      PROVE  QueueBound'
  BY <1>5 DEF UpLock, listVars
<1>6. ASSUME NEW p \in Procs, DownNoMemory(p)
      PROVE  QueueBound'
  BY <1>6 DEF DownNoMemory, listVars
<1>7. ASSUME NEW p \in Procs, DownEnqueue(p)
      PROVE  QueueBound'
  <2>1. Len(waitq') = Len(waitq) + 1
    BY <1>7 DEF DownEnqueue
  <2> QED
    BY <1>7, <2>1 DEF DownEnqueue
<1>8. ASSUME NEW p \in Procs, UpWake(p)
      PROVE  QueueBound'
  <2>1. Len(waitq') <= -value
    <3>1. CASE WakeHead
      <4>1. waitq # <<>>
        BY <3>1 DEF WakeHead, LockInv, ListMatchesQueue
      <4>2. Len(waitq') = Len(waitq) - 1
        BY <3>1, <4>1 DEF WakeHead
      <4> QED
        BY <1>8, <4>2 DEF UpWake
    <3>2. CASE head = NULL /\ UNCHANGED <<listVars, sched>>
      <4>1. waitq = <<>>
        BY <3>2 DEF LockInv, ListMatchesQueue
      <4> QED
        BY <1>8, <3>2, <4>1 DEF UpWake, listVars
    <3> QED
      BY <1>8, <3>1, <3>2 DEF UpWake
  <2> QED
    BY <1>8, <2>1 DEF UpWake
<1>9. CASE UNCHANGED vars
  BY <1>9 DEF vars, listVars
<1> QED
  BY <1>2, <1>3, <1>4, <1>5, <1>6, <1>7, <1>8, <1>9 DEF Next, InKernel

LEMMA LockNext == LockInv /\ [Next]_vars => LockInv'
BY TypeNext, ListNext, LockOwnerNext, QueueBoundNext DEF LockInv

LEMMA LockInvariant == SafeSpec => []LockInv
BY LockInit, LockNext, PTL DEF SafeSpec

(* Every variable of the system calls stays in its range. *)
THEOREM TypeCorrect == SafeSpec => []TypeOK
<1>1. LockInv => TypeOK
  BY DEF LockInv
<1> QED
  BY <1>1, LockInvariant, PTL

(* The pointers of the wait list always describe the queue, and only the   *)
(* nodes in it are allocated, whatever fails.                              *)
THEOREM ListCorrect == SafeSpec => []ListMatchesQueue
<1>1. LockInv => ListMatchesQueue
  BY DEF LockInv
<1> QED
  BY <1>1, LockInvariant, PTL

(* Nobody is stranded in the queue, whatever fails: the up() calls that    *)
(* settle the debt of a negative value reach every process in it.          *)
THEOREM NobodyStrandedAlways == SafeSpec => []NobodyStranded
<1>1. LockInv => NobodyStranded
  <2> SUFFICES ASSUME LockInv, lock = Free
               PROVE  Len(waitq) <= IF value < 0 THEN -value ELSE 0
    BY DEF NobodyStranded
  <2>1. \A p \in Procs : pc[p] \notin {"down_enqueue", "up_wake"}
    BY KernelSemAssumption DEF LockInv, LockOwner, Locked
  <2> QED
    BY <2>1, Zenon DEF LockInv, QueueBound
<1> QED
  BY <1>1, LockInvariant, PTL
-----------------------------------------------------------------------------
(* Wakeups, when kmalloc does not fail and no signal arrives. *)

(* The queue has exactly the processes that sleep, each once. *)
QueuedOnce ==
    /\ \A i \in DOMAIN waitq : /\ task[waitq[i]] \in Procs
                              /\ pc[task[waitq[i]]] \in {"down_wait_unlock", "schedule"}
    /\ \A i, j \in DOMAIN waitq : task[waitq[i]] = task[waitq[j]] => i = j
    /\ \A p \in Procs : sched[p] = "interruptible" <=>
          \E i \in DOMAIN waitq : task[waitq[i]] = p

(* Without failures the bound on the queue's length is its length. *)
QueueExact ==
    /\ \A p \in Procs : pc[p] = "down_enqueue" => value < 0 /\ Len(waitq) = -value - 1
    /\ \A p \in Procs : pc[p] = "up_wake" => value <= 0 /\ Len(waitq) = 1 - value
    /\ (\A p \in Procs : pc[p] \notin {"down_enqueue", "up_wake"}) =>
          Len(waitq) = IF value < 0 THEN -value ELSE 0

SleepInv == LockInv /\ QueuedOnce /\ QueueExact

LEMMA SleepInit == Init => SleepInv
<1> SUFFICES ASSUME Init PROVE SleepInv
  OBVIOUS
<1>1. LockInv
  BY LockInit
<1>2. QueuedOnce
  BY DEF Init, QueuedOnce
<1>3. QueueExact
  BY DEF Init, QueueExact
<1> QED
  BY <1>1, <1>2, <1>3 DEF SleepInv

(* The effect of up() on the queue and on the process at its head. *)
LEMMA WakeEffect ==
    ASSUME LockInv, WakeHead
    PROVE  /\ waitq # <<>>
           /\ head = waitq[1]
           /\ waitq' = Tail(waitq)
           /\ Len(waitq') = Len(waitq) - 1
           /\ DOMAIN waitq' = 1 .. Len(waitq) - 1
           /\ \A i \in DOMAIN waitq' : i + 1 \in DOMAIN waitq /\ waitq'[i] = waitq[i + 1]
           /\ task' = task
           /\ sched' = [sched EXCEPT ![task[waitq[1]]] = "running"]
<1>1. waitq # <<>> /\ head = waitq[1]
  BY DEF WakeHead, LockInv, ListMatchesQueue
<1>2. waitq \in Seq(Nodes)
  BY DEF LockInv, TypeOK
<1> QED
  BY <1>1, <1>2 DEF WakeHead

(* The effect of down() on the queue when the caller has to wait. *)
LEMMA EnqueueEffect ==
    ASSUME LockInv, NEW p \in Procs, DownEnqueue(p)
    PROVE  /\ Len(waitq') = Len(waitq) + 1
           /\ DOMAIN waitq' = 1 .. Len(waitq) + 1
           /\ task'[waitq'[Len(waitq) + 1]] = p
           /\ \A i \in DOMAIN waitq : /\ i \in DOMAIN waitq' /\ waitq'[i] = waitq[i]
                                     /\ task'[waitq'[i]] = task[waitq[i]]
<1>1. PICK n \in Nodes \ allocated :
          /\ task' = [task EXCEPT ![n] = p]
          /\ waitq' = Append(waitq, n)
  BY DEF DownEnqueue
<1>2. /\ waitq \in Seq(Nodes)
      /\ task \in [Nodes -> Procs \cup {NULL}]
      /\ \A i \in DOMAIN waitq : waitq[i] \in allocated /\ waitq[i] \in Nodes
  BY DEF LockInv, TypeOK, ListMatchesQueue
<1>3. /\ waitq'[Len(waitq) + 1] = n
      /\ \A i \in DOMAIN waitq : waitq'[i] = waitq[i]
  BY <1>1, <1>2
<1> QED
  BY <1>1, <1>2, <1>3

LEMMA QueuedOnceNext ==
    ASSUME ~Signals
    PROVE  LockInv /\ QueuedOnce /\ [Next]_vars => QueuedOnce'
<1> SUFFICES ASSUME LockInv, QueuedOnce, [Next]_vars
             PROVE  QueuedOnce'
  OBVIOUS
<1>1. /\ pc \in [Procs -> Labels]
      /\ sched \in [Procs -> {"running", "interruptible"}]
      /\ waitq \in Seq(Nodes)
      /\ Unforked => waitq = <<>>
  BY DEF LockInv, TypeOK, QueueBound
<1> USE <1>1 DEF QueuedOnce, Unforked
<1>2. CASE SemInit
  BY <1>2 DEF SemInit, listVars
<1>3. ASSUME NEW p \in Procs,
             \/ CallDown(p) \/ CallUp(p) \/ Oops(p) \/ DownLock(p) \/ DownUnlock(p)
             \/ DownNoMemory(p) \/ DownWaitUnlock(p) \/ UpLock(p) \/ UpUnlock(p)
      PROVE  QueuedOnce'
  BY <1>3 DEF CallDown, CallUp, Oops, DownLock, DownUnlock, DownNoMemory,
              DownWaitUnlock, UpLock, UpUnlock, listVars
<1>4. ASSUME NEW p \in Procs, Schedule(p)
      PROVE  QueuedOnce'
  BY <1>4 DEF Schedule, listVars
<1>5. ASSUME NEW p \in Procs, DownEnqueue(p)
      PROVE  QueuedOnce'
  <2>1. pc[p] = "down_enqueue" /\ pc' = [pc EXCEPT ![p] = "down_wait_unlock"]
        /\ sched' = [sched EXCEPT ![p] = "interruptible"]
    BY <1>5 DEF DownEnqueue
  <2>2. \A i \in DOMAIN waitq : task[waitq[i]] # p
    BY <2>1
  <2>3. \A i \in DOMAIN waitq' : i \in DOMAIN waitq \/ i = Len(waitq) + 1
    BY <1>5, EnqueueEffect
  <2> DEFINE last == Len(waitq) + 1
  <2>4. last \in DOMAIN waitq' /\ task'[waitq'[last]] = p
    BY <1>5, EnqueueEffect
  <2>5. \A i \in DOMAIN waitq : i \in DOMAIN waitq' /\ task'[waitq'[i]] = task[waitq[i]]
    BY <1>5, EnqueueEffect
  <2> HIDE DEF last
  <2>6. ASSUME NEW i \in DOMAIN waitq'
        PROVE  /\ task'[waitq'[i]] \in Procs
               /\ pc'[task'[waitq'[i]]] \in {"down_wait_unlock", "schedule"}
    BY <2>1, <2>2, <2>3, <2>4, <2>5 DEF last
  <2>7. ASSUME NEW i \in DOMAIN waitq', NEW j \in DOMAIN waitq',
               task'[waitq'[i]] = task'[waitq'[j]]
        PROVE  i = j
    <3>1. i \in DOMAIN waitq <=> j \in DOMAIN waitq
      BY <2>2, <2>3, <2>4, <2>5, <2>7 DEF last
    <3> QED
      BY <2>3, <2>5, <2>7, <3>1
  <2>8. ASSUME NEW r \in Procs
        PROVE  sched'[r] = "interruptible" <=> \E i \in DOMAIN waitq' : task'[waitq'[i]] = r
    <3>1. CASE r = p
      BY <2>1, <2>4, <3>1
    <3>2. CASE r # p
      <4>1. sched'[r] = sched[r]
        BY <2>1, <3>2
      <4>2. \A i \in DOMAIN waitq' : task'[waitq'[i]] = r => i \in DOMAIN waitq
        BY <2>3, <2>4, <3>2 DEF last
      <4> QED
        BY <2>5, <4>1, <4>2
    <3> QED
      BY <3>1, <3>2
  <2> QED
    BY <2>6, <2>7, <2>8
<1>6. ASSUME NEW p \in Procs, UpWake(p)
      PROVE  QueuedOnce'
  <2>1. pc[p] = "up_wake" /\ pc' = [pc EXCEPT ![p] = "up_unlock"]
    BY <1>6 DEF UpWake
  <2>2. CASE WakeHead
    <3>1. 1 \in DOMAIN waitq
      BY <2>2, WakeEffect
    <3>2. \A i \in DOMAIN waitq : i = 1 \/ i - 1 \in DOMAIN waitq'
      BY <2>2, WakeEffect
    <3> DEFINE q == task[waitq[1]]
    <3>3. q \in Procs
      BY <3>1
    <3>4. \A i \in DOMAIN waitq' : task'[waitq'[i]] = task[waitq[i + 1]] /\ task[waitq[i + 1]] # q
      BY <2>2, <3>1, WakeEffect
    <3>5. ASSUME NEW r \in Procs, sched'[r] = "interruptible"
          PROVE  \E i \in DOMAIN waitq' : task'[waitq'[i]] = r
      <4>1. r # q /\ sched[r] = "interruptible"
        BY <2>2, <3>3, <3>5, WakeEffect
      <4>2. PICK i \in DOMAIN waitq : task[waitq[i]] = r
        BY <4>1
      <4>3. i - 1 \in DOMAIN waitq' /\ task'[waitq'[i - 1]] = r
        BY <2>2, <3>2, <4>1, <4>2, WakeEffect
      <4> QED
        BY <4>3
    <3>6. ASSUME NEW r \in Procs, \E i \in DOMAIN waitq' : task'[waitq'[i]] = r
          PROVE  sched'[r] = "interruptible"
      BY <2>2, <3>3, <3>4, <3>6, WakeEffect
    <3>7. \A i \in DOMAIN waitq' :
             /\ task'[waitq'[i]] \in Procs
             /\ pc'[task'[waitq'[i]]] \in {"down_wait_unlock", "schedule"}
      BY <2>1, <2>2, <3>4, WakeEffect
    <3>8. \A i, j \in DOMAIN waitq' : task'[waitq'[i]] = task'[waitq'[j]] => i = j
      BY <2>2, <3>4, WakeEffect
    <3> QED
      BY <3>5, <3>6, <3>7, <3>8
  <2>3. CASE head = NULL /\ UNCHANGED <<listVars, sched>>
    BY <2>1, <2>3 DEF listVars
  <2> QED
    BY <1>6, <2>2, <2>3 DEF UpWake
<1>7. CASE UNCHANGED vars
  BY <1>7 DEF vars, listVars
<1>8. \A p \in Procs : ~Signal(p)
  BY DEF Signal
<1> QED
  BY <1>2, <1>3, <1>4, <1>5, <1>6, <1>7, <1>8 DEF Next, InKernel

LEMMA QueueExactNext ==
    ASSUME ~AllocFails
    PROVE  LockInv /\ QueueExact /\ [Next]_vars => QueueExact'
<1> SUFFICES ASSUME LockInv, QueueExact, [Next]_vars
             PROVE  QueueExact'
  OBVIOUS
<1>1. /\ value \in Int
      /\ pc \in [Procs -> Labels]
      /\ waitq \in Seq(Nodes)
      /\ Len(waitq) \in Nat
      /\ waitq = <<>> <=> Len(waitq) = 0
      /\ \A p \in Procs : lock = p <=> pc[p] \in Locked
      /\ Unforked => waitq = <<>>
  BY SeqFacts DEF LockInv, TypeOK, LockOwner, QueueBound
<1> USE <1>1, KernelSemAssumption DEF QueueExact, Locked, Unforked
<1>2. CASE SemInit
  BY <1>2 DEF SemInit, listVars
<1>3. ASSUME NEW p \in Procs,
             \/ CallDown(p) \/ CallUp(p) \/ Oops(p) \/ Schedule(p) \/ Signal(p)
             \/ DownUnlock(p) \/ DownWaitUnlock(p) \/ UpUnlock(p)
      PROVE  QueueExact'
  BY <1>3 DEF CallDown, CallUp, Oops, Schedule, Signal, DownUnlock, DownWaitUnlock,
              UpUnlock, listVars
<1>4. ASSUME NEW p \in Procs, DownLock(p)
      PROVE  QueueExact'
  BY <1>4 DEF DownLock, listVars
<1>5. ASSUME NEW p \in Procs, UpLock(p)
      PROVE  QueueExact'
  BY <1>5 DEF UpLock, listVars
<1>6. ASSUME NEW p \in Procs, DownEnqueue(p)
      PROVE  QueueExact'
  <2>1. Len(waitq') = Len(waitq) + 1
    BY <1>6, EnqueueEffect
  <2> QED
    BY <1>6, <2>1 DEF DownEnqueue
<1>7. ASSUME NEW p \in Procs, UpWake(p)
      PROVE  QueueExact'
  <2>1. WakeHead
    <3>1. waitq # <<>>
      BY <1>7 DEF UpWake
    <3>2. head = waitq[1] /\ waitq[1] \in Nodes
      BY <3>1 DEF LockInv, ListMatchesQueue
    <3> QED
      BY <1>7, <3>2 DEF UpWake
  <2>2. Len(waitq') = Len(waitq) - 1
    BY <2>1, WakeEffect
  <2> QED
    BY <1>7, <2>2 DEF UpWake
<1>8. CASE UNCHANGED vars
  BY <1>8 DEF vars, listVars
<1>9. \A p \in Procs : ~DownNoMemory(p)
  BY DEF DownNoMemory
<1> QED
  BY <1>2, <1>3, <1>4, <1>5, <1>6, <1>7, <1>8, <1>9 DEF Next, InKernel

LEMMA SleepInvariant ==
    ASSUME ~AllocFails, ~Signals
    PROVE  SafeSpec => []SleepInv
<1>1. SleepInv /\ [Next]_vars => SleepInv'
  BY LockNext, QueuedOnceNext, QueueExactNext DEF SleepInv
<1> QED
  BY <1>1, SleepInit, PTL DEF SafeSpec

(* No wakeup is lost between enqueueing and sleeping, for any number of    *)
(* processes, when kmalloc does not fail and no signal arrives.            *)
THEOREM WakeupsAreKept ==
    ASSUME ~AllocFails, ~Signals
    PROVE  SafeSpec => []NoLostWakeup
<1>1. SleepInv => NoLostWakeup
  <2> SUFFICES ASSUME SleepInv
               PROVE  NoLostWakeup
    OBVIOUS
  <2>1. \A p \in Procs : sched[p] = "interruptible" =>
            \E i \in DOMAIN waitq : WaitingProcs[i] = p
    BY DEF SleepInv, QueuedOnce, WaitingProcs
  <2>2. ASSUME lock = Free
        PROVE  Len(waitq) = IF value < 0 THEN -value ELSE 0
    <3>1. \A p \in Procs : pc[p] \notin {"down_enqueue", "up_wake"}
      BY <2>2, KernelSemAssumption DEF SleepInv, LockInv, LockOwner, Locked
    <3> QED
      BY <3>1, Zenon DEF SleepInv, QueueExact
  <2> QED
    BY <2>1, <2>2 DEF NoLostWakeup
<1> QED
  BY <1>1, SleepInvariant, PTL

(* "Sleep until semaphore is available": without signals a process leaves  *)
(* schedule() only after an up() has taken its node off the queue.         *)
THEOREM SleepIsUntilAvailable ==
    ASSUME ~AllocFails, ~Signals
    PROVE  SafeSpec => SleepsUntilAvailable
<1>1. ASSUME SleepInv, [Next]_vars
      PROVE  [\A p \in Procs : pc[p] = "schedule" /\ pc'[p] = "user" =>
                 \A i \in DOMAIN waitq : WaitingProcs[i] # p]_vars
  <2> SUFFICES ASSUME NEW p \in Procs, pc[p] = "schedule", pc'[p] = "user",
                      NEW i \in DOMAIN waitq
               PROVE  task[waitq[i]] # p
    BY DEF WaitingProcs
  <2>1. pc \in [Procs -> Labels]
    BY <1>1 DEF SleepInv, LockInv, TypeOK
  <2>2. Schedule(p)
    BY <1>1, <2>1 DEF Next, InKernel, SemInit, CallDown, CallUp, Oops, DownLock,
       DownUnlock, DownNoMemory, DownEnqueue, DownWaitUnlock, Schedule, Signal,
       UpLock, UpWake, UpUnlock, vars
  <2>3. sched[p] # "interruptible"
    BY <2>2 DEF Schedule
  <2> QED
    BY <1>1, <2>3 DEF SleepInv, QueuedOnce
<1> QED
  BY <1>1, SleepInvariant, PTL DEF SafeSpec, SleepsUntilAvailable

-----------------------------------------------------------------------------
(* The system calls implement module Semaphore. *)

LEMMA AbstractInit == Init => Abstract!Init
<1> SUFFICES ASSUME Init PROVE Abstract!Init
  OBVIOUS
<1>1. Permits = InitValue
  BY DEF Init, Permits
<1>2. WaitingProcs = <<>>
  BY DEF Init, WaitingProcs
<1>3. Granted = {}
  BY DEF Init, Granted
<1> QED
  BY <1>1, <1>2, <1>3 DEF Abstract!Init

(* What the refinement needs of a state. *)
AbstractFactsOf ==
    /\ value \in Int
    /\ pc \in [Procs -> Labels]
    /\ waitq \in Seq(Nodes)
    /\ DOMAIN waitq = 1 .. Len(waitq)
    /\ Len(waitq) \in Nat
    /\ WaitingProcs \in Seq(Procs)
    /\ Len(WaitingProcs) = Len(waitq)
    /\ DOMAIN WaitingProcs = DOMAIN waitq
    /\ \A i \in DOMAIN waitq : WaitingProcs[i] = task[waitq[i]]
    /\ WaitingProcs = <<>> <=> waitq = <<>>

LEMMA AbstractFacts == SleepInv => AbstractFactsOf
<1> SUFFICES ASSUME SleepInv PROVE AbstractFactsOf
  OBVIOUS
<1>1. /\ value \in Int
      /\ pc \in [Procs -> Labels]
      /\ waitq \in Seq(Nodes)
  BY DEF SleepInv, LockInv, TypeOK
<1>2. DOMAIN waitq = 1 .. Len(waitq) /\ Len(waitq) \in Nat
  BY <1>1
<1>3. \A i \in DOMAIN waitq : task[waitq[i]] \in Procs
  BY DEF SleepInv, QueuedOnce
<1>4. WaitingProcs = [i \in 1 .. Len(waitq) |-> task[waitq[i]]]
  BY <1>2, Zenon DEF WaitingProcs
<1>5. WaitingProcs \in Seq(Procs) /\ Len(WaitingProcs) = Len(waitq)
  BY <1>2, <1>3, <1>4
<1> QED
  BY <1>1, <1>2, <1>4, <1>5, SeqFacts DEF AbstractFactsOf

LEMMA AbstractNext ==
    ASSUME ~AllocFails, ~Signals
    PROVE  SleepInv /\ SleepInv' /\ [Next]_vars => [Abstract!Next]_(Abstract!vars)
<1> SUFFICES ASSUME SleepInv, SleepInv', [Next]_vars
             PROVE  [Abstract!Next]_(Abstract!vars)
  OBVIOUS
<1> DEFINE Stutter == UNCHANGED <<Permits, WaitingProcs, Granted>>
<1>0. Stutter => [Abstract!Next]_(Abstract!vars)
  BY DEF Abstract!vars
<1>. HIDE DEF Stutter
<1>d. AbstractFactsOf'
  BY AbstractFacts, PTL
<1>e. AbstractFactsOf
  BY AbstractFacts
<1>a. /\ value \in Int
      /\ pc \in [Procs -> Labels]
      /\ waitq \in Seq(Nodes)
  BY <1>e DEF AbstractFactsOf
<1>b. ASSUME UNCHANGED listVars
      PROVE  WaitingProcs' = WaitingProcs
  BY <1>b DEF listVars, WaitingProcs
<1>1. CASE SemInit
  <2>1. Permits' = Permits
    BY <1>1, KernelSemAssumption DEF SemInit, Permits
  <2>2. Granted' = Granted
    BY <1>1 DEF SemInit, Granted, listVars, WaitingProcs
  <2> QED
    BY <1>0, <1>1, <1>b, <2>1, <2>2 DEF SemInit, Stutter
<1>2. ASSUME NEW p \in Procs,
             \/ CallDown(p) \/ CallUp(p) \/ Oops(p) \/ DownWaitUnlock(p) \/ UpUnlock(p)
      PROVE  Stutter
  <2>1. UNCHANGED <<value, listVars>>
    BY <1>2 DEF CallDown, CallUp, Oops, DownWaitUnlock, UpUnlock
  <2>2. /\ pc[p] # "unforked"
        /\ \E label \in Labels : pc' = [pc EXCEPT ![p] = label] /\ label # "unforked"
    BY <1>2 DEF CallDown, CallUp, Oops, DownWaitUnlock, UpUnlock, Labels
  <2>3. Permits' = Permits
    BY <1>a, <2>1, <2>2 DEF Permits
  <2>4. ASSUME NEW q \in Procs
        PROVE  /\ pc'[q] = "down_unlock" <=> pc[q] = "down_unlock"
               /\ pc'[q] \in {"down_wait_unlock", "schedule"} <=>
                      pc[q] \in {"down_wait_unlock", "schedule"}
    BY <1>2, <1>a DEF CallDown, CallUp, Oops, DownWaitUnlock, UpUnlock
  <2>5. Granted' = Granted
    <3>1. WaitingProcs' = WaitingProcs /\ waitq' = waitq
      BY <1>b, <2>1 DEF listVars
    <3> QED
      BY <2>4, <3>1, Zenon DEF Granted
  <2> QED
    BY <1>b, <2>1, <2>3, <2>5 DEF Stutter
<1>c. ASSUME NEW p \in Procs, pc[p] # "unforked", pc'[p] # "unforked"
      PROVE  /\ Permits = IF value > 0 THEN value ELSE 0
             /\ Permits' = IF value' > 0 THEN value' ELSE 0
  BY <1>c DEF Permits
<1>3. ASSUME NEW p \in Procs, DownLock(p)
      PROVE  [Abstract!Next]_(Abstract!vars)
  <2>1. /\ pc[p] = "down"
        /\ value' = value - 1
        /\ pc' = [pc EXCEPT ![p] = IF value' < 0 THEN "down_enqueue" ELSE "down_unlock"]
        /\ waitq' = waitq
        /\ WaitingProcs' = WaitingProcs
    BY <1>3, <1>b DEF DownLock, listVars
  <2>2. /\ Permits = IF value > 0 THEN value ELSE 0
        /\ Permits' = IF value' > 0 THEN value' ELSE 0
    BY <1>a, <1>c, <2>1
  <2>3. CASE value' < 0
    <3>1. Permits' = Permits
      BY <1>a, <2>1, <2>2, <2>3
    <3>2. Granted' = Granted
      BY <1>a, <2>1, <2>3 DEF Granted
    <3> QED
      BY <1>0, <2>1, <3>1, <3>2 DEF Stutter
  <2>4. CASE ~(value' < 0)
    <3>1. Permits > 0 /\ Permits' = Permits - 1
      BY <1>a, <2>1, <2>2, <2>4
    <3>2. Granted' = Granted \cup {p} /\ p \notin Granted
      BY <1>a, <2>1, <2>4 DEF Granted
    <3>3. \A i \in DOMAIN WaitingProcs : WaitingProcs[i] # p
      BY <2>1, <1>e DEF AbstractFactsOf, SleepInv, QueuedOnce
    <3>4. Abstract!Acquire(p)
      BY <2>1, <3>1, <3>2, <3>3 DEF Abstract!Acquire, Abstract!Queued
    <3> QED
      BY <3>4 DEF Abstract!Next
  <2> QED
    BY <2>3, <2>4
<1>4. ASSUME NEW p \in Procs, DownUnlock(p) \/ Schedule(p)
      PROVE  [Abstract!Next]_(Abstract!vars)
  <2>1. /\ pc[p] \in {"down_unlock", "schedule"}
        /\ value' = value
        /\ pc' = [pc EXCEPT ![p] = "user"]
        /\ waitq' = waitq
        /\ WaitingProcs' = WaitingProcs
    BY <1>4, <1>b DEF DownUnlock, Schedule, listVars
  <2>2. Permits' = Permits
    BY <1>a, <1>c, <2>1
  <2>3. \A i \in DOMAIN waitq : WaitingProcs[i] # p
    <3>1. pc[p] = "down_unlock" \/ sched[p] = "running"
      BY <1>4 DEF DownUnlock, Schedule
    <3> QED
      BY <3>1, <1>e DEF AbstractFactsOf, SleepInv, QueuedOnce
  <2>4. p \in Granted /\ Granted' = Granted \ {p}
    BY <1>a, <2>1, <2>3 DEF Granted
  <2>5. Abstract!Return(p)
    BY <2>1, <2>2, <2>4 DEF Abstract!Return
  <2> QED
    BY <2>5 DEF Abstract!Next
<1>5. ASSUME NEW p \in Procs, DownEnqueue(p)
      PROVE  [Abstract!Next]_(Abstract!vars)
  <2>1. /\ pc[p] = "down_enqueue"
        /\ value' = value
        /\ pc' = [pc EXCEPT ![p] = "down_wait_unlock"]
    BY <1>5 DEF DownEnqueue
  <2>2. Permits = 0 /\ Permits' = 0
    <3>1. value < 0
      BY <2>1 DEF SleepInv, QueueExact
    <3> QED
      BY <1>a, <1>c, <2>1, <3>1
  <2>3. WaitingProcs' = Append(WaitingProcs, p)
    <3>1. /\ Len(waitq') = Len(waitq) + 1
          /\ Len(waitq) + 1 \in DOMAIN waitq'
          /\ task'[waitq'[Len(waitq) + 1]] = p
          /\ \A i \in DOMAIN waitq : i \in DOMAIN waitq' /\ task'[waitq'[i]] = task[waitq[i]]
      BY <1>5, <1>e, EnqueueEffect DEF SleepInv, AbstractFactsOf
    <3>2. /\ WaitingProcs \in Seq(Procs) /\ WaitingProcs' \in Seq(Procs)
          /\ Len(WaitingProcs') = Len(WaitingProcs) + 1
          /\ \A i \in 1 .. Len(WaitingProcs) : WaitingProcs'[i] = WaitingProcs[i]
          /\ WaitingProcs'[Len(WaitingProcs) + 1] = p
      BY <1>d, <1>e, <3>1, ZenonT(40) DEF AbstractFactsOf
    <3> QED
      BY <3>2, IsAppend
  <2>4. Granted' = Granted /\ p \notin Granted
    <3>1. /\ DOMAIN waitq' = 1 .. Len(waitq) + 1
          /\ DOMAIN waitq = 1 .. Len(waitq)
          /\ Len(waitq) \in Nat
          /\ WaitingProcs'[Len(waitq) + 1] = p
          /\ \A i \in DOMAIN waitq : WaitingProcs'[i] = WaitingProcs[i]
      BY <1>a, <2>3, <1>e, <1>5, EnqueueEffect DEF SleepInv, AbstractFactsOf
    <3>2. ASSUME NEW q \in Procs, q # p
          PROVE  /\ pc'[q] = pc[q]
                 /\ (\A i \in DOMAIN waitq' : WaitingProcs'[i] # q) <=>
                       (\A i \in DOMAIN waitq : WaitingProcs[i] # q)
      <4>1. \A i \in DOMAIN waitq' : i \in DOMAIN waitq \/ i = Len(waitq) + 1
        BY <3>1
      <4>2. \A i \in DOMAIN waitq : i \in DOMAIN waitq'
        BY <3>1
      <4> QED
        BY <1>a, <2>1, <3>1, <3>2, <4>1, <4>2
    <3>3. ~(\A i \in DOMAIN waitq' : WaitingProcs'[i] # p)
      BY <3>1
    <3>4. pc[p] = "down_enqueue" /\ pc'[p] = "down_wait_unlock"
      BY <1>a, <2>1
    <3> QED
      BY <3>2, <3>3, <3>4 DEF Granted
  <2>5. \A i \in DOMAIN WaitingProcs : WaitingProcs[i] # p
    BY <2>1, <1>e DEF AbstractFactsOf, SleepInv, QueuedOnce
  <2>6. Abstract!Enqueue(p)
    BY <2>2, <2>3, <2>4, <2>5 DEF Abstract!Enqueue, Abstract!Queued
  <2> QED
    BY <2>6 DEF Abstract!Next
<1>6. ASSUME NEW p \in Procs, UpLock(p)
      PROVE  [Abstract!Next]_(Abstract!vars)
  <2>1. /\ pc[p] = "up"
        /\ value' = value + 1
        /\ pc' = [pc EXCEPT ![p] = IF value' <= 0 THEN "up_wake" ELSE "up_unlock"]
        /\ waitq' = waitq
        /\ WaitingProcs' = WaitingProcs
    BY <1>6, <1>b DEF UpLock, listVars
  <2>2. /\ Permits = IF value > 0 THEN value ELSE 0
        /\ Permits' = IF value' > 0 THEN value' ELSE 0
    BY <1>a, <1>c, <2>1
  <2>3. Granted' = Granted
    BY <1>a, <2>1 DEF Granted
  <2>4. CASE value' <= 0
    <3>1. Permits' = Permits
      BY <1>a, <2>1, <2>2, <2>4
    <3> QED
      BY <1>0, <2>1, <2>3, <3>1 DEF Stutter
  <2>5. CASE ~(value' <= 0)
    <3>1. Permits' = Permits + 1
      BY <1>a, <2>1, <2>2, <2>5
    <3>2. WaitingProcs = <<>>
      <4>1. \A q \in Procs : pc[q] \notin {"down_enqueue", "up_wake"}
        <5>1. lock = Free
          BY <1>6 DEF UpLock
        <5> QED
          BY <5>1, KernelSemAssumption DEF SleepInv, LockInv, LockOwner, Locked
      <4>2. Len(waitq) = IF value < 0 THEN -value ELSE 0
        BY <4>1, Zenon DEF SleepInv, QueueExact
      <4>3. Len(waitq) = 0
        BY <1>a, <2>1, <2>5, <4>2
      <4> QED
        BY <1>a, <4>3, SeqFacts, <1>e DEF AbstractFactsOf
    <3>3. Abstract!Release
      BY <2>1, <2>3, <3>1, <3>2 DEF Abstract!Release
    <3> QED
      BY <3>3 DEF Abstract!Next
  <2> QED
    BY <2>4, <2>5
<1>7. ASSUME NEW p \in Procs, UpWake(p)
      PROVE  [Abstract!Next]_(Abstract!vars)
  <2>1. /\ pc[p] = "up_wake"
        /\ value' = value
        /\ pc' = [pc EXCEPT ![p] = "up_unlock"]
    BY <1>7 DEF UpWake
  <2>2. Permits' = Permits
    BY <1>a, <1>c, <2>1
  <2>3. WakeHead
    <3>1. value <= 0 /\ Len(waitq) = 1 - value
      BY <2>1 DEF SleepInv, QueueExact
    <3>2. waitq # <<>>
      BY <1>a, <3>1
    <3>3. head = waitq[1] /\ waitq[1] \in Nodes
      BY <1>a, <3>2 DEF SleepInv, LockInv, ListMatchesQueue
    <3> QED
      BY <1>7, <3>3, KernelSemAssumption DEF UpWake
  <2>4. /\ waitq # <<>>
        /\ 1 \in DOMAIN waitq
        /\ Len(waitq') = Len(waitq) - 1
        /\ DOMAIN waitq' = 1 .. Len(waitq) - 1
        /\ \A i \in DOMAIN waitq' : i + 1 \in DOMAIN waitq /\ waitq'[i] = waitq[i + 1]
        /\ \A i \in DOMAIN waitq : i = 1 \/ i - 1 \in DOMAIN waitq'
        /\ task' = task
    BY <1>a, <2>3, WakeEffect DEF SleepInv
  <2>5. /\ WaitingProcs \in Seq(Procs)
        /\ Len(WaitingProcs) = Len(waitq)
        /\ WaitingProcs # <<>>
        /\ \A i \in DOMAIN waitq : WaitingProcs[i] = task[waitq[i]]
    BY <2>4, <1>e DEF AbstractFactsOf
  <2>6. \A i \in DOMAIN waitq' : WaitingProcs'[i] = WaitingProcs[i + 1]
    BY <2>4, <2>5 DEF WaitingProcs
  <2>7. WaitingProcs' = Tail(WaitingProcs)
    <3>1. /\ WaitingProcs' \in Seq(Procs)
          /\ Len(WaitingProcs') = Len(WaitingProcs) - 1
          /\ \A i \in 1 .. Len(WaitingProcs) - 1 : WaitingProcs'[i] = WaitingProcs[i + 1]
      BY <1>d, <2>4, <2>5, <2>6 DEF AbstractFactsOf
    <3> QED
      BY <2>5, <3>1, IsTail
  <2> DEFINE q == WaitingProcs[1]
  <2>8. q \in Procs /\ Head(WaitingProcs) = q
    BY <2>4, <2>5
  <2>9. Granted' = Granted \cup {q}
    <3>1. /\ pc[q] \in {"down_wait_unlock", "schedule"}
          /\ \A i \in DOMAIN waitq' : WaitingProcs'[i] # q
      <4>1. \A i \in DOMAIN waitq' : WaitingProcs[i + 1] # q
        BY <2>4, <2>5 DEF SleepInv, QueuedOnce
      <4> QED
        BY <2>4, <2>5, <2>6, <4>1 DEF SleepInv, QueuedOnce
    <3>2. ASSUME NEW r \in Procs, r # q
          PROVE  (\A i \in DOMAIN waitq' : WaitingProcs'[i] # r) <=>
                     (\A i \in DOMAIN waitq : WaitingProcs[i] # r)
      <4>1. ASSUME NEW i \in DOMAIN waitq, WaitingProcs[i] = r
            PROVE  \E j \in DOMAIN waitq' : WaitingProcs'[j] = r
        <5>1. i - 1 \in DOMAIN waitq'
          BY <2>4, <3>2, <4>1
        <5>2. WaitingProcs'[i - 1] = r
          BY <1>a, <2>4, <2>6, <4>1, <5>1
        <5> QED
          BY <5>1, <5>2
      <4>2. ASSUME NEW i \in DOMAIN waitq', WaitingProcs'[i] = r
            PROVE  \E j \in DOMAIN waitq : WaitingProcs[j] = r
        BY <2>4, <2>6, <4>2
      <4> QED
        BY <4>1, <4>2
    <3>3. ASSUME NEW r \in Procs
          PROVE  /\ pc'[r] = "down_unlock" <=> pc[r] = "down_unlock"
                 /\ pc'[r] \in {"down_wait_unlock", "schedule"} <=>
                        pc[r] \in {"down_wait_unlock", "schedule"}
      BY <1>a, <2>1
    <3> QED
      BY <2>8, <3>1, <3>2, <3>3 DEF Granted
  <2>10. Abstract!HandOver
    BY <2>2, <2>5, <2>7, <2>8, <2>9 DEF Abstract!HandOver
  <2> QED
    BY <2>10 DEF Abstract!Next
<1>8. CASE UNCHANGED vars
  <2>1. UNCHANGED <<Permits, WaitingProcs, Granted>>
    BY <1>8 DEF vars, listVars, Permits, WaitingProcs, Granted
  <2> QED
    BY <1>0, <2>1 DEF Stutter
<1>9. \A p \in Procs : ~Signal(p) /\ ~DownNoMemory(p)
  BY DEF Signal, DownNoMemory
<1> QED
  BY <1>0, <1>1, <1>2, <1>3, <1>4, <1>5, <1>6, <1>7, <1>8, <1>9 DEF Next, InKernel

(* The system calls implement the abstract semaphore for every number of   *)
(* processes: each step of a call is a step of module Semaphore or leaves  *)
(* it unchanged.                                                           *)
THEOREM CallsImplementSemaphore ==
    ASSUME ~AllocFails, ~Signals
    PROVE  SafeSpec => Abstract!SafeSpec
BY AbstractInit, AbstractNext, SleepInvariant, PTL DEF SafeSpec, Abstract!SafeSpec

------------------------------------------------------------------------------
(* A semaphore used as a lock: every process brackets its critical section *)
(* with down() and up().  The value and the processes that have lowered    *)
(* and not yet raised it always add up to InitValue, whatever fails; with  *)
(* the length of the wait list this bounds the processes in their critical *)
(* sections.                                                               *)

(* The processes that have lowered the value and not raised it again. *)
Owes(p) ==
    \/ p \in holders
    \/ pc[p] \in {"down_enqueue", "down_unlock", "down_wait_unlock", "schedule", "up"}

Charged == {p \in Procs : Owes(p)}

HoldersInUser == \A p \in holders : pc[p] = "user"

PermitsAddUp == (\E p \in Procs : pc[p] # "unforked") => value + Cardinality(Charged) = InitValue

CountInv ==
    /\ LockInv
    /\ HoldersInUser
    /\ lock = NULL => Charged = {}
    /\ PermitsAddUp

LEMMA CountInit == Init => CountInv
<1> SUFFICES ASSUME Init PROVE CountInv
  OBVIOUS
<1>1. LockInv
  BY LockInit
<1>2. HoldersInUser /\ Charged = {} /\ \A p \in Procs : pc[p] = "unforked"
  BY DEF Init, HoldersInUser, Charged, Owes
<1> QED
  BY <1>1, <1>2 DEF CountInv, PermitsAddUp

(* What a step does to the processes charged. *)
LEMMA ChargedNext ==
    ASSUME Lockers = Procs, CountInv, [Next]_vars
    PROVE  /\ HoldersInUser'
           /\ lock' = NULL => Charged' = {}
           /\ \/ SemInit /\ Charged' = {} /\ \A p \in Procs : pc[p] = "unforked"
              \/ /\ Charged' = Charged /\ value' = value
                 /\ (\E p \in Procs : pc'[p] # "unforked") => \E p \in Procs : pc[p] # "unforked"
              \/ \E p \in Procs : /\ pc[p] # "unforked"
                                  /\ p \notin Charged
                                  /\ Charged' = Charged \cup {p} /\ value' = value - 1
              \/ \E p \in Procs : /\ pc[p] # "unforked"
                                  /\ p \in Charged
                                  /\ Charged' = Charged \ {p} /\ value' = value + 1
<1>1. /\ pc \in [Procs -> Labels]
      /\ holders \in SUBSET Procs
      /\ Waiters = {} /\ Signallers = {}
      /\ \A p \in Procs : lock = p <=> pc[p] \in Locked
      /\ \A p \in holders : pc[p] = "user"
      /\ lock = NULL => \A p \in Procs : ~Owes(p)
  BY KernelSemAssumption DEF CountInv, LockInv, TypeOK, LockOwner, HoldersInUser, Charged
<1> USE <1>1, KernelSemAssumption DEF HoldersInUser, Owes, Locked
<1>2. CASE SemInit
  <2>1. /\ \A p \in Procs : pc[p] = "unforked"
        /\ \A p \in Procs : ~Owes(p)'
        /\ HoldersInUser'
    BY <1>2 DEF SemInit
  <2> QED
    BY <1>2, <2>1 DEF Charged
<1>3. ASSUME NEW p \in Procs, DownLock(p)
      PROVE  /\ HoldersInUser' /\ lock' # NULL /\ pc[p] # "unforked" /\ p \notin Charged
             /\ Charged' = Charged \cup {p} /\ value' = value - 1
  <2>1. HoldersInUser' /\ ~Owes(p) /\ lock' # NULL /\ value' = value - 1 /\ pc[p] # "unforked"
    BY <1>3 DEF DownLock
  <2>2. \A q \in Procs : Owes(q)' <=> Owes(q) \/ q = p
    BY <1>3 DEF DownLock
  <2> QED
    BY <2>1, <2>2, ZenonT(40) DEF Charged
<1>4. ASSUME NEW p \in Procs, UpLock(p)
      PROVE  /\ HoldersInUser' /\ lock' # NULL /\ pc[p] # "unforked" /\ p \in Charged
             /\ Charged' = Charged \ {p} /\ value' = value + 1
  <2>1. HoldersInUser' /\ Owes(p) /\ lock' # NULL /\ value' = value + 1 /\ pc[p] # "unforked"
    BY <1>4 DEF UpLock
  <2>2. \A q \in Procs : Owes(q)' <=> Owes(q) /\ q # p
    BY <1>4 DEF UpLock
  <2> QED
    BY <2>1, <2>2, Zenon DEF Charged
<1>5. ASSUME NEW p \in Procs,
             \/ CallDown(p) \/ CallUp(p) \/ Oops(p) \/ DownUnlock(p) \/ DownNoMemory(p)
             \/ DownEnqueue(p) \/ DownWaitUnlock(p) \/ Schedule(p) \/ Signal(p)
             \/ UpWake(p) \/ UpUnlock(p)
      PROVE  /\ HoldersInUser' /\ (lock' = NULL => lock = NULL)
             /\ Charged' = Charged /\ value' = value
             /\ (\E q \in Procs : pc'[q] # "unforked") => \E q \in Procs : pc[q] # "unforked"
  <2>1. value' = value /\ (lock' = NULL => lock = NULL)
    BY <1>5 DEF CallDown, CallUp, Oops, DownUnlock, DownNoMemory, DownEnqueue,
                DownWaitUnlock, Schedule, Signal, UpWake, UpUnlock
  <2>2. HoldersInUser'
    BY <1>5 DEF CallDown, CallUp, Oops, DownUnlock, DownNoMemory, DownEnqueue,
                DownWaitUnlock, Schedule, Signal, UpWake, UpUnlock
  <2>3. ASSUME NEW q \in Procs
        PROVE  Owes(q)' <=> Owes(q)
    <3>1. CASE CallDown(p) \/ CallUp(p) \/ Oops(p) \/ DownEnqueue(p) \/ DownWaitUnlock(p)
      BY <3>1 DEF CallDown, CallUp, Oops, DownEnqueue, DownWaitUnlock
    <3>2. CASE DownUnlock(p) \/ DownNoMemory(p) \/ Schedule(p) \/ Signal(p) \/ UpWake(p) \/ UpUnlock(p)
      BY <3>2 DEF DownUnlock, DownNoMemory, Schedule, Signal, UpWake, UpUnlock
    <3> QED
      BY <1>5, <3>1, <3>2
  <2>4. (\E q \in Procs : pc'[q] # "unforked") => \E q \in Procs : pc[q] # "unforked"
    BY <1>5 DEF CallDown, CallUp, Oops, DownUnlock, DownNoMemory, DownEnqueue,
                DownWaitUnlock, Schedule, Signal, UpWake, UpUnlock
  <2> QED
    BY <2>1, <2>2, <2>3, <2>4, Zenon DEF Charged
<1>6. CASE UNCHANGED vars
  BY <1>6 DEF vars, Charged
<1>7. \/ SemInit \/ UNCHANGED vars
      \/ \E p \in Procs : \/ DownLock(p) \/ UpLock(p)
                         \/ CallDown(p) \/ CallUp(p) \/ Oops(p) \/ DownUnlock(p) \/ DownNoMemory(p)
                         \/ DownEnqueue(p) \/ DownWaitUnlock(p) \/ Schedule(p) \/ Signal(p)
                         \/ UpWake(p) \/ UpUnlock(p)
  BY DEF Next, InKernel
<1> HIDE DEF HoldersInUser, Owes
<1> QED
  BY <1>2, <1>3, <1>4, <1>5, <1>6, <1>7 DEF CountInv

LEMMA CountNext ==
    ASSUME Lockers = Procs, IsFiniteSet(Procs)
    PROVE  CountInv /\ [Next]_vars => CountInv'
<1> SUFFICES ASSUME CountInv, [Next]_vars
             PROVE  CountInv'
  OBVIOUS
<1>1. LockInv'
  BY LockNext DEF CountInv
<1>2. HoldersInUser' /\ (lock' = NULL => Charged' = {})
  BY ChargedNext
<1>3. IsFiniteSet(Charged) /\ Cardinality(Charged) \in Nat
  <2>1. Charged \in SUBSET Procs
    BY DEF Charged
  <2> QED
    BY <2>1, FS_Subset, FS_CardinalityType
<1>4. value \in Int
  BY DEF CountInv, LockInv, TypeOK
<1>5. PermitsAddUp'
  <2>1. CASE SemInit /\ Charged' = {} /\ \A p \in Procs : pc[p] = "unforked"
    <3>1. value' = InitValue /\ Cardinality(Charged') = 0
      BY <2>1, FS_EmptySet DEF SemInit
    <3> QED
      BY <3>1, KernelSemAssumption DEF PermitsAddUp
  <2>2. CASE /\ Charged' = Charged /\ value' = value
             /\ (\E p \in Procs : pc'[p] # "unforked") => \E p \in Procs : pc[p] # "unforked"
    BY <2>2 DEF PermitsAddUp, CountInv
  <2>3. ASSUME NEW p \in Procs, pc[p] # "unforked", p \notin Charged,
               Charged' = Charged \cup {p}, value' = value - 1
        PROVE  PermitsAddUp'
    <3>1. Cardinality(Charged') = Cardinality(Charged) + 1
      BY <1>3, <2>3, FS_AddElement
    <3> QED
      BY <1>3, <1>4, <2>3, <3>1, KernelSemAssumption DEF PermitsAddUp, CountInv
  <2>4. ASSUME NEW p \in Procs, pc[p] # "unforked", p \in Charged,
               Charged' = Charged \ {p}, value' = value + 1
        PROVE  PermitsAddUp'
    <3>1. Cardinality(Charged') = Cardinality(Charged) - 1
      BY <1>3, <2>4, FS_RemoveElement
    <3> QED
      BY <1>3, <1>4, <2>4, <3>1, KernelSemAssumption DEF PermitsAddUp, CountInv
  <2> QED
    BY <2>1, <2>2, <2>3, <2>4, ChargedNext
<1> QED
  BY <1>1, <1>2, <1>5 DEF CountInv

LEMMA CountInvariant ==
    ASSUME Lockers = Procs, IsFiniteSet(Procs)
    PROVE  SafeSpec => []CountInv
BY CountInit, CountNext, PTL DEF SafeSpec

(* A semaphore used as a lock loses no permit and leaves nobody in its     *)
(* queue, even when kmalloc fails and signals cut a sleep short.           *)
THEOREM PermitsAreConserved ==
    ASSUME Lockers = Procs, IsFiniteSet(Procs), Procs # {}
    PROVE  SafeSpec => []PermitsConserved
<1>1. CountInv => PermitsConserved
  <2> SUFFICES ASSUME CountInv, holders = {}, \A p \in Procs : pc[p] = "user"
               PROVE  value = InitValue /\ waitq = <<>>
    BY DEF PermitsConserved
  <2>1. value \in Int /\ waitq \in Seq(Nodes)
    BY DEF CountInv, LockInv, TypeOK
  <2>2. Cardinality(Charged) = 0
    <3>1. Charged = {}
      BY DEF Charged, Owes
    <3> QED
      BY <3>1, FS_EmptySet
  <2>3. value = InitValue
    BY <2>1, <2>2, KernelSemAssumption DEF CountInv, PermitsAddUp
  <2>4. Len(waitq) <= 0
    <3>1. Len(waitq) <= IF value < 0 THEN -value ELSE 0
      BY Zenon DEF CountInv, LockInv, QueueBound
    <3> QED
      BY <2>3, <3>1, KernelSemAssumption
  <2> QED
    BY <2>1, <2>3, <2>4, SeqFacts
<1> QED
  BY <1>1, CountInvariant, PTL

(* Mutual exclusion: with kmalloc and signals out of the way, the process  *)
(* that is let into its critical section is one of at most InitValue,      *)
(* because the others that owe a permit are in the queue or on their way   *)
(* to it.                                                                  *)
THEOREM SemaphoreExcludes ==
    ASSUME Lockers = Procs, IsFiniteSet(Procs), Procs # {}, ~AllocFails, ~Signals
    PROVE  SafeSpec => []MutualExclusion
<1>1. SleepInv /\ CountInv => MutualExclusion
  <2> SUFFICES ASSUME SleepInv, CountInv
               PROVE  Cardinality(holders) <= InitValue
    BY DEF MutualExclusion
  <2>1. /\ value \in Int /\ waitq \in Seq(Nodes)
        /\ Len(waitq) \in Nat /\ DOMAIN waitq = 1 .. Len(waitq)
        /\ pc \in [Procs -> Labels]
        /\ holders \in SUBSET Procs
    BY SeqFacts DEF CountInv, LockInv, TypeOK
  <2>2. /\ Charged \in SUBSET Procs /\ holders \in SUBSET Charged
        /\ IsFiniteSet(Charged) /\ IsFiniteSet(holders)
        /\ Cardinality(Charged) \in Nat /\ Cardinality(holders) \in Nat
    <3>1. Charged \in SUBSET Procs /\ holders \in SUBSET Charged
      BY <2>1 DEF Charged, Owes
    <3> QED
      BY <2>1, <3>1, FS_Subset, FS_CardinalityType
  <2> DEFINE rest == Charged \ holders
  <2>3. IsFiniteSet(rest) /\ Cardinality(rest) = Cardinality(Charged) - Cardinality(holders)
    <3>1. Charged \cap holders = holders
      BY <2>2
    <3> QED
      BY <2>2, <3>1, FS_Difference
  <2>4. ASSUME NEW T \in SUBSET rest, \A i \in DOMAIN waitq : task[waitq[i]] \in T
        PROVE  Len(waitq) <= Cardinality(T) /\ Cardinality(T) \in Nat
    <3>1. IsFiniteSet(T) /\ Cardinality(T) \in Nat
      BY <2>3, FS_Subset, FS_CardinalityType
    <3> DEFINE f == [i \in 1 .. Len(waitq) |-> task[waitq[i]]]
    <3>2. f \in Injection(1 .. Len(waitq), T)
      <4>1. f \in [1 .. Len(waitq) -> T]
        BY <2>1, <2>4
      <4>2. \A i, j \in 1 .. Len(waitq) : f[i] = f[j] => i = j
        BY <2>1 DEF SleepInv, QueuedOnce
      <4> HIDE DEF f
      <4> QED
        BY <4>1, <4>2 DEF Injection, IsInjective
    <3>3. Cardinality(1 .. Len(waitq)) = Len(waitq)
      <4> DEFINE k == Len(waitq)
      <4>1. k \in Nat
        BY <2>1
      <4> HIDE DEF k
      <4>2. Cardinality(1 .. k) = k
        BY <4>1, FS_Interval
      <4> QED
        BY <4>2 DEF k
    <3> QED
      BY <3>1, <3>2, <3>3, FS_Injection
  <2>5. \A i \in DOMAIN waitq : task[waitq[i]] \in rest
    BY DEF SleepInv, QueuedOnce, Charged, Owes, CountInv, HoldersInUser
  <2>6. Len(waitq) <= Cardinality(Charged) - Cardinality(holders)
    BY <2>3, <2>4, <2>5
  <2>7. CASE \A p \in Procs : pc[p] = "unforked"
    <3>1. holders = {}
      BY <2>1, <2>7 DEF CountInv, HoldersInUser
    <3> QED
      BY <3>1, FS_EmptySet, KernelSemAssumption
  <2>8. CASE \E p \in Procs : pc[p] # "unforked"
    <3>1. Cardinality(Charged) = InitValue - value
      BY <2>1, <2>2, <2>8, KernelSemAssumption DEF CountInv, PermitsAddUp
    <3>2. CASE \E p \in Procs : pc[p] = "down_enqueue"
      <4>1. PICK p \in Procs : pc[p] = "down_enqueue"
        BY <3>2
      <4>2. Len(waitq) = -value - 1
        BY <4>1 DEF SleepInv, QueueExact
      <4>3. p \in rest
        BY <4>1 DEF Charged, Owes, CountInv, HoldersInUser
      <4>4. \A i \in DOMAIN waitq : task[waitq[i]] \in rest \ {p}
        BY <2>5, <4>1 DEF SleepInv, QueuedOnce
      <4>5. Len(waitq) <= Cardinality(rest \ {p})
        BY <2>4, <4>4
      <4>6. Cardinality(rest \ {p}) = Cardinality(rest) - 1
        BY <2>3, <4>3, FS_RemoveElement
      <4> HIDE DEF rest
      <4> QED
        BY <2>1, <2>2, <2>3, <3>1, <4>2, <4>5, <4>6, KernelSemAssumption
    <3>3. CASE \E p \in Procs : pc[p] = "up_wake"
      <4>1. value <= 0 /\ Len(waitq) = 1 - value
        BY <3>3 DEF SleepInv, QueueExact
      <4> QED
        BY <2>1, <2>2, <2>6, <3>1, <4>1, KernelSemAssumption
    <3>4. CASE \A p \in Procs : pc[p] \notin {"down_enqueue", "up_wake"}
      <4>1. Len(waitq) = IF value < 0 THEN -value ELSE 0
        BY <3>4, Zenon DEF SleepInv, QueueExact
      <4> QED
        BY <2>1, <2>2, <2>6, <3>1, <4>1, KernelSemAssumption
    <3> QED
      BY <3>2, <3>3, <3>4
  <2> QED
    BY <2>7, <2>8
<1> QED
  BY <1>1, CountInvariant, SleepInvariant, PTL
==============================================================================
