------------------------------ MODULE KernelSem ------------------------------
(***************************************************************************)
(* The semaphore system calls of project4/sys.c (cs1550_seminit,           *)
(* cs1550_down, cs1550_up), at the grain at which the kernel interleaves   *)
(* them: taking the mutex, the work done under it, releasing it, and the   *)
(* sleep in schedule() are steps of their own.                             *)
(*                                                                         *)
(* Everything a call does between mutex_lock and mutex_unlock touches data *)
(* that is only accessed with the mutex held, so a stretch of it is one    *)
(* step wherever nothing outside the mutex can observe the middle of it.   *)
(*                                                                         *)
(* The callers follow the two ways trafficsim.c uses a semaphore: Lockers  *)
(* bracket a critical section with down() and up() (the semaphore called   *)
(* mutex there); Waiters only call down() and Signallers only call up()    *)
(* (empty, full and cum_sem).                                              *)
(***************************************************************************)
EXTENDS Integers, Sequences, FiniteSets

CONSTANTS
    Procs,       \* the processes that share the semaphore
    Lockers,     \* those that use it as a lock
    Waiters,     \* those that only call down()
    Signallers,  \* those that only call up()
    Nodes,       \* the queue_node objects kmalloc can return
    NULL,        \* the null pointer
    Free,        \* the owner of a mutex nobody holds
    InitValue,   \* the argument of cs1550_seminit
    MaxValue,    \* bound: a Signaller calls up() only below this value
    AllocFails,  \* whether kmalloc may return NULL
    Signals      \* whether a signal may reach a sleeping process

ASSUME KernelSemAssumption ==
    /\ Lockers \subseteq Procs /\ Waiters \subseteq Procs /\ Signallers \subseteq Procs
    /\ Lockers \cap (Waiters \cup Signallers) = {}
    /\ NULL \notin Nodes \cup Procs
    /\ Free \notin Procs \cup {NULL}
    /\ InitValue \in Nat
    /\ MaxValue \in Nat
    /\ AllocFails \in BOOLEAN
    /\ Signals \in BOOLEAN

VARIABLES
    value,      \* sem->value
    lock,       \* the owner of *sem->lock; Free when unlocked, NULL before kmalloc
    head,       \* sem->queue_head
    tail,       \* sem->queue_tail
    task,       \* node->task
    next,       \* node->next
    allocated,  \* the queue_node objects kmalloc has returned and kfree has not taken
    sched,      \* the scheduler state of each process
    pc,         \* where each process is
    holders,    \* history: the Lockers inside their critical section
    waitq       \* history: the nodes enqueued and not dequeued, oldest first

listVars == <<head, tail, task, next, allocated, waitq>>
vars == <<value, lock, listVars, sched, pc, holders>>

Goto(p, label) == pc' = [pc EXCEPT ![p] = label]

Init ==
    /\ value = 0
    /\ lock = NULL
    /\ head = NULL
    /\ tail = NULL
    /\ task = [n \in Nodes |-> NULL]
    /\ next = [n \in Nodes |-> NULL]
    /\ allocated = {}
    /\ sched = [p \in Procs |-> "running"]
    /\ pc = [p \in Procs |-> "unforked"]
    /\ holders = {}
    /\ waitq = <<>>

(* cs1550_seminit, called once by main() before it forks; the wrapper init *)
(* of trafficsim.c drops the result, so the processes start either way.    *)
SemInit ==
    /\ pc = [p \in Procs |-> "unforked"]
    /\ value' = InitValue
    /\ lock' \in IF AllocFails THEN {Free, NULL} ELSE {Free}
    /\ pc' = [p \in Procs |-> "user"]
    /\ UNCHANGED <<listVars, sched, holders>>

(* A process enters one of the two system calls. *)
CallDown(p) ==
    /\ pc[p] = "user"
    /\ p \in Waiters \cup (Lockers \ holders)
    /\ Goto(p, "down")
    /\ UNCHANGED <<value, lock, listVars, sched, holders>>

CallUp(p) ==
    /\ pc[p] = "user"
    /\ \/ p \in holders
       \/ p \in Signallers /\ value < MaxValue
    /\ holders' = holders \ {p}
    /\ Goto(p, "up")
    /\ UNCHANGED <<value, lock, listVars, sched>>

(* mutex_lock on the mutex that was never allocated: the caller is killed. *)
Oops(p) ==
    /\ pc[p] \in {"down", "up"}
    /\ lock = NULL
    /\ Goto(p, "oops")
    /\ UNCHANGED <<value, lock, listVars, sched, holders>>

(* down() returns; a Locker takes it that it is in its critical section.   *)
(* The wrapper down of trafficsim.c does not look at the result.           *)
ReturnFromDown(p) ==
    /\ Goto(p, "user")
    /\ holders' = IF p \in Lockers THEN holders \cup {p} ELSE holders

(* Mutant: the value is tested before it is lowered. *)
DownLockTestsTooEarly(p) ==
    /\ pc[p] = "down"
    /\ lock = Free
    /\ lock' = p
    /\ value' = value - 1
    /\ Goto(p, IF value < 0 THEN "down_enqueue" ELSE "down_unlock")
    /\ UNCHANGED <<listVars, sched, holders>>

DownLock(p) ==
    /\ pc[p] = "down"
    /\ lock = Free
    /\ lock' = p
    /\ value' = value - 1
    /\ Goto(p, IF value' < 0 THEN "down_enqueue" ELSE "down_unlock")
    /\ UNCHANGED <<listVars, sched, holders>>

DownUnlock(p) ==
    /\ pc[p] = "down_unlock"
    /\ lock' = Free
    /\ ReturnFromDown(p)
    /\ UNCHANGED <<value, listVars, sched>>

(* Mutant: the error path gives the permit back. *)
DownNoMemoryRestores(p) ==
    /\ pc[p] = "down_enqueue"
    /\ AllocFails
    /\ lock' = Free
    /\ value' = value + 1
    /\ ReturnFromDown(p)
    /\ UNCHANGED <<listVars, sched>>

(* kmalloc fails: unlock and return -ENOMEM, with the value still lowered. *)
DownNoMemory(p) ==
    /\ pc[p] = "down_enqueue"
    /\ AllocFails
    /\ lock' = Free
    /\ ReturnFromDown(p)
    /\ UNCHANGED <<value, listVars, sched>>

(* Mutant: the node is pushed at the head. *)
LinkAtHead(n) ==
    /\ head' = n
    /\ next' = [next EXCEPT ![n] = head]
    /\ tail' = IF head = NULL THEN n ELSE tail

(* Link the new node in at the tail. *)
LinkAtTail(n) ==
    /\ tail' = n
    /\ \/ /\ head = NULL
          /\ head' = n
          /\ next' = [next EXCEPT ![n] = NULL]
       \/ /\ head # NULL
          /\ next' = [next EXCEPT ![n] = NULL, ![tail] = n]
          /\ UNCHANGED head

(* Mutant: set_current_state(TASK_INTERRUPTIBLE) is missing. *)
DownEnqueueStaysRunning(p) ==
    /\ pc[p] = "down_enqueue"
    /\ \E n \in Nodes \ allocated :
          /\ allocated' = allocated \cup {n}
          /\ task' = [task EXCEPT ![n] = p]
          /\ LinkAtTail(n)
          /\ waitq' = Append(waitq, n)
    /\ Goto(p, "down_wait_unlock")
    /\ UNCHANGED <<value, lock, sched, holders>>

DownEnqueue(p) ==
    /\ pc[p] = "down_enqueue"
    /\ \E n \in Nodes \ allocated :
          /\ allocated' = allocated \cup {n}
          /\ task' = [task EXCEPT ![n] = p]
          /\ LinkAtTail(n)
          /\ waitq' = Append(waitq, n)
    /\ sched' = [sched EXCEPT ![p] = "interruptible"]
    /\ Goto(p, "down_wait_unlock")
    /\ UNCHANGED <<value, lock, holders>>

DownWaitUnlock(p) ==
    /\ pc[p] = "down_wait_unlock"
    /\ lock' = Free
    /\ Goto(p, "schedule")
    /\ UNCHANGED <<value, listVars, sched, holders>>

(* schedule() comes back once the scheduler state is running again. *)
Schedule(p) ==
    /\ pc[p] = "schedule"
    /\ sched[p] = "running"
    /\ ReturnFromDown(p)
    /\ UNCHANGED <<value, lock, listVars, sched>>

(* A signal makes a process in TASK_INTERRUPTIBLE runnable. *)
Signal(p) ==
    /\ Signals
    /\ sched[p] = "interruptible"
    /\ sched' = [sched EXCEPT ![p] = "running"]
    /\ UNCHANGED <<value, lock, listVars, pc, holders>>

(* Mutant: a waiter is woken only when others remain. *)
UpLockOffByOne(p) ==
    /\ pc[p] = "up"
    /\ lock = Free
    /\ lock' = p
    /\ value' = value + 1
    /\ Goto(p, IF value' < 0 THEN "up_wake" ELSE "up_unlock")
    /\ UNCHANGED <<listVars, sched, holders>>

UpLock(p) ==
    /\ pc[p] = "up"
    /\ lock = Free
    /\ lock' = p
    /\ value' = value + 1
    /\ Goto(p, IF value' <= 0 THEN "up_wake" ELSE "up_unlock")
    /\ UNCHANGED <<listVars, sched, holders>>

(* Mutant: queue_tail is left behind when the list becomes empty. *)
WakeHeadKeepsTail ==
    /\ head # NULL
    /\ head' = next[head]
    /\ sched' = [sched EXCEPT ![task[head]] = "running"]
    /\ allocated' = allocated \ {head}
    /\ waitq' = Tail(waitq)
    /\ UNCHANGED <<tail, task, next>>

(* Take the node at the head off the list, wake its process and free it. *)
WakeHead ==
    /\ head # NULL
    /\ head' = next[head]
    /\ tail' = IF head' = NULL THEN NULL ELSE tail
    /\ sched' = [sched EXCEPT ![task[head]] = "running"]
    /\ allocated' = allocated \ {head}
    /\ waitq' = Tail(waitq)
    /\ UNCHANGED <<task, next>>

UpWake(p) ==
    /\ pc[p] = "up_wake"
    /\ \/ WakeHead
       \/ head = NULL /\ UNCHANGED <<listVars, sched>>
    /\ Goto(p, "up_unlock")
    /\ UNCHANGED <<value, lock, holders>>

UpUnlock(p) ==
    /\ pc[p] = "up_unlock"
    /\ lock' = Free
    /\ Goto(p, "user")
    /\ UNCHANGED <<value, listVars, sched, holders>>

(* The steps of down() and up() after the call. *)
InKernel(p) ==
    \/ Oops(p)
    \/ DownLock(p) \/ DownUnlock(p) \/ DownNoMemory(p) \/ DownEnqueue(p)
    \/ DownWaitUnlock(p) \/ Schedule(p)
    \/ UpLock(p) \/ UpWake(p) \/ UpUnlock(p)

Next ==
    \/ SemInit
    \/ \E p \in Procs : CallDown(p) \/ CallUp(p) \/ InKernel(p) \/ Signal(p)

SafeSpec == Init /\ [][Next]_vars

(***************************************************************************)
(* Fairness.  A process inside a system call is not descheduled for ever   *)
(* (WF), the kernel's mutex hands itself over in arrival order so that     *)
(* nobody waits for it for ever (SF on taking it), and a Locker leaves its *)
(* critical section.  Nothing says that anybody calls down(), nor that a   *)
(* Signaller calls up().                                                   *)
(***************************************************************************)
Fairness ==
    /\ WF_vars(SemInit)
    /\ \A p \in Procs :
          /\ WF_vars(InKernel(p))
          /\ SF_vars(DownLock(p))
          /\ SF_vars(UpLock(p))
    /\ \A p \in Lockers : WF_vars(CallUp(p))

Spec == SafeSpec /\ Fairness
------------------------------------------------------------------------------
Labels == {"unforked", "user", "down", "down_enqueue", "down_unlock",
           "down_wait_unlock", "schedule", "up", "up_wake", "up_unlock", "oops"}

(* Every variable stays in its range. *)
TypeOK ==
    /\ value \in Int
    /\ lock \in Procs \cup {Free, NULL}
    /\ head \in Nodes \cup {NULL}
    /\ tail \in Nodes \cup {NULL}
    /\ task \in [Nodes -> Procs \cup {NULL}]
    /\ next \in [Nodes -> Nodes \cup {NULL}]
    /\ allocated \in SUBSET Nodes
    /\ sched \in [Procs -> {"running", "interruptible"}]
    /\ pc \in [Procs -> Labels]
    /\ holders \in SUBSET Lockers
    /\ waitq \in Seq(Nodes)

(* The processes whose nodes are in the list, oldest first. *)
WaitingProcs == [i \in DOMAIN waitq |-> task[waitq[i]]]

(* The pointers describe the queue: walking next from queue_head visits    *)
(* exactly the nodes that were enqueued and not dequeued, in that order,   *)
(* ends at queue_tail, and touches only memory that is still allocated     *)
(* (sys.c lines 192-200 and 220-227).                                      *)
ListMatchesQueue ==
    /\ head = IF waitq = <<>> THEN NULL ELSE waitq[1]
    /\ tail = IF waitq = <<>> THEN NULL ELSE waitq[Len(waitq)]
    /\ \A i \in DOMAIN waitq :
          next[waitq[i]] = IF i = Len(waitq) THEN NULL ELSE waitq[i + 1]
    /\ allocated = {waitq[i] : i \in DOMAIN waitq}
    /\ \A i, j \in DOMAIN waitq : waitq[i] = waitq[j] => i = j

(* No wakeup is lost between enqueueing and sleeping: a process that is    *)
(* about to sleep or asleep is in the queue, so that some later up() finds *)
(* it, and when nobody is inside the kernel code a negative value counts   *)
(* exactly the processes in the queue.                                     *)
NoLostWakeup ==
    /\ \A p \in Procs : sched[p] = "interruptible" =>
          \E i \in DOMAIN waitq : WaitingProcs[i] = p
    /\ lock = Free => Len(waitq) = IF value < 0 THEN -value ELSE 0

(* Nobody is stranded, even when kmalloc fails or signals cut a sleep      *)
(* short: outside the critical code the queue is never longer than the     *)
(* debt that a negative value records, so that the up() calls that settle  *)
(* the debt reach every process in the queue (sys.c lines 180 and 217).    *)
NobodyStranded ==
    lock = Free => Len(waitq) <= IF value < 0 THEN -value ELSE 0

(* A semaphore used as a lock loses no permit, whatever fails: once every  *)
(* process is back in user mode and out of its critical section, the value *)
(* is the one given to cs1550_seminit and the queue is empty.              *)
PermitsConserved ==
    Lockers = Procs /\ holders = {} /\ (\A p \in Procs : pc[p] = "user")
        => value = InitValue /\ waitq = <<>>

(* The semaphore used as a lock: no more Lockers are between their down()  *)
(* and their up() than cs1550_seminit gave permits.                        *)
MutualExclusion == Cardinality(holders) <= InitValue

(* "Sleep until semaphore is available" (sys.c line 203): a process that   *)
(* went to sleep in down() comes back only after an up() has taken its     *)
(* node off the queue.                                                     *)
SleepsUntilAvailable ==
    [][\A p \in Procs : pc[p] = "schedule" /\ pc'[p] = "user" =>
          \A i \in DOMAIN waitq : WaitingProcs[i] # p]_vars

(* Every down() on a semaphore used as a lock returns: FIFO service and    *)
(* the hand-over of the permit leave nobody behind.                        *)
DownReturns == \A p \in Lockers : pc[p] = "down" ~> p \in holders

(***************************************************************************)
(* The system calls implement the abstract semaphore.  A process has been  *)
(* granted its permit from the moment its down() lowered a positive value, *)
(* or an up() took its node off the list, until the call returns.          *)
(***************************************************************************)
Permits == IF pc = [p \in Procs |-> "unforked"] THEN InitValue
           ELSE IF value > 0 THEN value ELSE 0

Granted ==
    {p \in Procs :
        \/ pc[p] = "down_unlock"
        \/ /\ pc[p] \in {"down_wait_unlock", "schedule"}
           /\ \A i \in DOMAIN waitq : WaitingProcs[i] # p}

Abstract == INSTANCE Semaphore
    WITH permits <- Permits, waiting <- WaitingProcs, granted <- Granted

ImplementsSemaphore == Abstract!Spec
==============================================================================
