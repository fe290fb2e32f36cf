------------------------------ MODULE Semaphore ------------------------------
(***************************************************************************)
(* What the three cs1550 semaphore system calls of project4/sys.c promise  *)
(* to a caller, with the kernel mutex, the wait list and the scheduler     *)
(* left out.                                                               *)
(*                                                                         *)
(* A semaphore keeps a number of free permits and the processes that wait  *)
(* for one, in the order in which they arrived.  down() takes a permit or  *)
(* joins the queue; up() hands its permit to the process at the head of    *)
(* the queue or, when nobody waits, gives it back.  A call of down()       *)
(* returns once its process has been given a permit, and never before.     *)
(***************************************************************************)
EXTENDS Naturals, Sequences

CONSTANTS Procs,      \* the processes that call down() and up()
          InitValue   \* the value given to cs1550_seminit

VARIABLES permits,    \* permits nobody has been given
          waiting,    \* the processes blocked in down(), oldest first
          granted     \* the processes given a permit whose down() has not returned

vars == <<permits, waiting, granted>>

Queued == {waiting[i] : i \in DOMAIN waiting}

Init ==
    /\ permits = InitValue
    /\ waiting = <<>>
    /\ granted = {}

(* down() on a semaphore that has a free permit. *)
Acquire(p) ==
    /\ p \notin granted \cup Queued
    /\ permits > 0
    /\ permits' = permits - 1
    /\ granted' = granted \cup {p}
    /\ UNCHANGED waiting

(* down() on a semaphore that has none: the caller joins the queue. *)
Enqueue(p) ==
    /\ p \notin granted \cup Queued
    /\ permits = 0
    /\ waiting' = Append(waiting, p)
    /\ UNCHANGED <<permits, granted>>

(* up() with nobody waiting. *)
Release ==
    /\ waiting = <<>>
    /\ permits' = permits + 1
    /\ UNCHANGED <<waiting, granted>>

(* up() with processes waiting: the permit goes straight to the oldest. *)
HandOver ==
    /\ waiting # <<>>
    /\ waiting' = Tail(waiting)
    /\ granted' = granted \cup {Head(waiting)}
    /\ UNCHANGED permits

(* The call of down() returns to the process that was given a permit. *)
Return(p) ==
    /\ p \in granted
    /\ granted' = granted \ {p}
    /\ UNCHANGED <<permits, waiting>>

Next ==
    \/ Release
    \/ HandOver
    \/ \E p \in Procs : Acquire(p) \/ Enqueue(p) \/ Return(p)

SafeSpec == Init /\ [][Next]_vars

(* A process that has its permit is not kept in down() for ever. *)
Spec == SafeSpec /\ \A p \in Procs : WF_vars(Return(p))
==============================================================================
