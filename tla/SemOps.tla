-------------------------------- MODULE SemOps --------------------------------
(***************************************************************************)
(* A cs1550 semaphore as a value, for programs that use several of them:   *)
(* the permits nobody holds and the processes blocked in down(), oldest    *)
(* first.  down and up are the steps of module Semaphore; KernelSem shows  *)
(* that the system calls implement them.                                   *)
(***************************************************************************)
EXTENDS Naturals, Sequences

Sem(v) == [permits |-> v, waiting |-> <<>>]

(* down(): take a permit or join the queue. *)
Down(sem, p) ==
    IF sem.permits > 0
    THEN [sem EXCEPT !.permits = @ - 1]
    ELSE [sem EXCEPT !.waiting = Append(@, p)]

(* up(): hand the permit to the oldest waiter, or keep it. *)
Up(sem) ==
    IF sem.waiting = <<>>
    THEN [sem EXCEPT !.permits = @ + 1]
    ELSE [sem EXCEPT !.waiting = Tail(@)]

WaitsOn(sem, p) == \E i \in DOMAIN sem.waiting : sem.waiting[i] = p
==============================================================================
