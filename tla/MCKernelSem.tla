----------------------------- MODULE MCKernelSem -----------------------------
(* Instances of KernelSem for TLC. *)
EXTENDS KernelSem, TLC

(* Processes and list nodes are interchangeable: safety runs only. *)
Symmetry == Permutations(Procs) \cup Permutations(Nodes)
==============================================================================
