------------------------------ MODULE MCMsgQueue ------------------------------
(* Symmetry for the runs of MsgQueue that check invariants only: no        *)
(* definition tells processes, objects or messages apart.                  *)
EXTENDS MsgQueue, TLC

Symmetry == Permutations(Procs) \cup Permutations(Nodes) \cup Permutations(Msgs)
==============================================================================
