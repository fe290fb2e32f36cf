------------------------------- MODULE MCOsmsg -------------------------------
(* Two terminals of two users, and symmetry in the objects and messages.   *)
EXTENDS Osmsg, TLC

CONSTANTS p1, p2

TwoUsers == p1 :> "ann" @@ p2 :> "bob"

Symmetry == Permutations(Nodes) \cup Permutations(Msgs)
==============================================================================
