----------------------------- MODULE MCKernelCalls -----------------------------
EXTENDS KernelCalls, TLC

(* Two tasks of one user; the second runs a program of another user.       *)
CONSTANTS t1, t2
MCUid == t1 :> "ann" @@ t2 :> "ann"
MCEuid == t1 :> "ann" @@ t2 :> "bob"
MCGroup == t1 :> 1 @@ t2 :> 2
MCNiceLimit == t1 :> 0 @@ t2 :> 2
MCMinNice == -1
MCAsked == {-2, 0, 2}

(* An auxiliary vector that fills the room, and one that is shorter. *)
MCVectors == {<<7, 7, 7>>, <<8>>}

(* The data and the heap take one unit each, or the data ends before it    *)
(* starts.                                                                 *)
MCGiven ==
    {m \in Maps : m[<<"stack", "start">>] = 1 /\ m[<<"brk", "start">>] = 1
                  /\ m[<<"brk", "end">>] = 2 /\ Size(m, "data") \in {-1, 1}}

(* The shells are alike, and so are the threads. *)
Symmetry == Permutations(Shells) \cup Permutations(Threads)
==============================================================================
