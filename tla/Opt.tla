---------------------------------- MODULE Opt ----------------------------------
(***************************************************************************)
(* Simulate.opt of project5: the page to evict is the one used again       *)
(* furthest in the future.  A first pass over the trace records, for each  *)
(* page, the lines that use it; the second pass simulates.                 *)
(***************************************************************************)
EXTENDS PageTable

VARIABLE futureMap      \* for each page, the lines to come that use it

OptInit ==
    /\ TableInit("scan")
    /\ futureMap = [p \in Pages |-> <<>>]

(* The first pass: the number of each line is noted for its page. *)
OptScan ==
    /\ pc = "scan" /\ line < Len(trace)
    /\ futureMap' = [futureMap EXCEPT ![Page] = Append(@, line)]
    /\ line' = line + 1
    /\ UNCHANGED <<trace, instructionType, accessType, pageTable, pageFrames, currentFrame,
                   counters, pc, block, history>>

(* The trace is opened again. *)
OptReopen ==
    /\ pc = "scan" /\ line = Len(trace)
    /\ line' = 0
    /\ pc' = "read"
    /\ UNCHANGED <<trace, instructionType, accessType, pageTable, pageFrames, currentFrame,
                   counters, block, history, futureMap>>

OptRead(kind) ==
    /\ ReadLine(kind, pageTable, recent)
    /\ futureMap' = [futureMap EXCEPT ![Page] = Tail(@)]

NextUse(f) == Head(futureMap[pageFrames[f]])

(* Mutant: the page used soonest goes. *)
LocateSoonest ==
    LET Used == {f \in Frames : futureMap[pageFrames[f]] # <<>>}
        chosen == IF Used = {} THEN 0
                  ELSE CHOOSE f \in Used : \A g \in Used : NextUse(f) <= NextUse(g)
    IN pageFrames[chosen]

(* The first frame whose page is never used again, or else the one whose   *)
(* page is used last.                                                      *)
LocateLongestDistancePage ==
    LET Unused == {f \in Frames : futureMap[pageFrames[f]] = <<>>}
        chosen == IF Unused # {}
                  THEN CHOOSE f \in Unused : \A g \in Unused : f <= g
                  ELSE CHOOSE f \in Frames : \A g \in Frames : NextUse(g) <= NextUse(f)
    IN pageFrames[chosen]

OptEvict ==
    /\ totalPageFaults' = totalPageFaults + 1
    /\ Swap(LocateLongestDistancePage, FALSE)

OptBlock(b) == Block(b, OptEvict) /\ UNCHANGED futureMap

OptFetch == OptBlock("I")
OptStore == OptBlock("S")
OptLoad == OptBlock("L")
OptModify == OptBlock("M")

OptEnd == (EndLine \/ Finish) /\ UNCHANGED futureMap

OptNext ==
    \/ OptScan \/ OptReopen
    \/ \E kind \in Kinds : OptRead(kind)
    \/ OptFetch \/ OptStore \/ OptLoad \/ OptModify
    \/ OptEnd
==============================================================================
