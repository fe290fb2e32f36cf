--------------------------------- MODULE Clock ---------------------------------
(***************************************************************************)
(* Simulate.clock of project5: a hand goes round the frames, clears the    *)
(* referenced bits it meets and stops at the first that is clear.          *)
(***************************************************************************)
EXTENDS PageTable

VARIABLE clockHandPos

(* The frame under the hand: the hand wraps when the loop looks at it.     *)
Hand == IF clockHandPos = NFrames THEN 0 ELSE clockHandPos

ClockInit ==
    /\ TableInit("read")
    /\ clockHandPos = 0

ClockRead(kind) ==
    /\ ReadLine(kind, pageTable, recent)
    /\ UNCHANGED clockHandPos

(* The page is marked valid and the fault counted before the hand moves.   *)
StartSweep ==
    /\ totalPageFaults' = totalPageFaults + 1
    /\ pageTable' = [pageTable EXCEPT ![Page].valid = TRUE]
    /\ pc' = "sweep"
    /\ UNCHANGED <<pageFrames, currentFrame, totalMemAccesses, totalWritesToDisk, block, history>>

ClockBlock(b) == Block(b, StartSweep) /\ UNCHANGED clockHandPos

ClockFetch == ClockBlock("I")
ClockStore == ClockBlock("S")
ClockLoad == ClockBlock("L")
ClockModify == ClockBlock("M")

(* Mutant: the bit is left set. *)
ClockPass ==
    /\ pc = "sweep"
    /\ pageTable[pageFrames[Hand]].referenced
    /\ clockHandPos' = Hand + 1
    /\ UNCHANGED tableVars

(* One turn of the loop: a referenced page gets its second chance. *)
ClockClear ==
    /\ pc = "sweep"
    /\ pageTable[pageFrames[Hand]].referenced
    /\ pageTable' = [pageTable EXCEPT ![pageFrames[Hand]].referenced = FALSE]
    /\ clockHandPos' = Hand + 1
    /\ recent' = recent \ {pageFrames[Hand]}
    /\ UNCHANGED <<trace, line, instructionType, accessType, pageFrames, currentFrame, counters,
                   pc, block, stored, modified, lost>>

(* Mutant: the hand stays on the frame it has filled. *)
ClockStay ==
    /\ pc = "sweep"
    /\ ~pageTable[pageFrames[Hand]].referenced
    /\ Swap(pageFrames[Hand], block \in {"I", "S"})
    /\ clockHandPos' = Hand
    /\ UNCHANGED <<trace, line, instructionType, accessType, totalPageFaults>>

(* The last turn: the page under the hand goes.  The blocks I and S leave  *)
(* its bit set, the blocks L and M clear it.                               *)
ClockFound ==
    /\ pc = "sweep"
    /\ ~pageTable[pageFrames[Hand]].referenced
    /\ Swap(pageFrames[Hand], block \in {"I", "S"})
    /\ clockHandPos' = Hand + 1
    /\ UNCHANGED <<trace, line, instructionType, accessType, totalPageFaults>>

ClockEnd == (EndLine \/ Finish) /\ UNCHANGED clockHandPos

ClockNext ==
    \/ \E kind \in Kinds : ClockRead(kind)
    \/ ClockFetch \/ ClockStore \/ ClockLoad \/ ClockModify
    \/ ClockClear \/ ClockFound
    \/ ClockEnd
==============================================================================
