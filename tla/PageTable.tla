------------------------------- MODULE PageTable -------------------------------
(***************************************************************************)
(* What the three page replacement simulations of project5/Simulate.java   *)
(* have in common: the page table, the frames, the counters, and the four  *)
(* blocks of code a line of the trace goes through, one for each letter I, *)
(* S, L and M.  Each method repeats this code; it differs in the choice of *)
(* the page to evict.                                                      *)
(***************************************************************************)
EXTENDS Integers, Sequences, FiniteSets

CONSTANTS
    Pages,    \* the page numbers of the trace
    Traces,   \* the traces, each the sequence of the pages of its lines
    NFrames   \* nFrames, the argument of -n

NoPage == -1
NoFrame == -1
Frames == 0 .. NFrames - 1

ASSUME PageTableAssumption ==
    /\ Pages \subseteq Nat
    /\ Traces \subseteq Seq(Pages)
    /\ NFrames \in Nat \ {0}

VARIABLES
    trace,            \* the file: the page of each line
    line,             \* the number of lines done
    instructionType, accessType,
    pageTable, pageFrames, currentFrame,
    totalMemAccesses, totalPageFaults, totalWritesToDisk,
    pc, block,        \* the control state, and the block of code a line is in
    stored,           \* history: the resident pages with a line S or M since loading
    modified,         \* history: the resident pages with a line M since loading
    recent,           \* history: the pages used since the algorithm last forgot
    lost              \* history: a line went through no block at all

counters == <<totalMemAccesses, totalPageFaults, totalWritesToDisk>>
history == <<stored, modified, recent, lost>>
tableVars == <<trace, line, instructionType, accessType, pageTable, pageFrames, currentFrame,
               counters, pc, block, history>>

EmptyEntry == [frame |-> NoFrame, valid |-> FALSE, dirty |-> FALSE, referenced |-> FALSE]

TableInit(first) ==
    /\ trace \in Traces
    /\ line = 0
    /\ instructionType = " "
    /\ accessType = " "
    /\ pageTable = [p \in Pages |-> EmptyEntry]
    /\ pageFrames = [f \in Frames |-> NoPage]
    /\ currentFrame = 0
    /\ totalMemAccesses = 0
    /\ totalPageFaults = 0
    /\ totalWritesToDisk = 0
    /\ pc = first
    /\ block = "I"
    /\ stored = {}
    /\ modified = {}
    /\ recent = {}
    /\ lost = FALSE

(* The page of the line in hand. *)
Page == trace[line + 1]

(* A line I sets the one type, a line S, L or M the other; neither is      *)
(* reset.                                                                  *)
Parse(kind) ==
    \/ kind = "I" /\ instructionType' = "I" /\ UNCHANGED accessType
    \/ kind # "I" /\ accessType' = kind /\ UNCHANGED instructionType

(* Read a line: its page is referenced from now on.  The caller gives the  *)
(* table and the recent pages, which nru may have refreshed.               *)
ReadLine(kind, table, used) ==
    /\ pc = "read" /\ line < Len(trace)
    /\ Parse(kind)
    /\ pageTable' = [table EXCEPT ![Page].referenced = TRUE]
    /\ pc' = "block"
    /\ block' = "I"
    /\ stored' = IF kind \in {"S", "M"} THEN stored \cup {Page} ELSE stored
    /\ modified' = IF kind = "M" THEN modified \cup {Page} ELSE modified
    /\ recent' = used \cup {Page}
    /\ lost' = (lost \/ (instructionType' # "I" /\ accessType' \notin {"L", "M"}))
    /\ UNCHANGED <<trace, line, pageFrames, currentFrame, counters>>

NextBlock(b) == CASE b = "I" -> "S" [] b = "S" -> "L" [] b = "L" -> "M" [] b = "M" -> "I"

LeaveBlock ==
    /\ block' = NextBlock(block)
    /\ pc' = IF block = "M" THEN "end" ELSE "block"

(* Mutant: a line M is taken for a load. *)
TouchedStore(entry) == [entry EXCEPT !.dirty = @ \/ block = "S"]

(* The page of the line in the table after the block: S and M are stores,  *)
(* and M counts as two accesses.                                           *)
Touched(entry) == [entry EXCEPT !.dirty = @ \/ block \in {"S", "M"}]

CountModify ==
    totalMemAccesses' = IF block = "M" THEN totalMemAccesses + 1 ELSE totalMemAccesses

Hit ==
    /\ pageTable[Page].valid
    /\ pageTable' = [pageTable EXCEPT ![Page] = Touched(@)]
    /\ CountModify
    /\ LeaveBlock
    /\ UNCHANGED <<pageFrames, currentFrame, totalPageFaults, totalWritesToDisk, history>>

(* A page fault while frames are left. *)
FillFrame ==
    /\ ~pageTable[Page].valid
    /\ currentFrame < NFrames
    /\ totalPageFaults' = totalPageFaults + 1
    /\ pageFrames' = [pageFrames EXCEPT ![currentFrame] = Page]
    /\ pageTable' = [pageTable EXCEPT
                        ![Page] = Touched([@ EXCEPT !.valid = TRUE, !.frame = currentFrame])]
    /\ currentFrame' = currentFrame + 1
    /\ CountModify
    /\ LeaveBlock
    /\ UNCHANGED <<totalWritesToDisk, history>>

MustEvict == ~pageTable[Page].valid /\ currentFrame = NFrames

(* Mutant: the victim's entry stays valid. *)
SwapKeepsValid(victim, referenced) ==
    /\ totalWritesToDisk' = totalWritesToDisk + (IF pageTable[victim].dirty THEN 1 ELSE 0)
    /\ pageFrames' = [pageFrames EXCEPT ![pageTable[victim].frame] = Page]
    /\ pageTable' = [pageTable EXCEPT
          ![Page] = Touched([@ EXCEPT !.valid = TRUE, !.frame = pageTable[victim].frame]),
          ![victim] = [EmptyEntry EXCEPT !.referenced = referenced, !.valid = TRUE]]
    /\ stored' = stored \ {victim}
    /\ modified' = modified \ {victim}
    /\ recent' = recent \ {victim}
    /\ CountModify
    /\ LeaveBlock
    /\ UNCHANGED <<currentFrame, lost>>

(* The page takes the victim's frame; a dirty victim is written to disk.   *)
Swap(victim, referenced) ==
    /\ totalWritesToDisk' = totalWritesToDisk + (IF pageTable[victim].dirty THEN 1 ELSE 0)
    /\ pageFrames' = [pageFrames EXCEPT ![pageTable[victim].frame] = Page]
    /\ pageTable' = [pageTable EXCEPT
          ![Page] = Touched([@ EXCEPT !.valid = TRUE, !.frame = pageTable[victim].frame]),
          ![victim] = [EmptyEntry EXCEPT !.referenced = referenced]]
    /\ stored' = stored \ {victim}
    /\ modified' = modified \ {victim}
    /\ recent' = recent \ {victim}
    /\ CountModify
    /\ LeaveBlock
    /\ UNCHANGED <<currentFrame, lost>>

Runs(b) == IF b \in {"I", "S"} THEN instructionType = b ELSE accessType = b

(* The code for letter b, between its test and the next: the page is       *)
(* brought in.                                                             *)
Block(b, evict) ==
    /\ pc = "block" /\ block = b
    /\ IF Runs(b)
       THEN Hit \/ FillFrame \/ (MustEvict /\ evict)
       ELSE LeaveBlock /\ UNCHANGED <<pageTable, pageFrames, currentFrame, counters, history>>
    /\ UNCHANGED <<trace, line, instructionType, accessType>>

EndLine ==
    /\ pc = "end"
    /\ totalMemAccesses' = totalMemAccesses + 1
    /\ line' = line + 1
    /\ pc' = "read"
    /\ UNCHANGED <<trace, instructionType, accessType, pageTable, pageFrames, currentFrame,
                   totalPageFaults, totalWritesToDisk, block, history>>

(* The end of the trace: the statistics are printed. *)
Finish ==
    /\ pc = "read" /\ line = Len(trace)
    /\ pc' = "done"
    /\ UNCHANGED <<trace, line, instructionType, accessType, pageTable, pageFrames, currentFrame,
                   counters, block, history>>

Resident == {pageFrames[f] : f \in 0 .. currentFrame - 1}

Kinds == {"I", "S", "L", "M"}
==============================================================================
