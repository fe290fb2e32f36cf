-------------------------------- MODULE PageSim --------------------------------
(***************************************************************************)
(* vmsim of project5: one of the three simulations over a trace.           *)
(***************************************************************************)
EXTENDS Opt, Clock, Nru

VARIABLE algorithm      \* the argument of -a

vars == <<tableVars, futureMap, clockHandPos, algorithm>>

Init ==
    \/ algorithm = "opt" /\ OptInit /\ clockHandPos = 0
    \/ algorithm = "clock" /\ ClockInit /\ futureMap = [p \in Pages |-> <<>>]
    \/ algorithm = "nru" /\ NruInit /\ clockHandPos = 0 /\ futureMap = [p \in Pages |-> <<>>]

Next ==
    /\ UNCHANGED algorithm
    /\ \/ algorithm = "opt" /\ OptNext /\ UNCHANGED clockHandPos
       \/ algorithm = "clock" /\ ClockNext /\ UNCHANGED futureMap
       \/ algorithm = "nru" /\ NruNext /\ UNCHANGED <<clockHandPos, futureMap>>

Spec == Init /\ [][Next]_vars /\ WF_vars(Next)

--------------------------------------------------------------------------------
Entry == [frame : Frames \cup {NoFrame}, valid : BOOLEAN, dirty : BOOLEAN, referenced : BOOLEAN]

(* Every variable of the simulations keeps its type. *)
TypeOK ==
    /\ algorithm \in {"opt", "clock", "nru"}
    /\ trace \in Traces
    /\ line \in 0 .. Len(trace)
    /\ instructionType \in {" ", "I"}
    /\ accessType \in {" ", "S", "L", "M"}
    /\ pageTable \in [Pages -> Entry]
    /\ pageFrames \in [Frames -> Pages \cup {NoPage}]
    /\ currentFrame \in 0 .. NFrames
    /\ totalMemAccesses \in 0 .. 2 * Len(trace)
    /\ totalPageFaults \in 0 .. Len(trace)
    /\ totalWritesToDisk \in 0 .. totalPageFaults
    /\ clockHandPos \in 0 .. NFrames
    /\ futureMap \in [Pages -> Seq(0 .. Len(trace) - 1)]
    /\ pc \in {"scan", "read", "block", "sweep", "end", "done"}
    /\ block \in Kinds

(* Types, and the page table and the array of frames say the same: between *)
(* two blocks, the valid pages are those in the frames, each in the frame  *)
(* its entry names, and no page is in two.  The four blocks of three       *)
(* methods set the two apart and must set them together.                   *)
FramesMatchTable ==
    /\ TypeOK
    /\ pc # "sweep" =>
        /\ \A p \in Pages : pageTable[p].valid <=> p \in Resident
        /\ \A p \in Pages : \A f \in Frames : pageTable[p].frame = f <=> pageFrames[f] = p

(* The least number of faults any choice of pages to evict gives, by       *)
(* trying all of them.                                                     *)
Best(t) ==
    LET smallest(S) == CHOOSE n \in S : \A m \in S : n <= m
        faults[i \in 1 .. Len(t) + 1, R \in SUBSET Pages] ==
            CASE i > Len(t) -> 0
              [] i <= Len(t) /\ t[i] \in R -> faults[i + 1, R]
              [] i <= Len(t) /\ t[i] \notin R /\ Cardinality(R) < NFrames ->
                     1 + faults[i + 1, R \cup {t[i]}]
              [] OTHER -> 1 + smallest({faults[i + 1, (R \ {q}) \cup {t[i]}] : q \in R})
    IN faults[1, {}]

BestOf == [t \in Traces |-> Best(t)]

(* opt reports the smallest number of faults possible for the trace, and   *)
(* no algorithm reports a smaller one.  A trace that begins with lines S   *)
(* is left out: those lines go through no block (see StoresAreDirty).      *)
OptIsOptimal ==
    pc = "done" /\ ~lost =>
        /\ totalPageFaults >= BestOf[trace]
        /\ algorithm = "opt" => totalPageFaults = BestOf[trace]

(* A page with a line M since it was loaded is dirty until it is evicted,  *)
(* so its eviction counts a write to disk.  The bit is set at the end of   *)
(* block M, which the page reaches through the eviction of another.        *)
ModifiedStaysDirty ==
    \A p \in modified : pageTable[p].dirty \/ (pc \in {"block", "sweep"} /\ p = Page)

Evicts(p) == pageTable[p].valid /\ p \in Resident /\ ~pageTable'[p].valid

(* clock and nru never evict a page used since the hand passed or the bits *)
(* were cleared while there is a loaded page that was not.                 *)
SparesRecentlyUsed ==
    [][algorithm # "opt" =>
        \A p \in Pages : Evicts(p) => p \notin recent \/ Resident \subseteq recent]_vars

(* opt evicts no page that is used again before every other loaded page    *)
(* has been.                                                               *)
EvictsFurthest ==
    [][algorithm = "opt" =>
        \A p \in Pages : Evicts(p) =>
            \A q \in Resident \ {p}, n \in line + 1 .. Len(trace) - 1 :
                trace[n + 1] = p => \E m \in line + 1 .. n : trace[m + 1] = q]_vars

(* Of the pages not used since the bits were cleared, nru evicts a dirty   *)
(* one only when all of them are.                                          *)
SparesDirty ==
    [][algorithm = "nru" =>
        \A p \in Pages : Evicts(p) /\ p \notin recent /\ pageTable[p].dirty =>
            \A q \in Resident \ recent : pageTable[q].dirty]_vars

(* opt evicts the page that is needed last; clock and nru spare the pages  *)
(* in use, and nru those that would have to be written.  Of the four       *)
(* categories of Simulate.java:653-690 that is the order of the first two, *)
(* and of these before the others; when every page is in use, the code     *)
(* keeps no order, and takes the page in the first frame, clean or dirty.  *)
VictimsAreRight == SparesRecentlyUsed /\ SparesDirty /\ EvictsFurthest

(* The frames in the order the hand will visit them. *)
ClockQueue ==
    IF algorithm # "clock" THEN <<>>
    ELSE [i \in 1 .. currentFrame |-> pageFrames[(Hand + i - 1) % currentFrame]]

ClockChances ==
    IF algorithm # "clock" THEN {} ELSE {p \in Resident : pageTable[p].referenced}

Promise == INSTANCE SecondChance
    WITH Size <- NFrames, queue <- ClockQueue, chances <- ClockChances

(* clock implements the second-chance queue. *)
ImplementsSecondChance == Promise!Spec

(* Each simulation ends.  The loop of clock has no bound of its own: it    *)
(* ends because it clears the bits it passes.                              *)
SimulationEnds == <>(pc = "done")

(* "S means dirty bit needs to be true and valid if not already a valid    *)
(* hit" (Simulate.java:127, 390): a page with a line S is valid and dirty  *)
(* when the line is done, in a trace that begins with an instruction.      *)
StoresAreDirty ==
    ~lost => \A p \in stored : (pageTable[p].valid /\ pageTable[p].dirty) \/ (pc \in {"block", "sweep", "end"} /\ p = Page)
==============================================================================
