----------------------------- MODULE PageSimProofs -----------------------------
(***************************************************************************)
(* What is proved of the page replacement simulations, for any trace and   *)
(* any number of frames.  The invariant has one part for each thing that   *)
(* the four blocks of code of each method must keep together.              *)
(***************************************************************************)
EXTENDS PageSim, WellFoundedInduction, TLAPS

(* A line has been read and is not done. *)
InLine == pc \in {"block", "sweep", "end"}

(* The variables of the page table have their types. *)
TableTyped ==
    /\ trace \in Traces
    /\ line \in 0 .. Len(trace)
    /\ InLine => line < Len(trace)
    /\ instructionType \in {" ", "I"}
    /\ accessType \in {" ", "S", "L", "M"}
    /\ pageTable \in [Pages -> Entry]
    /\ pageFrames \in [Frames -> Pages \cup {NoPage}]
    /\ currentFrame \in 0 .. NFrames
    /\ pc \in {"scan", "read", "block", "sweep", "end", "done"}
    /\ block \in Kinds

Placed(p) == pageTable[p].frame \in Frames

(* The frames are filled from the first on, table and frames name each     *)
(* other, and a page is valid if it has a frame or is about to get one.    *)
FramesRight ==
    /\ \A f \in Frames : f < currentFrame <=> pageFrames[f] \in Pages
    /\ \A p \in Pages, f \in Frames : pageTable[p].frame = f <=> pageFrames[f] = p
    /\ \A p \in Pages : pageTable[p].valid <=> (Placed(p) \/ (pc = "sweep" /\ p = Page))
    /\ pc = "sweep" => currentFrame = NFrames /\ ~Placed(Page)

(* A line has at most one fault, after which its page is valid, and at     *)
(* most two accesses, the second in block M.                               *)
CountsRight ==
    /\ totalMemAccesses \in Nat /\ totalPageFaults \in Nat /\ totalWritesToDisk \in Nat
    /\ totalPageFaults =< line \/ (InLine /\ pageTable[Page].valid /\ totalPageFaults =< line + 1)
    /\ totalMemAccesses =< 2 * line \/ (pc = "end" /\ totalMemAccesses =< 2 * line + 1)
    /\ totalWritesToDisk =< totalPageFaults
    /\ pc = "sweep" => totalWritesToDisk < totalPageFaults
    /\ pc = "scan" => totalPageFaults = 0 /\ totalMemAccesses = 0

(* A modified page that is not dirty yet waits for block M of its line.    *)
DirtyRight ==
    \A p \in modified : p \in Pages /\
        (pageTable[p].dirty \/ (pc \in {"block", "sweep"} /\ p = Page /\ accessType = "M"))

(* The page of the line is recent, and a recent page has its bit set.      *)
RecentRight ==
    /\ recent \subseteq Pages /\ \A p \in recent : pageTable[p].referenced
    /\ InLine => Page \in recent

TableInv == TableTyped /\ FramesRight /\ CountsRight /\ DirtyRight /\ RecentRight

------------------------------------------------------------------------------
(* Facts about entries. *)

LEMMA NoFrameIsNone == NoFrame \notin Frames /\ NoPage \notin Pages
  BY PageTableAssumption DEF NoFrame, NoPage, Frames

LEMMA TypeOfEmpty ==
    ASSUME NEW b \in BOOLEAN
    PROVE  /\ [EmptyEntry EXCEPT !.referenced = b] \in Entry
           /\ [EmptyEntry EXCEPT !.referenced = b].frame = NoFrame
           /\ ~[EmptyEntry EXCEPT !.referenced = b].valid
           /\ EmptyEntry \in Entry /\ EmptyEntry.frame = NoFrame
           /\ ~EmptyEntry.valid
  BY DEF EmptyEntry, Entry

LEMMA TouchedEntry ==
    ASSUME NEW e \in Entry
    PROVE  /\ Touched(e) \in Entry
           /\ Touched(e).frame = e.frame
           /\ Touched(e).valid = e.valid
           /\ Touched(e).referenced = e.referenced
           /\ Touched(e).dirty <=> (e.dirty \/ block \in {"S", "M"})
  BY DEF Touched, Entry

LEMMA PlacedEntry ==
    ASSUME NEW e \in Entry, NEW f \in Frames
    PROVE  LET g == [e EXCEPT !.valid = TRUE, !.frame = f] IN
           /\ g \in Entry /\ g.valid /\ g.frame = f
           /\ g.referenced = e.referenced /\ g.dirty = e.dirty
  BY DEF Entry

LEMMA TraceIsFinite ==
    ASSUME trace \in Traces
    PROVE  trace \in Seq(Pages) /\ Len(trace) \in Nat
<1>1. trace \in Seq(Pages)
  BY PageTableAssumption
<1> QED
  BY <1>1

LEMMA LineHasPage ==
    ASSUME trace \in Traces, line \in 0 .. Len(trace), line < Len(trace)
    PROVE  Page \in Pages
  BY PageTableAssumption DEF Page

------------------------------------------------------------------------------
(* The operations of the page table keep the invariant. *)

LEMMA TableInitInv ==
    ASSUME NEW first \in {"scan", "read"}, TableInit(first)
    PROVE  TableInv
<1> USE NoFrameIsNone
<1>1. trace \in Traces /\ Len(trace) \in Nat
  BY TraceIsFinite DEF TableInit
<1>2. TableTyped
  <2>1. pageTable \in [Pages -> Entry] /\ pageFrames \in [Frames -> Pages \cup {NoPage}]
    BY TypeOfEmpty DEF TableInit
  <2>2. 0 \in 0 .. NFrames /\ 0 \in 0 .. Len(trace)
    BY <1>1, PageTableAssumption
  <2> QED
    BY <1>1, <2>1, <2>2 DEF TableInit, TableTyped, InLine, Kinds
<1>3. \A p \in Pages : pageTable[p] = EmptyEntry /\ ~Placed(p)
  <2>1. pageTable = [p \in Pages |-> EmptyEntry]
    BY DEF TableInit
  <2>2. EmptyEntry.frame = NoFrame
    BY TypeOfEmpty
  <2> QED
    BY <2>1, <2>2 DEF Placed
<1>4. FramesRight
  <2>1. \A f \in Frames : ~(f < 0)
    BY PageTableAssumption DEF Frames
  <2>2. \A f \in Frames : pageFrames[f] = NoPage
    BY DEF TableInit
  <2>3. \A p \in Pages : pageTable[p].frame = NoFrame /\ ~pageTable[p].valid
    BY <1>3, TypeOfEmpty
  <2>4. currentFrame = 0 /\ pc # "sweep"
    BY DEF TableInit
  <2> QED
    BY <1>3, <2>1, <2>2, <2>3, <2>4 DEF FramesRight
<1>5. CountsRight
  <2>1. line = 0 /\ totalMemAccesses = 0 /\ totalPageFaults = 0 /\ totalWritesToDisk = 0
        /\ pc # "sweep"
    BY DEF TableInit
  <2> QED
    BY <2>1 DEF CountsRight
<1>6. DirtyRight /\ RecentRight
  BY DEF TableInit, DirtyRight, RecentRight, InLine
<1> QED
  BY <1>2, <1>4, <1>5, <1>6 DEF TableInv

(* No page is evicted. *)
KeepsPages == \A p \in Pages : pageTable[p].valid => pageTable'[p].valid

(* The table that a line is read into, which nru may have refreshed.       *)
Agrees(table) ==
    /\ table \in [Pages -> Entry]
    /\ \A p \in Pages : /\ table[p].frame = pageTable[p].frame
                        /\ table[p].valid = pageTable[p].valid
                        /\ table[p].dirty = pageTable[p].dirty

LEMMA ReadKeeps ==
    ASSUME TableInv, NEW kind \in Kinds, NEW table, NEW used, Agrees(table),
           used \subseteq Pages, \A p \in used : table[p].referenced,
           ReadLine(kind, table, used)
    PROVE  TableInv' /\ KeepsPages
<1>1. line < Len(trace) /\ Page \in Pages /\ pc = "read" /\ pc' = "block" /\ block' = "I"
  BY LineHasPage DEF TableInv, TableTyped, ReadLine
<1>2. UNCHANGED <<trace, line, pageFrames, currentFrame, counters>> /\ Page' = Page
  BY DEF ReadLine, Page
<1>3. pageTable' \in [Pages -> Entry]
      /\ \A p \in Pages : /\ pageTable'[p].frame = pageTable[p].frame
                          /\ pageTable'[p].valid = pageTable[p].valid
                          /\ pageTable'[p].dirty = pageTable[p].dirty
                          /\ pageTable'[p].referenced = IF p = Page THEN TRUE ELSE table[p].referenced
  <2>1. pageTable' = [table EXCEPT ![Page].referenced = TRUE]
    BY DEF ReadLine
  <2>2. table \in [Pages -> Entry]
    BY DEF Agrees
  <2>3. pageTable' \in [Pages -> Entry]
    BY <1>1, <2>1, <2>2 DEF Entry
  <2>4. ASSUME NEW p \in Pages
        PROVE  /\ pageTable'[p].frame = table[p].frame /\ pageTable'[p].valid = table[p].valid
               /\ pageTable'[p].dirty = table[p].dirty
               /\ pageTable'[p].referenced = IF p = Page THEN TRUE ELSE table[p].referenced
    <3>1. CASE p = Page
      <4>1. pageTable'[p] = [table[p] EXCEPT !.referenced = TRUE] /\ table[p] \in Entry
        BY <2>1, <2>2, <3>1
      <4> QED
        BY <3>1, <4>1 DEF Entry
    <3>2. CASE p # Page
      <4>1. pageTable'[p] = table[p]
        BY <2>1, <2>2, <3>2
      <4> QED
        BY <3>2, <4>1
    <3> QED
      BY <3>1, <3>2
  <2> QED
    BY <2>3, <2>4 DEF Agrees
<1>4. TableTyped'
  BY <1>1, <1>2, <1>3 DEF TableInv, TableTyped, ReadLine, Parse, InLine, Kinds
<1>5. \A p \in Pages : Placed(p)' <=> Placed(p)
  BY <1>3 DEF Placed
<1>6. FramesRight'
  <2>1. pc # "sweep" /\ pc' # "sweep" /\ UNCHANGED <<pageFrames, currentFrame>>
    BY <1>1, <1>2
  <2>2. \A p \in Pages : pageTable'[p].valid <=> Placed(p)'
    <3>1. \A p \in Pages : pageTable[p].valid <=> Placed(p)
      BY <2>1 DEF TableInv, FramesRight
    <3> QED
      BY <1>3, <1>5, <3>1
  <2>3. \A p \in Pages, f \in Frames : pageTable'[p].frame = f <=> pageFrames'[f] = p
    <3>1. \A p \in Pages, f \in Frames : pageTable[p].frame = f <=> pageFrames[f] = p
      BY DEF TableInv, FramesRight
    <3>2. ASSUME NEW p \in Pages, NEW f \in Frames
          PROVE  pageTable'[p].frame = f <=> pageFrames'[f] = p
      <4>1. pageTable'[p].frame = pageTable[p].frame
        BY <1>3
      <4> QED
        BY <2>1, <3>1, <4>1
    <3> QED
      BY <3>2
  <2>4. \A f \in Frames : f < currentFrame' <=> pageFrames'[f] \in Pages
    BY <2>1 DEF TableInv, FramesRight
  <2> QED
    BY <2>1, <2>2, <2>3, <2>4 DEF FramesRight
<1>7. CountsRight'
  BY <1>1, <1>2, <1>3 DEF TableInv, CountsRight, InLine, counters
<1>8. DirtyRight'
  <2>1. ASSUME NEW p \in modified'
        PROVE  p \in modified \/ (p = Page /\ kind = "M" /\ accessType' = "M")
    BY <2>1 DEF ReadLine, Parse
  <2> QED
    BY <1>1, <1>2, <1>3, <2>1 DEF TableInv, DirtyRight
<1>9. RecentRight'
  <2>1. recent' = used \cup {Page}
    BY DEF ReadLine
  <2> QED
    BY <1>1, <1>2, <1>3, <2>1 DEF RecentRight
<1>10. KeepsPages
  BY <1>3 DEF KeepsPages
<1> QED
  BY <1>10, <1>4, <1>6, <1>7, <1>8, <1>9 DEF TableInv

LEMMA EndKeeps ==
    ASSUME TableInv, EndLine \/ Finish
    PROVE  TableInv' /\ KeepsPages
<1>1. Len(trace) \in Nat /\ line \in 0 .. Len(trace)
  BY TraceIsFinite DEF TableInv, TableTyped
<1>2. pc' \in {"read", "done"} /\ pc \in {"read", "end"}
      /\ UNCHANGED <<trace, instructionType, accessType, pageTable, pageFrames, currentFrame,
                     totalPageFaults, totalWritesToDisk, block, stored, modified, recent, lost>>
  BY DEF EndLine, Finish, counters, history
<1>3. line' \in 0 .. Len(trace)
  <2>1. CASE EndLine
    <3>1. line < Len(trace) /\ line' = line + 1
      BY <2>1 DEF TableInv, TableTyped, InLine, EndLine
    <3> QED
      BY <1>1, <3>1
  <2>2. CASE Finish
    BY <1>1, <2>2 DEF Finish
  <2> QED
    BY <2>1, <2>2
<1>4. TableTyped'
  BY <1>2, <1>3 DEF TableInv, TableTyped, InLine
<1>5. FramesRight'
  BY <1>2 DEF TableInv, FramesRight, Placed
<1>6. ASSUME EndLine
      PROVE  TableInv'
  <2>1. pc = "end" /\ line' = line + 1 /\ totalMemAccesses' = totalMemAccesses + 1
    BY <1>6 DEF EndLine
  <2>2. CountsRight'
    BY <1>1, <1>2, <2>1 DEF TableInv, CountsRight
  <2>3. DirtyRight' /\ RecentRight'
    BY <1>2, <2>1 DEF TableInv, DirtyRight, RecentRight, InLine
  <2> QED
    BY <1>4, <1>5, <2>2, <2>3 DEF TableInv
<1>7. ASSUME Finish
      PROVE  TableInv'
  <2>1. pc = "read" /\ UNCHANGED <<line, totalMemAccesses>>
    BY <1>7 DEF Finish, counters
  <2>2. CountsRight'
    BY <1>1, <1>2, <2>1 DEF TableInv, CountsRight, InLine
  <2>3. DirtyRight' /\ RecentRight'
    BY <1>2, <2>1 DEF TableInv, DirtyRight, RecentRight, InLine
  <2> QED
    BY <1>4, <1>5, <2>2, <2>3 DEF TableInv
<1>8. KeepsPages
  BY <1>2 DEF KeepsPages
<1> QED
  BY <1>6, <1>7, <1>8
------------------------------------------------------------------------------
(* The four blocks. *)

(* A block works on the line in hand. *)
SameLine == UNCHANGED <<trace, line, instructionType, accessType>>

(* It loads no page but that of the line, and leaves the loaded ones alone. *)
LoadsThePage ==
    \A p \in Pages : Placed(p)' =>
        p = Page \/ (Placed(p) /\ pageTable'[p] = pageTable[p] /\ (p \in recent => p \in recent'))

LEMMA LeaveTo ==
    ASSUME TableInv, LeaveBlock
    PROVE  block' \in Kinds /\ pc' \in {"block", "end"} /\ (pc' = "end" <=> block = "M")
  BY DEF TableInv, TableTyped, LeaveBlock, NextBlock, Kinds

LEMMA TypedAfter ==
    ASSUME TableInv, InLine, SameLine, block' \in Kinds, pc' \in {"block", "sweep", "end"},
           pageTable' \in [Pages -> Entry], pageFrames' \in [Frames -> Pages \cup {NoPage}],
           currentFrame' \in 0 .. NFrames
    PROVE  TableTyped' /\ Page' = Page /\ Page \in Pages /\ line \in Nat
<1>1. trace \in Traces /\ line \in 0 .. Len(trace) /\ line < Len(trace)
      /\ instructionType \in {" ", "I"} /\ accessType \in {" ", "S", "L", "M"}
  BY DEF TableInv, TableTyped
<1>2. Page \in Pages
  BY <1>1, LineHasPage
<1>3. line \in Nat
  <2>1. Len(trace) \in Nat
    BY <1>1, TraceIsFinite
  <2>2. line \in 0 .. Len(trace)
    BY <1>1
  <2> QED
    BY <2>1, <2>2
<1>4. trace' = trace /\ line' = line /\ instructionType' = instructionType
      /\ accessType' = accessType
  BY DEF SameLine
<1>5. Page' = Page
  BY <1>4 DEF Page
<1>6. TableTyped'
  BY <1>1, <1>4 DEF TableTyped, InLine
<1> QED
  BY <1>2, <1>3, <1>5, <1>6

LEMMA AccessesAfter ==
    ASSUME TableInv, SameLine, CountModify, LeaveBlock, pc \in {"block", "sweep"}
    PROVE  /\ totalMemAccesses' \in Nat
           /\ totalMemAccesses' =< 2 * line \/ (pc' = "end" /\ totalMemAccesses' =< 2 * line + 1)
<1>1. totalMemAccesses \in Nat /\ totalMemAccesses =< 2 * line /\ line \in Int
  <2>1. trace \in Traces /\ line \in 0 .. Len(trace)
    BY DEF TableInv, TableTyped
  <2>2. line \in Int
    BY <2>1, TraceIsFinite
  <2> QED
    BY <2>2 DEF TableInv, CountsRight
<1>2. CASE block = "M"
  BY <1>1, <1>2, LeaveTo DEF CountModify
<1>3. CASE block # "M"
  BY <1>1, <1>3, LeaveTo DEF CountModify
<1> QED
  BY <1>2, <1>3

(* A line M reaches block M, which makes the page dirty. *)
LEMMA DirtyAfter ==
    ASSUME TableInv, SameLine, LeaveBlock, pc \in {"block", "sweep"}, Page' = Page,
           modified' \subseteq modified,
           \A p \in modified' : pageTable[p].dirty => pageTable'[p].dirty,
           block = "M" /\ accessType = "M" => pageTable'[Page].dirty
    PROVE  DirtyRight'
<1> SUFFICES ASSUME NEW p \in modified'
             PROVE  p \in Pages /\
                 (pageTable'[p].dirty \/ (pc' \in {"block", "sweep"} /\ p = Page /\ accessType' = "M"))
  BY DEF DirtyRight
<1>1. p \in Pages /\ (pageTable[p].dirty \/ (p = Page /\ accessType = "M"))
  BY DEF TableInv, DirtyRight
<1>2. CASE block = "M"
  BY <1>1, <1>2
<1>3. CASE block # "M"
  BY <1>1, <1>3, LeaveTo DEF SameLine
<1> QED
  BY <1>2, <1>3

LEMMA SkipKeeps ==
    ASSUME TableInv, SameLine, pc = "block", ~Runs(block), LeaveBlock,
           UNCHANGED <<pageTable, pageFrames, currentFrame, counters, history>>
    PROVE  TableInv' /\ LoadsThePage /\ KeepsPages
<1> USE LeaveTo
<1>1. /\ UNCHANGED <<pageTable, pageFrames, currentFrame, totalMemAccesses, totalPageFaults,
                     totalWritesToDisk, modified, recent>>
      /\ InLine /\ InLine' /\ pc' # "sweep" /\ pc' # "scan"
  BY DEF counters, history, InLine
<1>2. TableTyped' /\ Page' = Page /\ line' = line
  <2>1. pageTable \in [Pages -> Entry] /\ pageFrames \in [Frames -> Pages \cup {NoPage}]
        /\ currentFrame \in 0 .. NFrames
    BY DEF TableInv, TableTyped
  <2> QED
    BY <1>1, <2>1, TypedAfter DEF SameLine
<1>3. FramesRight'
  BY <1>1 DEF TableInv, FramesRight, Placed
<1>4. CountsRight'
  BY <1>1, <1>2 DEF TableInv, CountsRight
<1>5. ~(block = "M" /\ accessType = "M")
  BY DEF Runs
<1>6. DirtyRight'
  BY <1>1, <1>2, <1>5, DirtyAfter
<1>7. RecentRight'
  BY <1>1, <1>2 DEF TableInv, RecentRight
<1>8. LoadsThePage
  BY <1>1 DEF LoadsThePage, Placed
<1>9. KeepsPages
  BY <1>1 DEF KeepsPages
<1> QED
  BY <1>2, <1>3, <1>4, <1>6, <1>7, <1>8, <1>9 DEF TableInv

LEMMA HitKeeps ==
    ASSUME TableInv, SameLine, pc = "block", Hit
    PROVE  TableInv' /\ LoadsThePage /\ KeepsPages
<1>1. /\ UNCHANGED <<pageFrames, currentFrame, totalPageFaults, totalWritesToDisk, modified, recent>>
      /\ LeaveBlock /\ CountModify /\ pageTable[Page].valid
      /\ pageTable' = [pageTable EXCEPT ![Page] = Touched(pageTable[Page])]
  BY DEF Hit, history
<1>2. InLine /\ InLine' /\ pc' # "sweep" /\ pc' # "scan"
  BY <1>1, LeaveTo DEF InLine
<1>3. Page \in Pages /\ pageTable \in [Pages -> Entry]
      /\ pageFrames \in [Frames -> Pages \cup {NoPage}] /\ currentFrame \in 0 .. NFrames
  BY <1>2, LineHasPage DEF TableInv, TableTyped
<1> DEFINE e == Touched(pageTable[Page])
<1>4. /\ e \in Entry /\ e.frame = pageTable[Page].frame /\ e.valid = pageTable[Page].valid
      /\ e.referenced = pageTable[Page].referenced
      /\ (e.dirty <=> (pageTable[Page].dirty \/ block \in {"S", "M"}))
  BY <1>3, TouchedEntry
<1>5. pageTable' = [pageTable EXCEPT ![Page] = e]
  BY <1>1
<1> HIDE DEF e
<1>6. pageTable' \in [Pages -> Entry] /\ \A p \in Pages : pageTable'[p] = IF p = Page THEN e ELSE pageTable[p]
  BY <1>3, <1>4, <1>5
<1>7. TableTyped' /\ Page' = Page /\ line' = line /\ line \in Nat
  BY <1>1, <1>2, <1>3, <1>6, TypedAfter, LeaveTo DEF InLine, SameLine
<1>8. \A p \in Pages : /\ pageTable'[p].frame = pageTable[p].frame
                       /\ pageTable'[p].valid = pageTable[p].valid
                       /\ pageTable'[p].referenced = pageTable[p].referenced
                       /\ pageTable[p].dirty => pageTable'[p].dirty
  BY <1>4, <1>6
<1>9. FramesRight'
  <2>1. /\ \A f \in Frames : f < currentFrame <=> pageFrames[f] \in Pages
        /\ \A p \in Pages, f \in Frames : pageTable[p].frame = f <=> pageFrames[f] = p
        /\ \A p \in Pages : pageTable[p].valid <=> Placed(p)
    BY <1>1 DEF TableInv, FramesRight
  <2>2. pageFrames' = pageFrames /\ currentFrame' = currentFrame
    BY <1>1
  <2>3. \A p \in Pages : Placed(p)' <=> Placed(p)
    BY <1>8 DEF Placed
  <2>4. ASSUME NEW p \in Pages, NEW f \in Frames
        PROVE  pageTable'[p].frame = f <=> pageFrames'[f] = p
    BY <1>8, <2>1, <2>2
  <2>5. \A p \in Pages : pageTable'[p].valid <=> Placed(p)'
    BY <1>8, <2>1, <2>3
  <2> QED
    BY <1>2, <2>1, <2>2, <2>4, <2>5 DEF FramesRight
<1>10. CountsRight'
  <2>1. pageTable'[Page].valid
    BY <1>1, <1>3, <1>8
  <2>2. totalPageFaults =< line \/ totalPageFaults =< line + 1
    BY DEF TableInv, CountsRight
  <2>3. totalPageFaults' =< line' + 1
    BY <1>1, <1>7, <2>2 DEF TableInv, CountsRight
  <2> QED
    BY <1>1, <1>2, <1>7, <2>1, <2>3, AccessesAfter DEF TableInv, CountsRight
<1>11. DirtyRight'
  <2>1. block = "M" => pageTable'[Page].dirty
    BY <1>3, <1>4, <1>6
  <2>2. modified \subseteq Pages
    BY DEF TableInv, DirtyRight
  <2> QED
    BY <1>1, <1>7, <1>8, <2>1, <2>2, DirtyAfter
<1>12. RecentRight'
  BY <1>1, <1>2, <1>7, <1>8 DEF TableInv, RecentRight
<1>13. LoadsThePage
  BY <1>1, <1>6 DEF LoadsThePage, Placed
<1>14. KeepsPages
  BY <1>8 DEF KeepsPages
<1> QED
  BY <1>7, <1>9, <1>10, <1>11, <1>12, <1>13, <1>14 DEF TableInv

LEMMA FillKeeps ==
    ASSUME TableInv, SameLine, pc = "block", FillFrame
    PROVE  TableInv' /\ LoadsThePage /\ KeepsPages
<1> USE NoFrameIsNone
<1> DEFINE e == Touched([pageTable[Page] EXCEPT !.valid = TRUE, !.frame = currentFrame])
<1>1. /\ totalPageFaults' = totalPageFaults + 1 /\ currentFrame' = currentFrame + 1
      /\ UNCHANGED <<totalWritesToDisk, modified, recent>>
      /\ LeaveBlock /\ CountModify /\ ~pageTable[Page].valid /\ currentFrame < NFrames
      /\ pageFrames' = [pageFrames EXCEPT ![currentFrame] = Page]
      /\ pageTable' = [pageTable EXCEPT ![Page] = e]
  BY DEF FillFrame, history
<1>0. e = Touched([pageTable[Page] EXCEPT !.valid = TRUE, !.frame = currentFrame])
  OBVIOUS
<1> HIDE DEF e
<1>2. InLine /\ InLine' /\ pc' # "sweep" /\ pc' # "scan"
  BY <1>1, LeaveTo DEF InLine
<1>3. Page \in Pages /\ pageTable \in [Pages -> Entry]
      /\ pageFrames \in [Frames -> Pages \cup {NoPage}]
  BY <1>2, LineHasPage DEF TableInv, TableTyped
<1>4. currentFrame \in Frames /\ currentFrame + 1 \in 0 .. NFrames
  <2>1. currentFrame \in 0 .. NFrames
    BY DEF TableInv, TableTyped
  <2> QED
    BY <1>1, <2>1, PageTableAssumption DEF Frames
<1>5. e \in Entry /\ e.frame = currentFrame /\ e.valid
      /\ e.referenced = pageTable[Page].referenced
      /\ (e.dirty <=> (pageTable[Page].dirty \/ block \in {"S", "M"}))
  <2> DEFINE h == [pageTable[Page] EXCEPT !.valid = TRUE, !.frame = currentFrame]
  <2>1. pageTable[Page] \in Entry
    BY <1>3
  <2>2. h \in Entry /\ h.valid /\ h.frame = currentFrame
        /\ h.referenced = pageTable[Page].referenced /\ h.dirty = pageTable[Page].dirty
    BY <1>4, <2>1, PlacedEntry
  <2>3. e = Touched(h)
    BY <1>0
  <2> HIDE DEF h
  <2> QED
    BY <2>2, <2>3, TouchedEntry
<1>6. pageTable' \in [Pages -> Entry] /\ \A p \in Pages : pageTable'[p] = IF p = Page THEN e ELSE pageTable[p]
  BY <1>1, <1>3, <1>5
<1>7. pageFrames' \in [Frames -> Pages \cup {NoPage}]
      /\ \A f \in Frames : pageFrames'[f] = IF f = currentFrame THEN Page ELSE pageFrames[f]
  BY <1>1, <1>3
<1>8. TableTyped' /\ Page' = Page /\ line' = line /\ line \in Nat
  BY <1>1, <1>2, <1>4, <1>6, <1>7, TypedAfter, LeaveTo DEF InLine, SameLine
<1>9. FramesRight'
  <2>1. /\ \A f \in Frames : f < currentFrame <=> pageFrames[f] \in Pages
        /\ \A p \in Pages, f \in Frames : pageTable[p].frame = f <=> pageFrames[f] = p
        /\ \A p \in Pages : pageTable[p].valid <=> Placed(p)
    BY DEF TableInv, FramesRight
  <2>2. ~Placed(Page) /\ pageFrames[currentFrame] \notin Pages
    BY <1>1, <1>3, <1>4, <2>1 DEF Frames
  <2>3. \A f \in Frames : pageFrames[f] # Page
    BY <1>3, <2>1, <2>2 DEF Placed
  <2>4. \A f \in Frames : f < currentFrame' <=> pageFrames'[f] \in Pages
    <3>1. \A f \in Frames : f < currentFrame + 1 <=> (f < currentFrame \/ f = currentFrame)
      BY <1>4 DEF Frames
    <3> QED
      BY <1>1, <1>3, <1>7, <2>1, <3>1
  <2>5. ASSUME NEW p \in Pages, NEW f \in Frames
        PROVE  pageTable'[p].frame = f <=> pageFrames'[f] = p
    <3>1. CASE p = Page
      <4>1. pageTable'[p].frame = currentFrame
        BY <1>5, <1>6, <3>1
      <4>2. pageFrames'[f] = p <=> f = currentFrame
        BY <1>7, <2>3, <3>1
      <4> QED
        BY <4>1, <4>2
    <3>2. CASE p # Page
      <4>1. pageTable'[p] = pageTable[p]
        BY <1>6, <3>2
      <4>2. pageFrames'[f] = p <=> pageFrames[f] = p
        BY <1>7, <2>2, <3>2
      <4> QED
        BY <2>1, <4>1, <4>2
    <3> QED
      BY <3>1, <3>2
  <2>6. \A p \in Pages : pageTable'[p].valid <=> Placed(p)'
    BY <1>4, <1>5, <1>6, <2>1 DEF Placed
  <2> QED
    BY <1>2, <2>4, <2>5, <2>6 DEF FramesRight
<1>10. CountsRight'
  <2>1. pageTable'[Page].valid
    BY <1>3, <1>5, <1>6
  <2>2. totalPageFaults \in Nat /\ totalPageFaults =< line
    BY <1>1 DEF TableInv, CountsRight
  <2>3. totalWritesToDisk \in Nat /\ totalWritesToDisk =< totalPageFaults
    BY DEF TableInv, CountsRight
  <2>4. totalPageFaults' \in Nat /\ totalPageFaults' =< line' + 1 /\ totalWritesToDisk' =< totalPageFaults'
    BY <1>1, <1>8, <2>2, <2>3
  <2> QED
    BY <1>1, <1>2, <1>8, <2>1, <2>3, <2>4, AccessesAfter DEF CountsRight
<1>11. DirtyRight'
  <2>1. block = "M" => pageTable'[Page].dirty
    BY <1>3, <1>5, <1>6
  <2>2. \A p \in Pages : pageTable[p].dirty => pageTable'[p].dirty
    BY <1>5, <1>6
  <2>3. modified \subseteq Pages
    BY DEF TableInv, DirtyRight
  <2> QED
    BY <1>1, <1>8, <2>1, <2>2, <2>3, DirtyAfter
<1>12. RecentRight'
  <2>1. \A p \in Pages : pageTable'[p].referenced = pageTable[p].referenced
    BY <1>5, <1>6
  <2> QED
    BY <1>1, <1>2, <1>8, <2>1 DEF TableInv, RecentRight
<1>13. LoadsThePage
  BY <1>1, <1>6 DEF LoadsThePage, Placed
<1>14. KeepsPages
  BY <1>5, <1>6 DEF KeepsPages
<1> QED
  BY <1>8, <1>9, <1>10, <1>11, <1>12, <1>13, <1>14 DEF TableInv

(* A loaded page, which is not that of the line, gives up its frame. *)
LEMMA SwapKeeps ==
    ASSUME TableInv, SameLine, NEW v \in Pages, NEW referenced \in BOOLEAN,
           Placed(v), ~Placed(Page), currentFrame = NFrames, Swap(v, referenced),
           \/ pc = "block" /\ ~pageTable[Page].valid /\ totalPageFaults' = totalPageFaults + 1
           \/ pc = "sweep" /\ totalPageFaults' = totalPageFaults
    PROVE  /\ TableInv' /\ LoadsThePage
           /\ \A p \in Pages \ {v} : pageTable[p].valid => pageTable'[p].valid
<1> USE NoFrameIsNone
<1> DEFINE g == pageTable[v].frame
           e == Touched([pageTable[Page] EXCEPT !.valid = TRUE, !.frame = g])
           o == [EmptyEntry EXCEPT !.referenced = referenced]
<1>1. /\ totalWritesToDisk' = totalWritesToDisk + (IF pageTable[v].dirty THEN 1 ELSE 0)
      /\ currentFrame' = currentFrame
      /\ modified' = modified \ {v} /\ recent' = recent \ {v}
      /\ LeaveBlock /\ CountModify
      /\ pageFrames' = [pageFrames EXCEPT ![g] = Page]
      /\ pageTable' = [pageTable EXCEPT ![Page] = e, ![v] = o]
  BY DEF Swap
<1>0. e = Touched([pageTable[Page] EXCEPT !.valid = TRUE, !.frame = g])
  OBVIOUS
<1> HIDE DEF e
<1>2. InLine /\ InLine' /\ pc' # "sweep" /\ pc' # "scan"
  BY <1>1, LeaveTo DEF InLine
<1>3. Page \in Pages /\ pageTable \in [Pages -> Entry]
      /\ pageFrames \in [Frames -> Pages \cup {NoPage}] /\ NFrames \in 0 .. NFrames
  BY <1>2, LineHasPage DEF TableInv, TableTyped
<1>4. g \in Frames /\ v # Page
  BY DEF Placed
<1>5. e \in Entry /\ e.frame = g /\ e.valid /\ e.referenced = pageTable[Page].referenced
      /\ (e.dirty <=> (pageTable[Page].dirty \/ block \in {"S", "M"}))
  <2> DEFINE h == [pageTable[Page] EXCEPT !.valid = TRUE, !.frame = g]
  <2>1. pageTable[Page] \in Entry
    BY <1>3
  <2>2. h \in Entry /\ h.valid /\ h.frame = g
        /\ h.referenced = pageTable[Page].referenced /\ h.dirty = pageTable[Page].dirty
    BY <1>4, <2>1, PlacedEntry
  <2>3. e = Touched(h)
    BY <1>0
  <2> HIDE DEF h
  <2> QED
    BY <2>2, <2>3, TouchedEntry
<1>6. o \in Entry /\ o.frame = NoFrame /\ ~o.valid
  BY TypeOfEmpty
<1> HIDE DEF o
<1>7. pageTable' \in [Pages -> Entry] /\ \A p \in Pages :
          pageTable'[p] = IF p = v THEN o ELSE IF p = Page THEN e ELSE pageTable[p]
  BY <1>1, <1>3, <1>5, <1>6
<1>8. pageFrames' \in [Frames -> Pages \cup {NoPage}]
      /\ \A f \in Frames : pageFrames'[f] = IF f = g THEN Page ELSE pageFrames[f]
  BY <1>1, <1>3, <1>4
<1>9. TableTyped' /\ Page' = Page /\ line' = line /\ line \in Nat
  BY <1>1, <1>2, <1>3, <1>7, <1>8, TypedAfter, LeaveTo DEF InLine, SameLine
<1>10. /\ \A f \in Frames : f < currentFrame <=> pageFrames[f] \in Pages
       /\ \A p \in Pages, f \in Frames : pageTable[p].frame = f <=> pageFrames[f] = p
       /\ \A p \in Pages : p # Page => (pageTable[p].valid <=> Placed(p))
  BY DEF TableInv, FramesRight
<1>11. FramesRight'
  <2>1. pageFrames[g] = v /\ \A f \in Frames : pageFrames[f] # Page
    BY <1>3, <1>4, <1>10 DEF Placed
  <2>2. \A f \in Frames : f < currentFrame' <=> pageFrames'[f] \in Pages
    BY <1>1, <1>3, <1>8, <1>10, <2>1
  <2>3. ASSUME NEW p \in Pages, NEW f \in Frames
        PROVE  pageTable'[p].frame = f <=> pageFrames'[f] = p
    <3>1. CASE p = Page
      <4>1. pageTable'[p].frame = g
        BY <1>4, <1>5, <1>7, <3>1
      <4>2. pageFrames'[f] = p <=> f = g
        BY <1>8, <2>1, <3>1
      <4> QED
        BY <4>1, <4>2
    <3>2. CASE p = v
      <4>1. pageTable'[p].frame = NoFrame
        BY <1>6, <1>7, <3>2
      <4>2. pageFrames'[f] # p
        BY <1>4, <1>8, <1>10, <3>2
      <4> QED
        BY <4>1, <4>2
    <3>3. CASE p # Page /\ p # v
      <4>1. pageTable'[p] = pageTable[p]
        BY <1>7, <3>3
      <4>2. pageFrames'[f] = p <=> pageFrames[f] = p
        BY <1>8, <2>1, <3>3
      <4> QED
        BY <1>10, <4>1, <4>2
    <3> QED
      BY <3>1, <3>2, <3>3
  <2>4. \A p \in Pages : pageTable'[p].valid <=> Placed(p)'
    BY <1>4, <1>5, <1>6, <1>7, <1>10 DEF Placed
  <2> QED
    BY <1>2, <2>2, <2>3, <2>4 DEF FramesRight
<1>12. CountsRight'
  <2>1. pageTable'[Page].valid
    BY <1>3, <1>4, <1>5, <1>7
  <2>2. totalPageFaults \in Nat /\ totalPageFaults =< line + 1
        /\ (pc = "block" => totalPageFaults =< line)
    BY <1>9 DEF TableInv, CountsRight
  <2>3. totalWritesToDisk \in Nat /\ totalWritesToDisk =< totalPageFaults
        /\ (pc = "sweep" => totalWritesToDisk < totalPageFaults)
    BY DEF TableInv, CountsRight
  <2>4. totalWritesToDisk' \in Nat /\ totalWritesToDisk' =< totalWritesToDisk + 1
    BY <1>1, <2>3
  <2>5. totalPageFaults' \in Nat /\ totalPageFaults' =< line' + 1 /\ totalWritesToDisk' =< totalPageFaults'
    BY <1>9, <2>2, <2>3, <2>4
  <2>6. pc \in {"block", "sweep"}
    OBVIOUS
  <2> QED
    BY <1>1, <1>2, <1>9, <2>1, <2>4, <2>5, <2>6, AccessesAfter DEF CountsRight
<1>13. DirtyRight'
  <2>1. block = "M" => pageTable'[Page].dirty
    BY <1>3, <1>4, <1>5, <1>7
  <2>2. \A p \in Pages \ {v} : pageTable[p].dirty => pageTable'[p].dirty
    BY <1>5, <1>7
  <2>3. modified' \subseteq Pages \ {v} /\ modified' \subseteq modified
    BY <1>1 DEF TableInv, DirtyRight
  <2>4. pc \in {"block", "sweep"}
    OBVIOUS
  <2> QED
    BY <1>1, <1>9, <2>1, <2>2, <2>3, <2>4, DirtyAfter
<1>14. RecentRight'
  <2>1. \A p \in Pages \ {v} : pageTable'[p].referenced = pageTable[p].referenced
    BY <1>5, <1>7
  <2> QED
    BY <1>1, <1>2, <1>3, <1>4, <1>9, <2>1 DEF TableInv, RecentRight
<1>15. LoadsThePage
  BY <1>1, <1>6, <1>7 DEF LoadsThePage, Placed
<1>16. \A p \in Pages \ {v} : pageTable[p].valid => pageTable'[p].valid
  BY <1>5, <1>7
<1> QED
  BY <1>9, <1>11, <1>12, <1>13, <1>14, <1>15, <1>16 DEF TableInv
------------------------------------------------------------------------------
(* The steps that one algorithm has to itself. *)

LEMMA TwiceNat ==
    ASSUME NEW n \in Nat
    PROVE  0 =< 2 * n
  OBVIOUS

LEMMA ScanKeeps ==
    ASSUME TableInv, OptScan \/ OptReopen
    PROVE  TableInv' /\ KeepsPages
<1>1. Len(trace) \in Nat /\ line \in 0 .. Len(trace)
  BY TraceIsFinite DEF TableInv, TableTyped
<1>2. /\ pc = "scan" /\ pc' \in {"scan", "read"}
      /\ UNCHANGED <<trace, instructionType, accessType, pageTable, pageFrames, currentFrame,
                     totalMemAccesses, totalPageFaults, totalWritesToDisk, block, modified, recent>>
  BY DEF OptScan, OptReopen, counters, history
<1>3. line' \in 0 .. Len(trace)
  <2>1. CASE OptScan
    <3>1. line < Len(trace) /\ line' = line + 1
      BY <2>1 DEF OptScan
    <3> QED
      BY <1>1, <3>1
  <2>2. CASE OptReopen
    <3>1. line' = 0
      BY <2>2 DEF OptReopen
    <3> QED
      BY <1>1, <3>1
  <2> QED
    BY <2>1, <2>2
<1>4. TableTyped'
  BY <1>2, <1>3 DEF TableInv, TableTyped, InLine
<1>5. FramesRight'
  BY <1>2 DEF TableInv, FramesRight, Placed
<1>6. CountsRight'
  <2>1. totalMemAccesses = 0 /\ totalPageFaults = 0 /\ totalWritesToDisk = 0
    BY <1>2 DEF TableInv, CountsRight
  <2>2. /\ totalMemAccesses' = 0 /\ totalPageFaults' = 0 /\ totalWritesToDisk' = 0
        /\ pc' # "sweep"
    BY <1>2, <2>1
  <2>3. line' \in Nat
    BY <1>1, <1>3
  <2>4. 0 =< line'
    BY <2>3
  <2>5. 0 =< 2 * line'
    BY <2>3, TwiceNat
  <2> QED
    BY <2>2, <2>4, <2>5 DEF CountsRight
<1>7. DirtyRight' /\ RecentRight'
  BY <1>2 DEF TableInv, DirtyRight, RecentRight, InLine
<1>10. KeepsPages
  BY <1>2 DEF KeepsPages
<1> QED
  BY <1>10, <1>4, <1>5, <1>6, <1>7 DEF TableInv

LEMMA StartKeeps ==
    ASSUME TableInv, SameLine, pc = "block", MustEvict, StartSweep
    PROVE  TableInv' /\ KeepsPages
<1>1. /\ ~pageTable[Page].valid /\ currentFrame = NFrames
      /\ totalPageFaults' = totalPageFaults + 1 /\ pc' = "sweep"
      /\ pageTable' = [pageTable EXCEPT ![Page].valid = TRUE]
      /\ UNCHANGED <<pageFrames, currentFrame, totalMemAccesses, totalWritesToDisk, block,
                     modified, recent>>
  BY DEF MustEvict, StartSweep, history
<1>2. Page \in Pages /\ pageTable \in [Pages -> Entry]
      /\ pageFrames \in [Frames -> Pages \cup {NoPage}] /\ currentFrame \in 0 .. NFrames
      /\ block \in Kinds
  BY LineHasPage DEF TableInv, TableTyped, InLine
<1>3. pageTable' \in [Pages -> Entry] /\ \A p \in Pages :
          /\ pageTable'[p].frame = pageTable[p].frame
          /\ pageTable'[p].referenced = pageTable[p].referenced
          /\ pageTable'[p].dirty = pageTable[p].dirty
          /\ pageTable'[p].valid = IF p = Page THEN TRUE ELSE pageTable[p].valid
  BY <1>1, <1>2 DEF Entry
<1>4. TableTyped' /\ Page' = Page /\ line' = line /\ line \in Nat
  BY <1>1, <1>2, <1>3, TypedAfter DEF InLine, SameLine
<1>5. FramesRight'
  <2>1. /\ \A f \in Frames : f < currentFrame <=> pageFrames[f] \in Pages
        /\ \A p \in Pages, f \in Frames : pageTable[p].frame = f <=> pageFrames[f] = p
        /\ \A p \in Pages : pageTable[p].valid <=> Placed(p)
    BY DEF TableInv, FramesRight
  <2>2. \A p \in Pages : Placed(p)' <=> Placed(p)
    BY <1>3 DEF Placed
  <2>3. ~Placed(Page) /\ ~Placed(Page)'
    BY <1>1, <1>2, <2>1, <2>2, <1>4
  <2>4. ASSUME NEW p \in Pages, NEW f \in Frames
        PROVE  pageTable'[p].frame = f <=> pageFrames'[f] = p
    BY <1>1, <1>3, <2>1
  <2>5. \A p \in Pages : pageTable'[p].valid <=> (Placed(p)' \/ p = Page')
    BY <1>3, <1>4, <2>1, <2>2
  <2>6. currentFrame' = NFrames /\ \A f \in Frames : f < currentFrame' <=> pageFrames'[f] \in Pages
    BY <1>1, <2>1
  <2> QED
    BY <1>1, <1>4, <2>3, <2>4, <2>5, <2>6 DEF FramesRight
<1>6. CountsRight'
  <2>1. totalPageFaults \in Nat /\ totalPageFaults =< line /\ totalMemAccesses \in Nat
        /\ totalMemAccesses =< 2 * line
        /\ totalWritesToDisk \in Nat /\ totalWritesToDisk =< totalPageFaults
    BY <1>1 DEF TableInv, CountsRight
  <2>2. pageTable'[Page].valid /\ InLine'
    BY <1>1, <1>2, <1>3 DEF InLine
  <2> QED
    BY <1>1, <1>4, <2>1, <2>2 DEF CountsRight
<1>7. DirtyRight'
  BY <1>1, <1>3, <1>4 DEF TableInv, DirtyRight, SameLine
<1>8. RecentRight'
  BY <1>1, <1>3, <1>4 DEF TableInv, RecentRight, InLine
<1>10. KeepsPages
  BY <1>3 DEF KeepsPages
<1> QED
  BY <1>10, <1>4, <1>5, <1>6, <1>7, <1>8 DEF TableInv

(* The page under the hand is a loaded one. *)
LEMMA HandOnPage ==
    ASSUME TableInv, pc = "sweep", clockHandPos \in 0 .. NFrames
    PROVE  /\ Hand \in Frames /\ Hand + 1 \in 0 .. NFrames
           /\ pageFrames[Hand] \in Pages /\ pageFrames[Hand] # Page /\ Page \in Pages
           /\ pageTable[pageFrames[Hand]].frame = Hand /\ Placed(pageFrames[Hand])
           /\ currentFrame = NFrames /\ ~Placed(Page)
<1>1. Hand \in Frames /\ Hand + 1 \in 0 .. NFrames /\ Hand < NFrames
  BY PageTableAssumption DEF Hand, Frames
<1>2. currentFrame = NFrames /\ ~Placed(Page) /\ Page \in Pages
  BY LineHasPage DEF TableInv, TableTyped, FramesRight, InLine
<1>3. pageFrames[Hand] \in Pages
  BY <1>1, <1>2 DEF TableInv, FramesRight
<1>4. pageTable[pageFrames[Hand]].frame = Hand
  BY <1>1, <1>3 DEF TableInv, FramesRight
<1>5. Placed(pageFrames[Hand])
  BY <1>1, <1>4 DEF Placed
<1> QED
  BY <1>1, <1>2, <1>3, <1>4, <1>5

LEMMA ClearKeeps ==
    ASSUME TableInv, clockHandPos \in 0 .. NFrames, ClockClear
    PROVE  TableInv' /\ KeepsPages
<1> DEFINE q == pageFrames[Hand]
<1>1. /\ pc = "sweep" /\ pageTable' = [pageTable EXCEPT ![q].referenced = FALSE]
      /\ recent' = recent \ {q}
      /\ UNCHANGED <<trace, line, instructionType, accessType, pageFrames, currentFrame,
                     totalMemAccesses, totalPageFaults, totalWritesToDisk, pc, block, modified>>
  BY DEF ClockClear, counters
<1>2. q \in Pages /\ q # Page /\ Page \in Pages /\ pageTable \in [Pages -> Entry]
  BY <1>1, HandOnPage DEF TableInv, TableTyped
<1> HIDE DEF q
<1>3. pageTable' \in [Pages -> Entry] /\ \A p \in Pages :
          /\ pageTable'[p].frame = pageTable[p].frame
          /\ pageTable'[p].valid = pageTable[p].valid
          /\ pageTable'[p].dirty = pageTable[p].dirty
          /\ p # q => pageTable'[p].referenced = pageTable[p].referenced
  BY <1>1, <1>2 DEF Entry
<1>4. TableTyped'
  BY <1>1, <1>3 DEF TableInv, TableTyped, InLine
<1>5. Page' = Page
  BY <1>1 DEF Page
<1>6. FramesRight'
  <2>1. /\ \A f \in Frames : f < currentFrame <=> pageFrames[f] \in Pages
        /\ \A p \in Pages, f \in Frames : pageTable[p].frame = f <=> pageFrames[f] = p
        /\ \A p \in Pages : pageTable[p].valid <=> (Placed(p) \/ p = Page)
        /\ currentFrame = NFrames /\ ~Placed(Page)
    BY <1>1 DEF TableInv, FramesRight
  <2>2. \A p \in Pages : Placed(p)' <=> Placed(p)
    BY <1>3 DEF Placed
  <2>3. ~Placed(Page)'
    BY <1>2, <1>5, <2>1, <2>2
  <2>4. ASSUME NEW p \in Pages, NEW f \in Frames
        PROVE  pageTable'[p].frame = f <=> pageFrames'[f] = p
    BY <1>1, <1>3, <2>1
  <2>5. \A p \in Pages : pageTable'[p].valid <=> (Placed(p)' \/ p = Page')
    BY <1>3, <1>5, <2>1, <2>2
  <2> QED
    BY <1>1, <2>1, <2>3, <2>4, <2>5 DEF FramesRight
<1>7. CountsRight'
  <2>1. pageTable'[Page].valid = pageTable[Page].valid
    BY <1>2, <1>3
  <2> QED
    BY <1>1, <1>5, <2>1 DEF TableInv, CountsRight, InLine
<1>8. DirtyRight'
  BY <1>1, <1>3, <1>5 DEF TableInv, DirtyRight
<1>9. RecentRight'
  BY <1>1, <1>2, <1>3, <1>5 DEF TableInv, RecentRight, InLine
<1>10. KeepsPages
  BY <1>3 DEF KeepsPages
<1> QED
  BY <1>10, <1>4, <1>6, <1>7, <1>8, <1>9 DEF TableInv
------------------------------------------------------------------------------
(* The lines to come. *)

Increasing(s) == \A i, j \in 1 .. Len(s) : i < j => s[i] < s[j]

Member(s, n) == \E i \in 1 .. Len(s) : s[i] = n

LEMMA AppendIncreasing ==
    ASSUME NEW S, S \subseteq Nat, NEW s \in Seq(S), NEW n \in S, Increasing(s),
           \A i \in 1 .. Len(s) : s[i] < n
    PROVE  /\ Append(s, n) \in Seq(S) /\ Increasing(Append(s, n))
           /\ \A k : Member(Append(s, n), k) <=> (Member(s, k) \/ k = n)
<1> DEFINE t == Append(s, n)
<1>1. t \in Seq(S) /\ Len(s) \in Nat /\ Len(t) = Len(s) + 1 /\ t[Len(s) + 1] = n
      /\ \A i \in 1 .. Len(s) : t[i] = s[i]
  OBVIOUS
<1> HIDE DEF t
<1>2. Increasing(t)
  <2> SUFFICES ASSUME NEW i \in 1 .. Len(t), NEW j \in 1 .. Len(t), i < j
               PROVE  t[i] < t[j]
    BY DEF Increasing
  <2>1. i \in 1 .. Len(s) /\ t[i] = s[i]
    BY <1>1
  <2>2. CASE j = Len(s) + 1
    BY <1>1, <2>1, <2>2
  <2>3. CASE j # Len(s) + 1
    <3>1. j \in 1 .. Len(s) /\ t[j] = s[j]
      BY <1>1, <2>3
    <3> QED
      BY <2>1, <3>1 DEF Increasing
  <2> QED
    BY <2>2, <2>3
<1>3. ASSUME NEW k
      PROVE  Member(t, k) <=> (Member(s, k) \/ k = n)
  <2>1. \A i : i \in 1 .. Len(t) <=> (i \in 1 .. Len(s) \/ i = Len(s) + 1)
    BY <1>1
  <2> QED
    BY <1>1, <2>1 DEF Member
<1> QED
  BY <1>1, <1>2, <1>3 DEF t

LEMMA TailOfIncreasing ==
    ASSUME NEW S, S \subseteq Nat, NEW s \in Seq(S), s # <<>>, Increasing(s)
    PROVE  /\ Tail(s) \in Seq(S) /\ Increasing(Tail(s))
           /\ \A k : Member(Tail(s), k) <=> (Member(s, k) /\ k # Head(s))
<1> DEFINE t == Tail(s)
<1>1. t \in Seq(S) /\ Len(s) \in Nat \ {0} /\ Len(t) = Len(s) - 1 /\ Head(s) = s[1]
      /\ \A i \in 1 .. Len(s) - 1 : t[i] = s[i + 1]
  OBVIOUS
<1> HIDE DEF t
<1>2. Increasing(t)
  <2> SUFFICES ASSUME NEW i \in 1 .. Len(t), NEW j \in 1 .. Len(t), i < j
               PROVE  t[i] < t[j]
    BY DEF Increasing
  <2>1. i + 1 \in 1 .. Len(s) /\ j + 1 \in 1 .. Len(s) /\ i + 1 < j + 1
    BY <1>1
  <2>2. t[i] = s[i + 1] /\ t[j] = s[j + 1]
    BY <1>1
  <2> QED
    BY <2>1, <2>2 DEF Increasing
<1>3. ASSUME NEW k
      PROVE  Member(t, k) <=> (Member(s, k) /\ k # Head(s))
  <2>1. ASSUME Member(t, k)
        PROVE  Member(s, k) /\ k # Head(s)
    <3>1. PICK i \in 1 .. Len(t) : t[i] = k
      BY <2>1 DEF Member
    <3>2. i + 1 \in 1 .. Len(s) /\ 1 \in 1 .. Len(s) /\ 1 < i + 1 /\ s[i + 1] = k
      BY <1>1, <3>1
    <3>3. s[1] < s[i + 1]
      BY <3>2 DEF Increasing
    <3>4. s[1] \in S
      BY <3>2
    <3> QED
      <4>1. s[1] # k
        <5>1. \A x \in Nat : ~(x < x)
          OBVIOUS
        <5> QED
          BY <3>2, <3>3, <3>4, <5>1
      <4>2. Member(s, k)
        BY <3>2 DEF Member
      <4> QED
        BY <1>1, <4>1, <4>2
  <2>2. ASSUME Member(s, k), k # Head(s)
        PROVE  Member(t, k)
    <3>1. PICK i \in 1 .. Len(s) : s[i] = k
      BY <2>2 DEF Member
    <3>2. i - 1 \in 1 .. Len(t) /\ t[i - 1] = k
      <4>1. i # 1
        BY <1>1, <2>2, <3>1
      <4>2. i - 1 \in 1 .. Len(s) - 1 /\ i - 1 + 1 = i
        BY <1>1, <4>1
      <4> QED
        BY <1>1, <3>1, <4>2
    <3> QED
      BY <3>2 DEF Member
  <2> QED
    BY <2>1, <2>2
<1> QED
  BY <1>1, <1>2, <1>3 DEF t
------------------------------------------------------------------------------
(* The choice of the page to evict. *)

LEMMA LeastNat ==
    ASSUME NEW S \in SUBSET Nat, S # {}
    PROVE  \E x \in S : \A y \in S : x =< y
<1>1. PICK x \in S : \A y \in S : <<y, x>> \notin OpToRel(<, Nat)
  BY WFMin, NatLessThanWellFounded
<1>2. ASSUME NEW y \in S
      PROVE  x =< y
  <2>1. <<y, x>> \notin OpToRel(<, Nat)
    BY <1>1
  <2>2. ~(y < x)
    BY <2>1 DEF OpToRel
  <2> QED
    BY <2>2
<1> QED
  BY <1>2

LEMMA GreatestNat ==
    ASSUME NEW n \in Nat, NEW S \in SUBSET (0 .. n), S # {}
    PROVE  \E x \in S : \A y \in S : y =< x
<1> DEFINE T == {n - x : x \in S}
<1>1. T \in SUBSET Nat /\ T # {}
  <2>1. ASSUME NEW x \in S
        PROVE  n - x \in Nat
    <3>1. x \in 0 .. n
      OBVIOUS
    <3> QED
      BY <3>1
  <2> QED
    BY <2>1
<1>2. PICK z \in T : \A y \in T : z =< y
  BY <1>1, LeastNat
<1>3. PICK x \in S : z = n - x
  OBVIOUS
<1>4. ASSUME NEW y \in S
      PROVE  y =< x
  <2>1. n - x =< n - y
    BY <1>2, <1>3
  <2>2. x \in 0 .. n /\ y \in 0 .. n
    OBVIOUS
  <2> QED
    BY <2>1, <2>2
<1> QED
  BY <1>4

(* When a page must go, every frame holds one. *)
LEMMA FramesAreFull ==
    ASSUME TableInv, currentFrame = NFrames
    PROVE  /\ 0 \in Frames
           /\ \A f \in Frames : pageFrames[f] \in Pages /\ Placed(pageFrames[f])
           /\ \A p \in Pages : Placed(p) => \E f \in Frames : pageFrames[f] = p
<1>1. 0 \in Frames /\ \A f \in Frames : f < NFrames
  BY PageTableAssumption DEF Frames
<1>2. \A f \in Frames : pageFrames[f] \in Pages
  BY <1>1 DEF TableInv, FramesRight
<1>3. \A p \in Pages, f \in Frames : pageTable[p].frame = f <=> pageFrames[f] = p
  BY DEF TableInv, FramesRight
<1> QED
  BY <1>1, <1>2, <1>3 DEF Placed

LEMMA LeastFrame ==
    ASSUME NEW S \in SUBSET Frames, S # {}
    PROVE  (CHOOSE f \in S : \A g \in S : f <= g) \in S
<1>1. S \in SUBSET Nat
  BY PageTableAssumption DEF Frames
<1>2. \E f \in S : \A g \in S : f <= g
  BY <1>1, LeastNat
<1> QED
  BY <1>2

LEMMA GreatestFrame ==
    ASSUME NEW S \in SUBSET Frames, S # {}
    PROVE  (CHOOSE f \in S : \A g \in S : g <= f) \in S
<1>1. NFrames - 1 \in Nat /\ S \in SUBSET (0 .. NFrames - 1)
  BY PageTableAssumption DEF Frames
<1>2. \E f \in S : \A g \in S : g <= f
  BY <1>1, GreatestNat
<1> QED
  BY <1>2

(* nru evicts a page that is not in use, or else all are. *)
LEMMA NruVictim ==
    ASSUME TableInv, currentFrame = NFrames
    PROVE  /\ PageToEvict \in Pages /\ Placed(PageToEvict)
           /\ \/ ~pageTable[PageToEvict].referenced
              \/ \A p \in Pages : Placed(p) => pageTable[p].referenced
<1> DEFINE Idle == {f \in Frames : ~pageTable[pageFrames[f]].referenced}
           Clean == {f \in Idle : ~pageTable[pageFrames[f]].dirty}
<1>1. Clean \in SUBSET Frames /\ Idle \in SUBSET Frames /\ Clean \subseteq Idle
  OBVIOUS
<1>2. CASE Clean # {}
  <2> DEFINE c == CHOOSE f \in Clean : \A g \in Clean : f <= g
  <2>1. c \in Clean
    BY <1>1, <1>2, LeastFrame
  <2>2. PageToEvict = pageFrames[c]
    BY <1>2 DEF PageToEvict
  <2> HIDE DEF c
  <2> QED
    BY <2>1, <2>2, FramesAreFull
<1>3. CASE Clean = {} /\ Idle # {}
  <2> DEFINE c == CHOOSE f \in Idle : \A g \in Idle : g <= f
  <2>1. c \in Idle
    BY <1>1, <1>3, GreatestFrame
  <2>2. PageToEvict = pageFrames[c]
    BY <1>3 DEF PageToEvict
  <2> HIDE DEF c
  <2> QED
    BY <2>1, <2>2, FramesAreFull
<1>4. CASE Idle = {}
  <2>1. Clean = {}
    BY <1>4
  <2>2. PageToEvict = pageFrames[0]
    BY <1>4, <2>1 DEF PageToEvict
  <2>3. \A p \in Pages : Placed(p) => pageTable[p].referenced
    BY <1>4, FramesAreFull
  <2> QED
    BY <2>2, <2>3, FramesAreFull
<1> QED
  BY <1>2, <1>3, <1>4

(* A dirty one that is not referenced is the choice only if no clean one is. *)
LEMMA NruSparesDirty ==
    ASSUME TableInv, currentFrame = NFrames,
           ~pageTable[PageToEvict].referenced, pageTable[PageToEvict].dirty,
           NEW q \in Pages, Placed(q), ~pageTable[q].referenced
    PROVE  pageTable[q].dirty
<1> DEFINE Idle == {f \in Frames : ~pageTable[pageFrames[f]].referenced}
           Clean == {f \in Idle : ~pageTable[pageFrames[f]].dirty}
<1>1. Clean \in SUBSET Frames
  OBVIOUS
<1>2. Clean = {}
  <2>1. SUFFICES ASSUME Clean # {} PROVE FALSE
    OBVIOUS
  <2> DEFINE c == CHOOSE f \in Clean : \A g \in Clean : f <= g
  <2>2. c \in Clean
    BY <1>1, <2>1, LeastFrame
  <2>3. PageToEvict = pageFrames[c]
    BY <2>1 DEF PageToEvict
  <2> HIDE DEF c
  <2> QED
    BY <2>2, <2>3
<1>3. PICK f \in Frames : pageFrames[f] = q
  BY FramesAreFull
<1> QED
  BY <1>2, <1>3
------------------------------------------------------------------------------
(* The invariant of the three simulations. *)

(* What the list of a page holds: in the first pass, the lines of the page *)
(* so far; in the second, those that are still to come.                    *)
Listed(n) == IF pc = "scan" THEN n < line ELSE IF InLine THEN line < n ELSE line =< n

ListsRight ==
    /\ futureMap \in [Pages -> Seq(0 .. Len(trace) - 1)]
    /\ algorithm = "opt" => \A p \in Pages :
          /\ Increasing(futureMap[p])
          /\ \A n \in 0 .. Len(trace) - 1 :
                 Member(futureMap[p], n) <=> (trace[n + 1] = p /\ Listed(n))

(* For nru the bit of a loaded page says no more than that it is recent.   *)
BitsRight == algorithm = "nru" =>
    \A p \in Pages : Placed(p) /\ pageTable[p].referenced => p \in recent

(* The hand does not move before all frames are used. *)
HandRight ==
    /\ clockHandPos \in 0 .. NFrames
    /\ currentFrame < NFrames => clockHandPos = 0

ModesRight ==
    /\ algorithm \in {"opt", "clock", "nru"}
    /\ pc = "scan" => algorithm = "opt"
    /\ pc = "sweep" => algorithm = "clock"

SimInv == TableInv /\ ListsRight /\ BitsRight /\ HandRight /\ ModesRight

LEMMA SimInvInit == Init => SimInv
<1> SUFFICES ASSUME Init
             PROVE  SimInv
  OBVIOUS
<1>1. TableInv
  BY TableInitInv DEF Init, OptInit, ClockInit, NruInit
<1>2. /\ algorithm \in {"opt", "clock", "nru"} /\ futureMap = [p \in Pages |-> <<>>]
      /\ pc \in {"scan", "read"} /\ (pc = "scan" <=> algorithm = "opt") /\ line = 0
      /\ clockHandPos = 0
  BY DEF Init, OptInit, ClockInit, NruInit, TableInit
<1>3. ListsRight
  <2>1. futureMap \in [Pages -> Seq(0 .. Len(trace) - 1)] /\ \A p \in Pages : futureMap[p] = <<>>
    BY <1>2
  <2>2. Increasing(<<>>) /\ \A n : ~Member(<<>>, n)
    BY DEF Increasing, Member
  <2>3. algorithm = "opt" => \A n \in 0 .. Len(trace) - 1 : ~Listed(n)
    BY <1>2 DEF Listed
  <2> QED
    BY <2>1, <2>2, <2>3 DEF ListsRight
<1>4. BitsRight
  <2>1. pageTable = [p \in Pages |-> EmptyEntry]
    BY DEF Init, OptInit, ClockInit, NruInit, TableInit
  <2>2. ~EmptyEntry.referenced
    BY DEF EmptyEntry
  <2>3. \A p \in Pages : ~pageTable[p].referenced
    BY <2>1, <2>2
  <2> QED
    BY <2>3 DEF BitsRight
<1>5. HandRight /\ ModesRight
  BY <1>2, PageTableAssumption DEF HandRight, ModesRight
<1> QED
  BY <1>1, <1>3, <1>4, <1>5 DEF SimInv

(* The lists stay right when they and what they should hold do not change. *)
LEMMA ListsStay ==
    ASSUME ListsRight, UNCHANGED <<trace, futureMap, algorithm>>,
           algorithm = "opt" => \A n \in 0 .. Len(trace) - 1 : Listed(n)' <=> Listed(n)
    PROVE  ListsRight'
<1>1. trace' = trace /\ futureMap' = futureMap /\ algorithm' = algorithm
  OBVIOUS
<1> QED
  BY <1>1 DEF ListsRight, Increasing, Member

LEMMA ScanLists ==
    ASSUME SimInv, algorithm = "opt", UNCHANGED algorithm, OptScan
    PROVE  ListsRight'
<1> DEFINE N == 0 .. Len(trace) - 1
<1>1. Len(trace) \in Nat /\ line \in N /\ Page \in Pages /\ N \subseteq Nat
  <2>1. trace \in Traces /\ line \in 0 .. Len(trace) /\ line < Len(trace)
    BY DEF OptScan, SimInv, TableInv, TableTyped
  <2>2. Len(trace) \in Nat
    BY <2>1, TraceIsFinite
  <2> QED
    BY <2>1, <2>2, LineHasPage
<1>2. /\ futureMap \in [Pages -> Seq(N)]
      /\ \A p \in Pages : Increasing(futureMap[p]) /\ \A n \in N :
             Member(futureMap[p], n) <=> (trace[n + 1] = p /\ Listed(n))
  BY DEF SimInv, ListsRight
<1>3. /\ futureMap' = [futureMap EXCEPT ![Page] = Append(futureMap[Page], line)]
      /\ pc = "scan" /\ pc' = "scan" /\ line' = line + 1 /\ trace' = trace
  BY DEF OptScan
<1>4. /\ \A n \in N : Listed(n) <=> n < line
      /\ \A n \in N : Listed(n)' <=> n < line + 1
  BY <1>3 DEF Listed
<1> DEFINE s == futureMap[Page]
<1>5. s \in Seq(N) /\ Increasing(s) /\ \A i \in 1 .. Len(s) : s[i] \in N
  BY <1>1, <1>2
<1>6. \A i \in 1 .. Len(s) : s[i] < line
  BY <1>1, <1>2, <1>4, <1>5 DEF Member
<1>7. /\ Append(s, line) \in Seq(N) /\ Increasing(Append(s, line))
      /\ \A n : Member(Append(s, line), n) <=> (Member(s, n) \/ n = line)
  <2> HIDE DEF s, N
  <2> QED
    BY <1>1, <1>5, <1>6, AppendIncreasing
<1>8. futureMap' \in [Pages -> Seq(N)]
      /\ \A p \in Pages : futureMap'[p] = IF p = Page THEN Append(s, line) ELSE futureMap[p]
  BY <1>1, <1>2, <1>3, <1>7
<1>9. trace[line + 1] = Page
  BY DEF Page
<1>10. ASSUME NEW p \in Pages
       PROVE  Increasing(futureMap'[p]) /\ \A n \in N :
                  Member(futureMap'[p], n) <=> (trace[n + 1] = p /\ n < line + 1)
  <2>1. \A n \in N : n < line + 1 <=> (n < line \/ n = line)
    BY <1>1
  <2>2. CASE p = Page
    <3>1. futureMap'[p] = Append(s, line)
      BY <1>8, <2>2
    <3>2. \A n \in N : Member(s, n) <=> (trace[n + 1] = p /\ n < line)
      BY <1>2, <1>4, <2>2
    <3> HIDE DEF s, N
    <3> QED
      BY <1>7, <1>9, <2>1, <2>2, <3>1, <3>2
  <2>3. CASE p # Page
    <3>1. futureMap'[p] = futureMap[p]
      BY <1>8, <2>3
    <3> HIDE DEF s, N
    <3> QED
      BY <1>2, <1>4, <1>9, <2>1, <2>3, <3>1
  <2> QED
    BY <2>2, <2>3
<1> QED
  BY <1>3, <1>4, <1>8, <1>10 DEF ListsRight

(* A line that is read is the first of its page's list, which is not       *)
(* empty.                                                                  *)
LEMMA LineIsFirst ==
    ASSUME SimInv, algorithm = "opt", pc = "read", line < Len(trace)
    PROVE  /\ Page \in Pages /\ Len(trace) \in Nat /\ line \in 0 .. Len(trace) - 1
           /\ futureMap[Page] # <<>> /\ Head(futureMap[Page]) = line
<1> DEFINE N == 0 .. Len(trace) - 1
           s == futureMap[Page]
<1>1. Len(trace) \in Nat /\ line \in N /\ Page \in Pages /\ N \subseteq Nat
  <2>1. trace \in Traces /\ line \in 0 .. Len(trace)
    BY DEF SimInv, TableInv, TableTyped
  <2>2. Len(trace) \in Nat
    BY <2>1, TraceIsFinite
  <2> QED
    BY <2>1, <2>2, LineHasPage
<1>2. s \in Seq(N) /\ Increasing(s) /\ \A n \in N : Member(s, n) <=> (trace[n + 1] = Page /\ line =< n)
  BY <1>1 DEF SimInv, ListsRight, Listed, InLine
<1>3. Member(s, line)
  BY <1>1, <1>2 DEF Page
<1>4. PICK i \in 1 .. Len(s) : s[i] = line
  BY <1>3 DEF Member
<1> HIDE DEF s
<1>5. Len(s) \in Nat /\ s # <<>> /\ 1 \in 1 .. Len(s) /\ Head(s) = s[1] /\ s[1] \in N
  BY <1>2, <1>4
<1>6. Member(s, s[1])
  BY <1>5 DEF Member
<1>7. line =< s[1]
  BY <1>2, <1>5, <1>6
<1>8. s[1] =< line
  <2>1. CASE i = 1
    BY <1>1, <1>4, <2>1
  <2>2. CASE i # 1
    <3>1. 1 < i
      BY <2>2
    <3>2. s[1] < s[i]
      BY <1>2, <1>5, <3>1 DEF Increasing
    <3> QED
      BY <1>1, <1>4, <1>5, <3>2
  <2> QED
    BY <2>1, <2>2
<1>9. s[1] = line
  <2> HIDE DEF N
  <2>1. s[1] \in Nat /\ line \in Nat
    BY <1>1, <1>5
  <2> QED
    BY <1>7, <1>8, <2>1
<1> QED
  BY <1>1, <1>5, <1>9 DEF s

LEMMA ReadLists ==
    ASSUME SimInv, algorithm = "opt", UNCHANGED algorithm, NEW kind \in Kinds, OptRead(kind)
    PROVE  ListsRight'
<1> DEFINE N == 0 .. Len(trace) - 1
           s == futureMap[Page]
<1>1. /\ pc = "read" /\ pc' = "block" /\ line < Len(trace) /\ line' = line /\ trace' = trace
      /\ futureMap' = [futureMap EXCEPT ![Page] = Tail(s)]
  BY DEF OptRead, ReadLine
<1>2. Page \in Pages /\ line \in N /\ N \subseteq Nat /\ s # <<>> /\ Head(s) = line
  BY <1>1, LineIsFirst
<1>3. /\ futureMap \in [Pages -> Seq(N)]
      /\ \A p \in Pages : Increasing(futureMap[p]) /\ \A n \in N :
             Member(futureMap[p], n) <=> (trace[n + 1] = p /\ line =< n)
  BY <1>1 DEF SimInv, ListsRight, Listed, InLine
<1>4. s \in Seq(N) /\ Increasing(s)
  BY <1>2, <1>3
<1>5. /\ Tail(s) \in Seq(N) /\ Increasing(Tail(s))
      /\ \A n : Member(Tail(s), n) <=> (Member(s, n) /\ n # line)
  <2> HIDE DEF s, N
  <2> QED
    BY <1>2, <1>4, TailOfIncreasing
<1>6. futureMap' \in [Pages -> Seq(N)]
      /\ \A p \in Pages : futureMap'[p] = IF p = Page THEN Tail(s) ELSE futureMap[p]
  BY <1>1, <1>2, <1>3, <1>5
<1>7. trace[line + 1] = Page
  BY DEF Page
<1>8. \A n \in N : line < n <=> (line =< n /\ n # line)
  BY <1>2
<1>9. ASSUME NEW p \in Pages
      PROVE  Increasing(futureMap'[p]) /\ \A n \in N :
                 Member(futureMap'[p], n) <=> (trace[n + 1] = p /\ line < n)
  <2>1. CASE p = Page
    <3>1. futureMap'[p] = Tail(s)
      BY <1>6, <2>1
    <3>2. \A n \in N : Member(s, n) <=> (trace[n + 1] = p /\ line =< n)
      BY <1>3, <2>1
    <3> HIDE DEF s, N
    <3> QED
      BY <1>5, <1>8, <3>1, <3>2
  <2>2. CASE p # Page
    <3>1. futureMap'[p] = futureMap[p]
      BY <1>6, <2>2
    <3> HIDE DEF s, N
    <3> QED
      BY <1>3, <1>7, <1>8, <2>2, <3>1
  <2> QED
    BY <2>1, <2>2
<1>10. \A n \in N : Listed(n)' <=> line < n
  BY <1>1 DEF Listed, InLine
<1> QED
  BY <1>1, <1>6, <1>9, <1>10 DEF ListsRight
------------------------------------------------------------------------------
(* The steps of the simulations. *)

(* A step within the line changes no list and loads only its page. *)
LEMMA LineGoesOn ==
    ASSUME SimInv, TableInv', InLine, InLine', SameLine, LoadsThePage,
           UNCHANGED <<algorithm, futureMap>>
    PROVE  ListsRight' /\ BitsRight'
<1>1. pc # "scan" /\ pc' # "scan" /\ line' = line /\ trace' = trace /\ algorithm' = algorithm
  BY DEF InLine, SameLine
<1>2. Page' = Page
  BY <1>1 DEF Page
<1>3. \A n : Listed(n)' <=> Listed(n)
  BY <1>1 DEF Listed
<1>4. ListsRight'
  BY <1>1, <1>3, ListsStay DEF SimInv
<1>5. Page \in recent'
  BY <1>2 DEF TableInv, RecentRight
<1>6. BitsRight'
  BY <1>1, <1>5 DEF SimInv, BitsRight, LoadsThePage, Placed
<1> QED
  BY <1>4, <1>6

LEMMA HandStays ==
    ASSUME SimInv, UNCHANGED clockHandPos,
           currentFrame' = currentFrame \/ currentFrame' = currentFrame + 1
    PROVE  HandRight'
<1>1. currentFrame \in 0 .. NFrames /\ NFrames \in Nat
  BY PageTableAssumption DEF SimInv, TableInv, TableTyped
<1>2. currentFrame' < NFrames => currentFrame < NFrames
  BY <1>1
<1> QED
  BY <1>2 DEF SimInv, HandRight

(* What a block does when it evicts nothing. *)
QuietBlock ==
    \/ Hit \/ FillFrame
    \/ ~Runs(block) /\ LeaveBlock /\ UNCHANGED <<pageTable, pageFrames, currentFrame, counters, history>>

LEMMA QuietBlockKeeps ==
    ASSUME SimInv, pc = "block", SameLine, UNCHANGED <<algorithm, futureMap, clockHandPos>>,
           QuietBlock
    PROVE  SimInv' /\ KeepsPages
<1>1. TableInv' /\ LoadsThePage /\ KeepsPages
  BY SkipKeeps, HitKeeps, FillKeeps DEF SimInv, QuietBlock
<1>2. LeaveBlock
  BY DEF QuietBlock, Hit, FillFrame
<1>3. pc' \in {"block", "end"}
  BY <1>2, LeaveTo DEF SimInv
<1>4. ListsRight' /\ BitsRight'
  BY <1>1, <1>3, LineGoesOn DEF InLine
<1>5. HandRight'
  BY HandStays DEF QuietBlock, Hit, FillFrame
<1>6. ModesRight'
  BY <1>3 DEF SimInv, ModesRight
<1> QED
  BY <1>1, <1>4, <1>5, <1>6 DEF SimInv

(* Only the victim loses its place. *)
Loses(v) == \A p \in Pages \ {v} : pageTable[p].valid => pageTable'[p].valid

LEMMA EvictKeeps ==
    ASSUME SimInv, pc = "block", SameLine, UNCHANGED <<algorithm, futureMap, clockHandPos>>,
           MustEvict, NEW v \in Pages, Placed(v),
           totalPageFaults' = totalPageFaults + 1, Swap(v, FALSE)
    PROVE  SimInv' /\ Loses(v)
<1>1. ~pageTable[Page].valid /\ currentFrame = NFrames
  BY DEF MustEvict
<1>2. Page \in Pages
  BY LineHasPage DEF SimInv, TableInv, TableTyped, InLine
<1>3. ~Placed(Page)
  BY <1>1, <1>2 DEF SimInv, TableInv, FramesRight
<1>4. TableInv' /\ LoadsThePage /\ Loses(v)
  BY <1>1, <1>3, SwapKeeps DEF SimInv, Loses
<1>5. pc' \in {"block", "end"}
  BY LeaveTo DEF SimInv, Swap
<1>6. ListsRight' /\ BitsRight'
  BY <1>4, <1>5, LineGoesOn DEF InLine
<1>7. HandRight'
  BY HandStays DEF Swap
<1>8. ModesRight'
  BY <1>5 DEF SimInv, ModesRight
<1> QED
  BY <1>4, <1>6, <1>7, <1>8 DEF SimInv

LEMMA LineEnds ==
    ASSUME SimInv, UNCHANGED <<algorithm, futureMap, clockHandPos>>, EndLine \/ Finish
    PROVE  SimInv' /\ KeepsPages
<1>1. TableInv' /\ KeepsPages
  BY EndKeeps DEF SimInv
<1>2. /\ pc \in {"read", "end"} /\ pc' \in {"read", "done"}
      /\ UNCHANGED <<trace, pageTable, currentFrame, recent>>
  BY DEF EndLine, Finish, history
<1>3. Len(trace) \in Nat /\ line \in Nat
  <2>1. trace \in Traces /\ line \in 0 .. Len(trace)
    BY DEF SimInv, TableInv, TableTyped
  <2>2. Len(trace) \in Nat
    BY <2>1, TraceIsFinite
  <2> QED
    BY <2>1, <2>2
<1>4. \A n \in 0 .. Len(trace) - 1 : Listed(n)' <=> Listed(n)
  <2>1. CASE EndLine
    <3>1. pc = "end" /\ line' = line + 1 /\ pc' = "read"
      BY <2>1 DEF EndLine
    <3>2. \A n \in 0 .. Len(trace) - 1 : line + 1 =< n <=> line < n
      BY <1>3
    <3> QED
      BY <3>1, <3>2 DEF Listed, InLine
  <2>2. CASE Finish
    <3>1. pc = "read" /\ line' = line /\ pc' = "done"
      BY <2>2 DEF Finish
    <3> QED
      BY <3>1 DEF Listed, InLine
  <2> QED
    BY <2>1, <2>2
<1>5. ListsRight'
  BY <1>2, <1>4, ListsStay DEF SimInv
<1>6. BitsRight' /\ HandRight' /\ ModesRight'
  BY <1>2 DEF SimInv, BitsRight, HandRight, ModesRight, Placed
<1> QED
  BY <1>1, <1>5, <1>6 DEF SimInv
------------------------------------------------------------------------------
(* opt *)

(* The victim is not used again before every other loaded page has been.   *)
LEMMA OptVictim ==
    ASSUME SimInv, algorithm = "opt", pc = "block", currentFrame = NFrames
    PROVE  LET v == LocateLongestDistancePage IN
           /\ v \in Pages /\ Placed(v)
           /\ \A q \in Pages, n \in line + 1 .. Len(trace) - 1 :
                  Placed(q) /\ trace[n + 1] = v => \E m \in line + 1 .. n : trace[m + 1] = q
<1> DEFINE N == 0 .. Len(trace) - 1
           v == LocateLongestDistancePage
           Unused == {f \in Frames : futureMap[pageFrames[f]] = <<>>}
<1>1. Len(trace) \in Nat /\ line \in Nat /\ N \subseteq Nat
  <2>1. trace \in Traces /\ line \in 0 .. Len(trace)
    BY DEF SimInv, TableInv, TableTyped
  <2>2. Len(trace) \in Nat
    BY <2>1, TraceIsFinite
  <2> QED
    BY <2>1, <2>2
<1>2. /\ futureMap \in [Pages -> Seq(N)]
      /\ \A p \in Pages : Increasing(futureMap[p]) /\ \A n \in N :
             Member(futureMap[p], n) <=> (trace[n + 1] = p /\ line < n)
  BY DEF SimInv, ListsRight, Listed, InLine
<1>3. /\ 0 \in Frames
      /\ \A f \in Frames : pageFrames[f] \in Pages /\ Placed(pageFrames[f])
      /\ \A p \in Pages : Placed(p) => \E f \in Frames : pageFrames[f] = p
  BY FramesAreFull DEF SimInv
<1>4. \A n \in line + 1 .. Len(trace) - 1 : n \in N /\ line < n
  BY <1>1
<1>5. CASE Unused # {}
  <2> DEFINE c == CHOOSE f \in Unused : \A g \in Unused : f <= g
  <2>1. c \in Unused
    BY <1>5, LeastFrame
  <2>2. v = pageFrames[c]
    BY <1>5 DEF LocateLongestDistancePage
  <2> HIDE DEF c, v
  <2>3. v \in Pages /\ Placed(v) /\ futureMap[v] = <<>>
    BY <1>3, <2>1, <2>2
  <2>4. \A n \in N : ~Member(futureMap[v], n)
    BY <2>3 DEF Member
  <2>5. \A n \in line + 1 .. Len(trace) - 1 : trace[n + 1] # v
    <3> HIDE DEF N
    <3> QED
      BY <1>2, <1>4, <2>3, <2>4
  <2> QED
    BY <2>3, <2>5 DEF v
<1>6. CASE Unused = {}
  <2> DEFINE S == {NextUse(f) : f \in Frames}
             c == CHOOSE f \in Frames : \A g \in Frames : NextUse(g) <= NextUse(f)
  <2>1. ASSUME NEW f \in Frames
        PROVE  /\ Len(futureMap[pageFrames[f]]) \in Nat /\ 1 \in 1 .. Len(futureMap[pageFrames[f]])
               /\ NextUse(f) = futureMap[pageFrames[f]][1] /\ NextUse(f) \in N
    <3>1. futureMap[pageFrames[f]] \in Seq(N) /\ futureMap[pageFrames[f]] # <<>>
      BY <1>2, <1>3, <1>6
    <3> QED
      BY <3>1 DEF NextUse
  <2>2. \E f \in Frames : \A g \in Frames : NextUse(g) <= NextUse(f)
    <3>1. S \in SUBSET (0 .. Len(trace)) /\ S # {}
      BY <1>1, <1>3, <2>1
    <3>2. PICK x \in S : \A y \in S : y =< x
      <4> HIDE DEF S
      <4> QED
        BY <1>1, <3>1, GreatestNat
    <3> QED
      BY <3>2
  <2>3. c \in Frames /\ \A g \in Frames : NextUse(g) <= NextUse(c)
    BY <2>2
  <2>4. v = pageFrames[c]
    BY <1>6 DEF LocateLongestDistancePage
  <2> HIDE DEF c, v, S
  <2>5. v \in Pages /\ Placed(v)
    BY <1>3, <2>3, <2>4
  <2>6. ASSUME NEW q \in Pages, NEW n \in line + 1 .. Len(trace) - 1, Placed(q), trace[n + 1] = v
        PROVE  \E m \in line + 1 .. n : trace[m + 1] = q
    <3>1. PICK f \in Frames : pageFrames[f] = q
      BY <1>3, <2>6
    <3>2. n \in N /\ Member(futureMap[v], n)
      BY <1>2, <1>4, <2>5, <2>6
    <3>3. PICK i \in 1 .. Len(futureMap[v]) : futureMap[v][i] = n
      BY <3>2 DEF Member
    <3>4. NextUse(c) = futureMap[v][1] /\ 1 \in 1 .. Len(futureMap[v]) /\ NextUse(c) \in N
      BY <2>1, <2>3, <2>4
    <3>5. NextUse(c) =< n
      <4>1. CASE i = 1
        BY <1>1, <3>2, <3>3, <3>4, <4>1
      <4>2. CASE i # 1
        <5>1. 1 < i
          BY <3>3, <4>2
        <5>2. futureMap[v][1] < futureMap[v][i]
          BY <1>2, <2>5, <3>4, <5>1 DEF Increasing
        <5> QED
          BY <3>2, <3>3, <3>4, <5>2
      <4> QED
        BY <4>1, <4>2
    <3>6. NextUse(f) =< NextUse(c) /\ NextUse(f) \in N
      BY <2>1, <2>3
    <3>7. Member(futureMap[q], NextUse(f))
      BY <2>1, <3>1 DEF Member
    <3>8. trace[NextUse(f) + 1] = q /\ line < NextUse(f)
      BY <1>2, <3>6, <3>7
    <3>9. NextUse(f) \in line + 1 .. n
      <4>1. NextUse(f) \in Nat /\ NextUse(c) \in Nat /\ n \in Nat
        BY <1>1, <3>2, <3>4, <3>6
      <4> QED
        BY <1>1, <3>5, <3>6, <3>8, <4>1
    <3> QED
      BY <3>8, <3>9
  <2> QED
    BY <2>5, <2>6 DEF v
<1> QED
  BY <1>5, <1>6

OptEvicts ==
    /\ pc = "block" /\ currentFrame = NFrames
    /\ Loses(LocateLongestDistancePage)

LEMMA OptKeeps ==
    ASSUME SimInv, algorithm = "opt", UNCHANGED <<algorithm, clockHandPos>>, OptNext
    PROVE  SimInv' /\ (KeepsPages \/ OptEvicts)
<1>1. CASE OptScan \/ OptReopen
  <2>1. TableInv' /\ KeepsPages
    BY <1>1, ScanKeeps DEF SimInv
  <2>2. ListsRight'
    <3>1. CASE OptScan
      BY <3>1, ScanLists
    <3>2. CASE OptReopen
      <4>1. pc = "scan" /\ pc' = "read" /\ line = Len(trace) /\ line' = 0
            /\ UNCHANGED <<trace, futureMap>>
        BY <3>2 DEF OptReopen
      <4>2. Len(trace) \in Nat
        BY TraceIsFinite DEF SimInv, TableInv, TableTyped
      <4>3. \A n \in 0 .. Len(trace) - 1 : Listed(n)' <=> Listed(n)
        BY <4>1, <4>2 DEF Listed, InLine
      <4> QED
        BY <4>1, <4>3, ListsStay DEF SimInv
    <3> QED
      BY <1>1, <3>1, <3>2
  <2>3. BitsRight' /\ HandRight' /\ ModesRight'
    BY <1>1 DEF SimInv, BitsRight, HandRight, ModesRight, OptScan, OptReopen
  <2> QED
    BY <2>1, <2>2, <2>3 DEF SimInv
<1>2. ASSUME NEW kind \in Kinds, OptRead(kind)
      PROVE  SimInv' /\ KeepsPages
  <2>1. ReadLine(kind, pageTable, recent)
    BY <1>2 DEF OptRead
  <2>2. TableInv' /\ KeepsPages
    BY <2>1, ReadKeeps DEF SimInv, TableInv, TableTyped, RecentRight, Agrees
  <2>3. ListsRight'
    BY <1>2, ReadLists
  <2>4. BitsRight' /\ HandRight' /\ ModesRight'
    BY <2>1 DEF SimInv, BitsRight, HandRight, ModesRight, ReadLine
  <2> QED
    BY <2>2, <2>3, <2>4 DEF SimInv
<1>3. ASSUME NEW b \in Kinds, OptBlock(b)
      PROVE  SimInv' /\ (KeepsPages \/ OptEvicts)
  <2>1. pc = "block" /\ block = b /\ SameLine /\ UNCHANGED futureMap
    BY <1>3 DEF OptBlock, Block, SameLine
  <2>2. QuietBlock \/ (MustEvict /\ OptEvict)
    BY <1>3 DEF OptBlock, Block, QuietBlock
  <2>3. CASE QuietBlock
    BY <2>1, <2>3, QuietBlockKeeps
  <2>4. CASE MustEvict /\ OptEvict
    <3>1. currentFrame = NFrames
      BY <2>4 DEF MustEvict
    <3>2. LocateLongestDistancePage \in Pages /\ Placed(LocateLongestDistancePage)
      BY <2>1, <3>1, OptVictim
    <3>3. SimInv' /\ Loses(LocateLongestDistancePage)
      BY <2>1, <2>4, <3>2, EvictKeeps DEF OptEvict
    <3> QED
      BY <2>1, <3>1, <3>3 DEF OptEvicts
  <2> QED
    BY <2>2, <2>3, <2>4
<1>4. ASSUME OptEnd
      PROVE  SimInv' /\ KeepsPages
  BY <1>4, LineEnds DEF OptEnd
<1> QED
  BY <1>1, <1>2, <1>3, <1>4 DEF OptNext, OptFetch, OptStore, OptLoad, OptModify, Kinds
------------------------------------------------------------------------------
(* nru *)

LEMMA ResidentIsPlaced ==
    ASSUME TableInv
    PROVE  /\ Resident \cap Pages = Resident
           /\ \A p \in Pages : p \in Resident <=> Placed(p)
<1>1. currentFrame \in 0 .. NFrames /\ NFrames \in Nat
  BY PageTableAssumption DEF TableInv, TableTyped
<1>2. \A f : f \in 0 .. currentFrame - 1 <=> (f \in Frames /\ f < currentFrame)
  BY <1>1 DEF Frames
<1>3. /\ \A f \in Frames : f < currentFrame <=> pageFrames[f] \in Pages
      /\ \A p \in Pages, f \in Frames : pageTable[p].frame = f <=> pageFrames[f] = p
  BY DEF TableInv, FramesRight
<1> QED
  BY <1>2, <1>3 DEF Resident, Placed

NruEvicts ==
    /\ pc = "block" /\ currentFrame = NFrames
    /\ Loses(PageToEvict)

LEMMA NruKeeps ==
    ASSUME SimInv, algorithm = "nru", UNCHANGED <<algorithm, clockHandPos, futureMap>>, NruNext
    PROVE  SimInv' /\ (KeepsPages \/ NruEvicts)
<1>1. ASSUME NEW kind \in Kinds, NruRead(kind)
      PROVE  SimInv' /\ KeepsPages
  <2> DEFINE used == IF RefreshDue THEN {} ELSE recent
  <2>1. ReadLine(kind, RefreshedTable, used)
    BY <1>1 DEF NruRead
  <2>2. pageTable \in [Pages -> Entry] /\ recent \subseteq Pages
        /\ \A p \in recent : pageTable[p].referenced
    BY DEF SimInv, TableInv, TableTyped, RecentRight
  <2>3. Agrees(RefreshedTable)
    BY <2>2 DEF Agrees, RefreshedTable, Entry
  <2>4. used \subseteq Pages /\ \A p \in used : RefreshedTable[p].referenced
    BY <2>2 DEF RefreshedTable
  <2> HIDE DEF used
  <2>5. TableInv' /\ KeepsPages
    BY <2>1, <2>3, <2>4, ReadKeeps DEF SimInv
  <2>6. pc' = "block" /\ line < Len(trace) /\ UNCHANGED <<trace, pageFrames, currentFrame>>
        /\ pageTable' = [RefreshedTable EXCEPT ![Page].referenced = TRUE]
        /\ recent' = used \cup {Page}
    BY <2>1 DEF ReadLine
  <2>7. ListsRight'
    BY <2>6, ListsStay DEF SimInv
  <2>8. BitsRight'
    <3> SUFFICES ASSUME NEW p \in Pages, Placed(p)', pageTable'[p].referenced, p # Page
                 PROVE  p \in recent'
      BY <2>6 DEF BitsRight
    <3>1. pageTable'[p] = RefreshedTable[p]
      BY <2>3, <2>6 DEF Agrees
    <3>2. Placed(p) /\ p \in Resident
      BY <2>3, <3>1, ResidentIsPlaced DEF SimInv, Agrees, Placed
    <3>3. ~RefreshDue /\ pageTable[p].referenced
      BY <2>2, <3>1, <3>2 DEF RefreshedTable, Entry
    <3>4. p \in recent
      BY <3>2, <3>3 DEF SimInv, BitsRight
    <3> QED
      BY <2>6, <3>3, <3>4 DEF used
  <2>9. HandRight' /\ ModesRight'
    BY <2>6 DEF SimInv, HandRight, ModesRight
  <2> QED
    BY <2>5, <2>7, <2>8, <2>9 DEF SimInv
<1>2. ASSUME NEW b \in Kinds, Block(b, NruEvict)
      PROVE  SimInv' /\ (KeepsPages \/ NruEvicts)
  <2>1. pc = "block" /\ block = b /\ SameLine
    BY <1>2 DEF Block, SameLine
  <2>2. QuietBlock \/ (MustEvict /\ NruEvict)
    BY <1>2 DEF Block, QuietBlock
  <2>3. CASE QuietBlock
    BY <2>1, <2>3, QuietBlockKeeps
  <2>4. CASE MustEvict /\ NruEvict
    <3>1. currentFrame = NFrames
      BY <2>4 DEF MustEvict
    <3>2. PageToEvict \in Pages /\ Placed(PageToEvict)
      BY <3>1, NruVictim DEF SimInv
    <3>3. SimInv' /\ Loses(PageToEvict)
      BY <2>1, <2>4, <3>2, EvictKeeps DEF NruEvict
    <3> QED
      BY <2>1, <3>1, <3>3 DEF NruEvicts
  <2> QED
    BY <2>2, <2>3, <2>4
<1>3. ASSUME NruEnd
      PROVE  SimInv' /\ KeepsPages
  BY <1>3, LineEnds DEF NruEnd
<1> QED
  BY <1>1, <1>2, <1>3 DEF NruNext, NruFetch, NruStore, NruLoad, NruModify, Kinds

------------------------------------------------------------------------------
(* clock *)

ClockEvicts ==
    /\ pc = "sweep" /\ currentFrame = NFrames
    /\ ~pageTable[pageFrames[Hand]].referenced /\ pageFrames[Hand] \in Pages
    /\ Loses(pageFrames[Hand])

LEMMA ClockKeeps ==
    ASSUME SimInv, algorithm = "clock", UNCHANGED <<algorithm, futureMap>>, ClockNext
    PROVE  SimInv' /\ (KeepsPages \/ ClockEvicts)
<1>0. clockHandPos \in 0 .. NFrames
  BY DEF SimInv, HandRight
<1>1. ASSUME NEW kind \in Kinds, ClockRead(kind)
      PROVE  SimInv' /\ KeepsPages
  <2>1. ReadLine(kind, pageTable, recent)
    BY <1>1 DEF ClockRead
  <2>2. TableInv' /\ KeepsPages
    BY <2>1, ReadKeeps DEF SimInv, TableInv, TableTyped, RecentRight, Agrees
  <2>3. ListsRight'
    BY <2>1, ListsStay DEF SimInv, ReadLine
  <2>4. BitsRight' /\ HandRight' /\ ModesRight'
    BY <1>1, <2>1 DEF SimInv, BitsRight, HandRight, ModesRight, ReadLine, ClockRead
  <2> QED
    BY <2>2, <2>3, <2>4 DEF SimInv
<1>2. ASSUME NEW b \in Kinds, ClockBlock(b)
      PROVE  SimInv' /\ KeepsPages
  <2>1. pc = "block" /\ block = b /\ SameLine /\ UNCHANGED clockHandPos
    BY <1>2 DEF ClockBlock, Block, SameLine
  <2>2. QuietBlock \/ (MustEvict /\ StartSweep)
    BY <1>2 DEF ClockBlock, Block, QuietBlock
  <2>3. CASE QuietBlock
    BY <2>1, <2>3, QuietBlockKeeps
  <2>4. CASE MustEvict /\ StartSweep
    <3>1. TableInv' /\ KeepsPages
      BY <2>1, <2>4, StartKeeps DEF SimInv
    <3>2. pc' = "sweep" /\ currentFrame' = currentFrame
      BY <2>4 DEF StartSweep
    <3>3. ListsRight'
      BY <2>1, ListsStay DEF SimInv, SameLine
    <3>4. BitsRight' /\ HandRight' /\ ModesRight'
      BY <2>1, <3>2 DEF SimInv, BitsRight, HandRight, ModesRight
    <3> QED
      BY <3>1, <3>3, <3>4 DEF SimInv
  <2> QED
    BY <2>2, <2>3, <2>4
<1>3. ASSUME ClockClear
      PROVE  SimInv' /\ KeepsPages
  <2>1. TableInv' /\ KeepsPages
    BY <1>0, <1>3, ClearKeeps DEF SimInv
  <2>2. pc = "sweep" /\ clockHandPos' = Hand + 1 /\ UNCHANGED <<trace, pc, currentFrame>>
    BY <1>3 DEF ClockClear
  <2>3. ListsRight'
    BY <2>2, ListsStay DEF SimInv
  <2>4. HandRight'
    <3>1. Hand + 1 \in 0 .. NFrames /\ currentFrame = NFrames
      BY <1>0, <2>2, HandOnPage DEF SimInv
    <3> QED
      BY <2>2, <3>1, PageTableAssumption DEF HandRight
  <2>5. BitsRight' /\ ModesRight'
    BY <2>2 DEF SimInv, BitsRight, ModesRight
  <2> QED
    BY <2>1, <2>3, <2>4, <2>5 DEF SimInv
<1>4. ASSUME ClockFound
      PROVE  SimInv' /\ ClockEvicts
  <2>1. /\ pc = "sweep" /\ SameLine /\ UNCHANGED totalPageFaults
        /\ ~pageTable[pageFrames[Hand]].referenced /\ clockHandPos' = Hand + 1
        /\ Swap(pageFrames[Hand], block \in {"I", "S"})
    BY <1>4 DEF ClockFound, SameLine
  <2>2. /\ pageFrames[Hand] \in Pages /\ Placed(pageFrames[Hand]) /\ currentFrame = NFrames
        /\ ~Placed(Page) /\ Hand + 1 \in 0 .. NFrames
    BY <1>0, <2>1, HandOnPage DEF SimInv
  <2>3. TableInv' /\ LoadsThePage /\ Loses(pageFrames[Hand])
    <3> DEFINE v == pageFrames[Hand]
               bit == block \in {"I", "S"}
    <3>1. bit \in BOOLEAN /\ v \in Pages /\ Placed(v) /\ Swap(v, bit)
      BY <2>1, <2>2
    <3> HIDE DEF v, bit
    <3>2. TableInv' /\ LoadsThePage /\ Loses(v)
      BY <2>1, <2>2, <3>1, SwapKeeps DEF SimInv, Loses
    <3> QED
      BY <3>2 DEF v
  <2>4. pc' \in {"block", "end"} /\ currentFrame' = currentFrame
    BY <2>1, LeaveTo DEF SimInv, Swap
  <2>5. ListsRight' /\ BitsRight'
    BY <2>1, <2>3, <2>4, LineGoesOn DEF InLine
  <2>6. HandRight' /\ ModesRight'
    BY <2>1, <2>2, <2>4, PageTableAssumption DEF SimInv, HandRight, ModesRight
  <2> QED
    BY <2>1, <2>2, <2>3, <2>5, <2>6 DEF SimInv, ClockEvicts
<1>5. ASSUME ClockEnd
      PROVE  SimInv' /\ KeepsPages
  BY <1>5, LineEnds DEF ClockEnd
<1> QED
  BY <1>1, <1>2, <1>3, <1>4, <1>5 DEF ClockNext, ClockFetch, ClockStore, ClockLoad, ClockModify, Kinds
------------------------------------------------------------------------------
(* The results. *)

LEMMA SimInvNext == SimInv /\ [Next]_vars => SimInv'
<1> SUFFICES ASSUME SimInv, [Next]_vars
             PROVE  SimInv'
  OBVIOUS
<1>1. CASE UNCHANGED vars
  <2>1. UNCHANGED <<trace, line, instructionType, accessType, pageTable, pageFrames, currentFrame,
                    totalMemAccesses, totalPageFaults, totalWritesToDisk, pc, block, modified,
                    recent, futureMap, clockHandPos, algorithm>>
    BY <1>1 DEF vars, tableVars, counters, history
  <2>2. TableTyped' /\ FramesRight'
    BY <2>1 DEF SimInv, TableInv, TableTyped, FramesRight, InLine, Placed, Page
  <2>3. CountsRight' /\ DirtyRight' /\ RecentRight'
    BY <2>1 DEF SimInv, TableInv, CountsRight, DirtyRight, RecentRight, InLine, Page
  <2>4. ListsRight'
    BY <2>1, ListsStay DEF SimInv, Listed, InLine
  <2>5. BitsRight' /\ HandRight' /\ ModesRight'
    BY <2>1 DEF SimInv, BitsRight, HandRight, ModesRight, Placed
  <2> QED
    BY <2>2, <2>3, <2>4, <2>5 DEF SimInv, TableInv
<1>2. CASE Next
  BY <1>2, OptKeeps, ClockKeeps, NruKeeps DEF Next
<1> QED
  BY <1>1, <1>2

LEMMA SimInvHolds == Spec => []SimInv
  BY SimInvInit, SimInvNext, PTL DEF Spec

LEMMA SimInvTypes == SimInv => TypeOK
<1> SUFFICES ASSUME SimInv
             PROVE  TypeOK
  OBVIOUS
<1>1. Len(trace) \in Nat /\ line \in 0 .. Len(trace) /\ (InLine => line < Len(trace))
  BY TraceIsFinite DEF SimInv, TableInv, TableTyped
<1>2. totalPageFaults \in 0 .. Len(trace)
  BY <1>1 DEF SimInv, TableInv, CountsRight
<1>3. totalMemAccesses \in 0 .. 2 * Len(trace)
  BY <1>1 DEF SimInv, TableInv, CountsRight, InLine
<1>4. totalWritesToDisk \in 0 .. totalPageFaults
  BY <1>2 DEF SimInv, TableInv, CountsRight
<1> QED
  BY <1>1, <1>2, <1>3, <1>4
  DEF SimInv, TableInv, TableTyped, ListsRight, HandRight, ModesRight, TypeOK

(* Each of the three methods keeps page table and frames in step, in all   *)
(* of its four blocks, and counts at most one fault and two accesses for a *)
(* line (Simulate.java, opt, clock and nru).                               *)
THEOREM TableKept == Spec => []FramesMatchTable
<1>1. SimInv => FramesMatchTable
  <2> SUFFICES ASSUME SimInv, pc # "sweep"
               PROVE  /\ \A p \in Pages : pageTable[p].valid <=> p \in Resident
                      /\ \A p \in Pages : \A f \in Frames : pageTable[p].frame = f <=> pageFrames[f] = p
    BY SimInvTypes DEF FramesMatchTable
  <2> QED
    BY ResidentIsPlaced DEF SimInv, TableInv, FramesRight
<1> QED
  BY <1>1, SimInvHolds, PTL

(* The block for M makes the page dirty, however its line got there, and   *)
(* only eviction makes it clean (Simulate.java:207-245).                   *)
THEOREM ModifiedKept == Spec => []ModifiedStaysDirty
<1>1. SimInv => ModifiedStaysDirty
  BY DEF SimInv, TableInv, DirtyRight, ModifiedStaysDirty
<1> QED
  BY <1>1, SimInvHolds, PTL

(* A step that evicts a page is a step of one of the three choices. *)
LEMMA WhoEvicts ==
    ASSUME SimInv, [Next]_vars, NEW p \in Pages, Evicts(p)
    PROVE  /\ Placed(p)
           /\ \/ algorithm = "opt" /\ OptEvicts /\ p = LocateLongestDistancePage
              \/ algorithm = "nru" /\ NruEvicts /\ p = PageToEvict
              \/ algorithm = "clock" /\ ClockEvicts /\ p = pageFrames[Hand]
<1>1. pageTable[p].valid /\ ~pageTable'[p].valid /\ Placed(p)
  BY ResidentIsPlaced DEF Evicts, SimInv
<1>2. ~KeepsPages
  BY <1>1 DEF KeepsPages
<1>3. Next
  BY <1>1 DEF vars, tableVars
<1>4. CASE algorithm = "opt"
  <2>1. OptEvicts
    BY <1>2, <1>3, <1>4, OptKeeps DEF Next
  <2> QED
    BY <1>1, <1>4, <2>1 DEF OptEvicts, Loses
<1>5. CASE algorithm = "nru"
  <2>1. NruEvicts
    BY <1>2, <1>3, <1>5, NruKeeps DEF Next
  <2> QED
    BY <1>1, <1>5, <2>1 DEF NruEvicts, Loses
<1>6. CASE algorithm = "clock"
  <2>1. ClockEvicts
    BY <1>2, <1>3, <1>6, ClockKeeps DEF Next
  <2> QED
    BY <1>1, <1>6, <2>1 DEF ClockEvicts, Loses
<1> QED
  BY <1>4, <1>5, <1>6 DEF SimInv, ModesRight

(* Whatever the trace, opt evicts the page that is needed last, clock and  *)
(* nru spare the pages in use, and of the others nru evicts a dirty one    *)
(* only if all are (Simulate.java:257-273, 653-690, and the loop of        *)
(* clock).                                                                 *)
THEOREM VictimsRight == Spec => VictimsAreRight
<1> DEFINE Spares == algorithm # "opt" =>
               \A p \in Pages : Evicts(p) => p \notin recent \/ Resident \subseteq recent
           Dirty == algorithm = "nru" =>
               \A p \in Pages : Evicts(p) /\ p \notin recent /\ pageTable[p].dirty =>
                   \A q \in Resident \ recent : pageTable[q].dirty
           Furthest == algorithm = "opt" =>
               \A p \in Pages : Evicts(p) =>
                   \A q \in Resident \ {p}, n \in line + 1 .. Len(trace) - 1 :
                       trace[n + 1] = p => \E m \in line + 1 .. n : trace[m + 1] = q
<1>1. SimInv /\ [Next]_vars => Spares
  <2> SUFFICES ASSUME SimInv, [Next]_vars, algorithm # "opt", NEW p \in Pages, Evicts(p)
               PROVE  p \notin recent \/ Resident \subseteq recent
    OBVIOUS
  <2>1. TableInv /\ \A q \in recent : pageTable[q].referenced
    BY DEF SimInv, TableInv, RecentRight
  <2>2. CASE algorithm = "nru"
    <3>1. NruEvicts /\ p = PageToEvict
      BY <2>2, WhoEvicts
    <3>2. ~pageTable[p].referenced \/ \A q \in Pages : Placed(q) => pageTable[q].referenced
      BY <2>1, <3>1, NruVictim DEF NruEvicts
    <3>3. CASE ~pageTable[p].referenced
      BY <2>1, <3>3
    <3>4. CASE \A q \in Pages : Placed(q) => pageTable[q].referenced
      BY <2>1, <2>2, <3>4, ResidentIsPlaced DEF SimInv, BitsRight
    <3> QED
      BY <3>2, <3>3, <3>4
  <2>3. CASE algorithm = "clock"
    <3>1. ~pageTable[p].referenced
      BY <2>3, WhoEvicts DEF ClockEvicts
    <3> QED
      BY <2>1, <3>1
  <2> QED
    BY <2>2, <2>3 DEF SimInv, ModesRight
<1>2. SimInv /\ [Next]_vars => Furthest
  <2> SUFFICES ASSUME SimInv, [Next]_vars, algorithm = "opt", NEW p \in Pages, Evicts(p),
                      NEW q \in Resident \ {p}, NEW n \in line + 1 .. Len(trace) - 1,
                      trace[n + 1] = p
               PROVE  \E m \in line + 1 .. n : trace[m + 1] = q
    OBVIOUS
  <2>1. OptEvicts /\ p = LocateLongestDistancePage
    BY WhoEvicts
  <2>2. q \in Pages /\ Placed(q)
    BY ResidentIsPlaced DEF SimInv
  <2> QED
    BY <2>1, <2>2, OptVictim DEF OptEvicts
<1>3. SimInv /\ [Next]_vars => Dirty
  <2> SUFFICES ASSUME SimInv, [Next]_vars, algorithm = "nru", NEW p \in Pages, Evicts(p),
                      p \notin recent, pageTable[p].dirty, NEW q \in Resident \ recent
               PROVE  pageTable[q].dirty
    OBVIOUS
  <2>1. NruEvicts /\ p = PageToEvict /\ Placed(p)
    BY WhoEvicts
  <2>2. q \in Pages /\ Placed(q)
    BY ResidentIsPlaced DEF SimInv
  <2>3. ~pageTable[p].referenced /\ ~pageTable[q].referenced
    BY <2>1, <2>2 DEF SimInv, BitsRight
  <2> QED
    BY <2>1, <2>2, <2>3, NruSparesDirty DEF NruEvicts, SimInv
<1> HIDE DEF Spares, Dirty, Furthest
<1>4. Spec => [][Spares]_vars /\ [][Dirty]_vars /\ [][Furthest]_vars
  BY <1>1, <1>2, <1>3, SimInvHolds, PTL DEF Spec
<1> QED
  BY <1>4 DEF VictimsAreRight, SparesRecentlyUsed, SparesDirty, EvictsFurthest, Spares, Dirty, Furthest
------------------------------------------------------------------------------
(* clock is the second-chance queue. *)

LEMMA ModOnce ==
    ASSUME NEW n \in Nat \ {0}, NEW a \in Nat, a < n + n
    PROVE  a % n = IF a < n THEN a ELSE a - n
<1>1. CASE a < n
  BY <1>1
<1>2. CASE ~(a < n)
  BY <1>2
<1> QED
  BY <1>1, <1>2

LEMMA IsAppended ==
    ASSUME NEW S, NEW s \in Seq(S), NEW x \in S, NEW t \in Seq(S), Len(t) = Len(s) + 1,
           t[Len(s) + 1] = x, \A i \in 1 .. Len(s) : t[i] = s[i]
    PROVE  t = Append(s, x)
  OBVIOUS

LEMMA IsRotated ==
    ASSUME NEW S, NEW s \in Seq(S), s # <<>>, NEW x \in S, NEW t \in Seq(S), Len(t) = Len(s),
           t[Len(s)] = x, \A i \in 1 .. Len(s) - 1 : t[i] = s[i + 1]
    PROVE  t = Append(Tail(s), x)
  OBVIOUS

(* The frame of the page that the hand comes to i-th. *)
Visited(i) == IF Hand + i - 1 < currentFrame THEN Hand + i - 1 ELSE Hand + i - 1 - currentFrame

LEMMA HandInFrames ==
    ASSUME SimInv
    PROVE  /\ currentFrame \in Nat /\ Hand \in Nat /\ NFrames \in Nat \ {0}
           /\ currentFrame =< NFrames /\ Hand < NFrames
           /\ currentFrame < NFrames => Hand = 0
<1>1. currentFrame \in 0 .. NFrames /\ clockHandPos \in 0 .. NFrames /\ NFrames \in Nat \ {0}
      /\ (currentFrame < NFrames => clockHandPos = 0)
  BY PageTableAssumption DEF SimInv, TableInv, TableTyped, HandRight
<1> QED
  BY <1>1 DEF Hand

LEMMA VisitedIsFrame ==
    ASSUME SimInv, NEW i \in 1 .. currentFrame
    PROVE  Visited(i) \in Frames /\ Visited(i) < currentFrame
           /\ (Hand + i - 1) % currentFrame = Visited(i)
<1>1. /\ currentFrame \in Nat \ {0} /\ Hand \in Nat /\ NFrames \in Nat
      /\ currentFrame =< NFrames /\ Hand < currentFrame
  BY HandInFrames
<1> DEFINE a == Hand + i - 1
<1>2. a \in Nat /\ a < currentFrame + currentFrame
  BY <1>1
<1>3. Visited(i) \in Frames /\ Visited(i) < currentFrame
  BY <1>1 DEF Visited, Frames
<1>4. a % currentFrame = Visited(i)
  <2>1. Visited(i) = IF a < currentFrame THEN a ELSE a - currentFrame
    BY <1>1, <1>2 DEF Visited
  <2> HIDE DEF a
  <2> QED
    BY <1>1, <1>2, <2>1, ModOnce
<1> QED
  BY <1>3, <1>4

LEMMA QueueShape ==
    ASSUME SimInv, algorithm = "clock"
    PROVE  /\ ClockQueue \in Seq(Pages) /\ Len(ClockQueue) = currentFrame
           /\ DOMAIN ClockQueue = 1 .. currentFrame
           /\ \A i \in 1 .. currentFrame : ClockQueue[i] = pageFrames[Visited(i)]
<1>1. ClockQueue = [i \in 1 .. currentFrame |-> pageFrames[(Hand + i - 1) % currentFrame]]
  BY DEF ClockQueue
<1>2. \A i \in 1 .. currentFrame : (Hand + i - 1) % currentFrame = Visited(i)
                                   /\ pageFrames[Visited(i)] \in Pages
  BY VisitedIsFrame DEF SimInv, TableInv, FramesRight
<1>3. currentFrame \in Nat
  BY HandInFrames
<1>4. ClockQueue \in [1 .. currentFrame -> Pages]
      /\ \A i \in 1 .. currentFrame : ClockQueue[i] = pageFrames[Visited(i)]
  BY <1>1, <1>2
<1> QED
  BY <1>3, <1>4

LEMMA ChancesShape ==
    ASSUME SimInv, algorithm = "clock"
    PROVE  \A p : p \in ClockChances <=> (p \in Pages /\ Placed(p) /\ pageTable[p].referenced)
  BY ResidentIsPlaced DEF SimInv, ClockChances

(* What the queue and the chances are, as a predicate of one state. *)
QueueRight ==
    /\ ClockQueue \in Seq(Pages) /\ Len(ClockQueue) = currentFrame
    /\ \A i \in 1 .. currentFrame : ClockQueue[i] = pageFrames[Visited(i)]
    /\ \A p : p \in ClockChances <=> (p \in Pages /\ Placed(p) /\ pageTable[p].referenced)

LEMMA QueueNow == SimInv /\ algorithm = "clock" => QueueRight
  BY QueueShape, ChancesShape DEF QueueRight

LEMMA QueueNext == SimInv' /\ algorithm' = "clock" => QueueRight'
<1>1. (SimInv /\ algorithm = "clock" => QueueRight)'
  BY QueueNow, PTL
<1> QED
  BY <1>1

LEMMA QueueIsResident ==
    ASSUME SimInv, algorithm = "clock"
    PROVE  \A p \in Pages : p \in Promise!Queued <=> Placed(p)
<1>1. /\ DOMAIN ClockQueue = 1 .. currentFrame
      /\ \A i \in 1 .. currentFrame : ClockQueue[i] = pageFrames[Visited(i)] /\ Visited(i) \in Frames
  BY QueueShape, VisitedIsFrame
<1>2. /\ \A f \in Frames : f < currentFrame <=> pageFrames[f] \in Pages
      /\ \A p \in Pages, f \in Frames : pageTable[p].frame = f <=> pageFrames[f] = p
  BY DEF SimInv, TableInv, FramesRight
<1>3. ASSUME NEW p \in Pages, Placed(p)
      PROVE  \E i \in 1 .. currentFrame : pageFrames[Visited(i)] = p
  <2> DEFINE f == pageTable[p].frame
             i == IF Hand =< f THEN f - Hand + 1 ELSE f - Hand + 1 + currentFrame
  <2>1. f \in Frames /\ pageFrames[f] = p /\ f < currentFrame
    BY <1>2, <1>3 DEF Placed
  <2> HIDE DEF f
  <2>2. f \in Nat /\ currentFrame \in Nat /\ Hand \in Nat /\ Hand < currentFrame
    BY <2>1, HandInFrames DEF Frames
  <2>3. i \in 1 .. currentFrame /\ Visited(i) = f
    BY <2>1, <2>2 DEF Visited
  <2> QED
    BY <2>1, <2>3
<1>4. ASSUME NEW p \in Pages, NEW i \in 1 .. currentFrame, pageFrames[Visited(i)] = p
      PROVE  Placed(p)
  BY <1>1, <1>2, <1>4 DEF Placed
<1> QED
  BY <1>1, <1>3, <1>4 DEF Promise!Queued

(* Nothing happens to the queue when frames, hand and the bits of the      *)
(* loaded pages stay.                                                      *)
LEMMA QueueStays ==
    ASSUME SimInv, SimInv', UNCHANGED <<algorithm, pageFrames, currentFrame, clockHandPos>>,
           algorithm = "clock" => \A p \in Pages : Placed(p) =>
               (pageTable'[p].referenced <=> pageTable[p].referenced)
    PROVE  UNCHANGED <<ClockQueue, ClockChances>>
<1>1. UNCHANGED ClockQueue
  BY DEF ClockQueue, Hand
<1>2. Resident' = Resident
  BY DEF Resident
<1>3. \A p \in Resident : p \in Pages /\ Placed(p)
  BY ResidentIsPlaced DEF SimInv
<1>4. UNCHANGED ClockChances
  BY <1>2, <1>3 DEF ClockChances
<1> QED
  BY <1>1, <1>4

LEMMA FillJoins ==
    ASSUME SimInv, SimInv', algorithm = "clock", UNCHANGED <<algorithm, clockHandPos, trace, line>>,
           pc = "block", FillFrame, LoadsThePage
    PROVE  Promise!Join(Page)
<1>1. /\ ~pageTable[Page].valid /\ currentFrame < NFrames /\ currentFrame' = currentFrame + 1
      /\ pageFrames' = [pageFrames EXCEPT ![currentFrame] = Page] /\ LeaveBlock
  BY DEF FillFrame
<1>2. Page \in Pages /\ Page' = Page /\ pageFrames \in [Frames -> Pages \cup {NoPage}]
  BY LineHasPage DEF SimInv, TableInv, TableTyped, InLine, Page
<1>3. /\ currentFrame \in Nat /\ currentFrame \in Frames /\ Hand = 0 /\ Hand' = 0
  BY <1>1, HandInFrames DEF Frames, Hand
<1>4. ~Placed(Page) /\ Page \notin Promise!Queued
  BY <1>1, <1>2, QueueIsResident DEF SimInv, TableInv, FramesRight
<1>5. Page \in recent' /\ pageTable'[Page].referenced
  <2>1. pc' \in {"block", "end"}
    BY <1>1, LeaveTo DEF SimInv
  <2> QED
    BY <1>2, <2>1 DEF SimInv, TableInv, RecentRight, InLine
<1>6. ClockQueue' = Append(ClockQueue, Page)
  <2>1. /\ ClockQueue \in Seq(Pages) /\ Len(ClockQueue) = currentFrame
        /\ \A i \in 1 .. currentFrame : ClockQueue[i] = pageFrames[Visited(i)]
    BY QueueNow DEF QueueRight
  <2>2. /\ ClockQueue' \in Seq(Pages) /\ Len(ClockQueue') = currentFrame + 1
        /\ \A i \in 1 .. currentFrame + 1 : ClockQueue'[i] = pageFrames'[Visited(i)']
    BY <1>1, QueueNext DEF QueueRight
  <2>3. /\ \A i \in 1 .. currentFrame : Visited(i) = i - 1 /\ i - 1 \in Frames /\ i - 1 # currentFrame
        /\ \A i \in 1 .. currentFrame + 1 : Visited(i)' = i - 1
    <3>1. \A i \in 1 .. currentFrame + 1 : Visited(i)' = i - 1
      <4> SUFFICES ASSUME NEW i \in 1 .. currentFrame + 1
                   PROVE  Visited(i)' = i - 1
        OBVIOUS
      <4>1. Visited(i)' = IF 0 + i - 1 < currentFrame + 1 THEN 0 + i - 1 ELSE 0 + i - 1 - (currentFrame + 1)
        BY <1>1, <1>3 DEF Visited
      <4> QED
        BY <1>3, <4>1
    <3>2. \A i \in 1 .. currentFrame : Visited(i) = i - 1
      BY <1>3 DEF Visited
    <3>3. \A i \in 1 .. currentFrame : i - 1 \in Frames /\ i - 1 # currentFrame
      BY <1>3, PageTableAssumption DEF Frames
    <3> QED
      BY <3>1, <3>2, <3>3
  <2>4. \A i \in 1 .. currentFrame : ClockQueue'[i] = ClockQueue[i]
    <3> SUFFICES ASSUME NEW i \in 1 .. currentFrame
                 PROVE  ClockQueue'[i] = ClockQueue[i]
      OBVIOUS
    <3>1. i \in 1 .. currentFrame + 1
      BY <1>3
    <3>2. pageFrames'[i - 1] = pageFrames[i - 1]
      BY <1>1, <1>2, <2>3
    <3> QED
      BY <2>1, <2>2, <2>3, <3>1, <3>2
  <2>5. ASSUME NEW i \in 1 .. currentFrame + 1, i = currentFrame + 1
        PROVE  ClockQueue'[i] = Page
    <3>1. i - 1 = currentFrame
      BY <1>3, <2>5
    <3>2. pageFrames'[currentFrame] = Page
      BY <1>1, <1>2, <1>3
    <3>3. Visited(i)' = i - 1
      BY <2>3
    <3> QED
      BY <2>2, <3>1, <3>2, <3>3
  <2>6. currentFrame + 1 \in 1 .. currentFrame + 1
    BY <1>3
  <2>7. ClockQueue'[currentFrame + 1] = Page
    BY <2>5, <2>6
  <2> QED
    BY <1>2, <2>1, <2>2, <2>4, <2>7, IsAppended
<1>7. \A p \in Pages : Placed(p)' <=> (Placed(p) \/ p = Page)
  <2>1. /\ \A p \in Pages, f \in Frames : pageTable[p].frame = f <=> pageFrames[f] = p
        /\ \A p \in Pages, f \in Frames : pageTable'[p].frame = f <=> pageFrames'[f] = p
        /\ pageFrames[currentFrame] \notin Pages
    BY <1>1, <1>3 DEF SimInv, TableInv, FramesRight
  <2>2. \A f \in Frames : pageFrames'[f] = IF f = currentFrame THEN Page ELSE pageFrames[f]
    BY <1>1, <1>2
  <2> QED
    <3> SUFFICES ASSUME NEW p \in Pages
                 PROVE  Placed(p)' <=> (Placed(p) \/ p = Page)
      OBVIOUS
    <3>1. Placed(p) <=> \E f \in Frames : pageFrames[f] = p
      BY <2>1 DEF Placed
    <3>2. Placed(p)' <=> \E f \in Frames : pageFrames'[f] = p
      BY <2>1 DEF Placed
    <3>3. currentFrame \in Frames /\ Page \in Pages /\ pageFrames[currentFrame] # p
      BY <1>2, <1>3, <2>1
    <3>4. ASSUME NEW f \in Frames
          PROVE  pageFrames'[f] = p <=> (pageFrames[f] = p \/ (f = currentFrame /\ p = Page))
      <4>1. CASE f = currentFrame
        BY <2>2, <3>3, <4>1
      <4>2. CASE f # currentFrame
        BY <2>2, <4>2
      <4> QED
        BY <4>1, <4>2
    <3> QED
      BY <3>1, <3>2, <3>3, <3>4
<1>8. ClockChances' = ClockChances \cup {Page}
  <2>1. \A p : p \in ClockChances <=> (p \in Pages /\ Placed(p) /\ pageTable[p].referenced)
    BY ChancesShape
  <2>2. \A p : p \in ClockChances' <=> (p \in Pages /\ Placed(p)' /\ pageTable'[p].referenced)
    BY QueueNext DEF QueueRight
  <2>3. \A p \in Pages : Placed(p) => pageTable'[p] = pageTable[p]
    BY <1>4, <1>7 DEF LoadsThePage
  <2>4. \A p : p \in ClockChances' <=> (p \in ClockChances \/ p = Page)
    BY <1>2, <1>5, <1>7, <2>1, <2>2, <2>3
  <2> QED
    BY <2>4
<1>9. Len(ClockQueue) < NFrames
  BY <1>1, QueueShape
<1> QED
  BY <1>4, <1>6, <1>8, <1>9 DEF Promise!Join

(* The hand goes on to the next frame, in which it may put another page:   *)
(* the queue turns by one.                                                 *)
LEMMA HandMoves ==
    ASSUME SimInv, SimInv', algorithm = "clock", UNCHANGED <<algorithm, currentFrame>>,
           currentFrame = NFrames, clockHandPos' = Hand + 1,
           NEW x \in Pages, pageFrames' = [pageFrames EXCEPT ![Hand] = x]
    PROVE  /\ Len(ClockQueue) = NFrames /\ Head(ClockQueue) = pageFrames[Hand]
           /\ ClockQueue' = Append(Tail(ClockQueue), x)
<1>1. /\ NFrames \in Nat \ {0} /\ Hand \in Nat /\ Hand < NFrames /\ currentFrame' = NFrames
      /\ Hand \in Frames /\ pageFrames \in [Frames -> Pages \cup {NoPage}]
  <2>1. NFrames \in Nat \ {0} /\ Hand \in Nat /\ Hand < NFrames
    BY HandInFrames
  <2>2. Hand \in Frames
    BY <2>1 DEF Frames
  <2> QED
    BY <2>1, <2>2 DEF SimInv, TableInv, TableTyped
<1>2. Hand' = IF Hand + 1 = NFrames THEN 0 ELSE Hand + 1
  <2>1. Hand' = IF clockHandPos' = NFrames THEN 0 ELSE clockHandPos'
    BY DEF Hand
  <2> QED
    BY <2>1
<1>3. ASSUME NEW i \in 1 .. NFrames - 1
      PROVE  Visited(i)' = Visited(i + 1) /\ Visited(i + 1) # Hand /\ Visited(i + 1) \in Frames
  <2>1. Visited(i)' = IF Hand' + i - 1 < NFrames THEN Hand' + i - 1 ELSE Hand' + i - 1 - NFrames
    BY <1>1 DEF Visited
  <2>2. Visited(i + 1) = IF Hand + (i + 1) - 1 < NFrames THEN Hand + (i + 1) - 1 ELSE Hand + (i + 1) - 1 - NFrames
    BY DEF Visited
  <2>3. Visited(i)' = Visited(i + 1) /\ Visited(i + 1) # Hand
    BY <1>1, <1>2, <2>1, <2>2
  <2> QED
    BY <1>1, <2>2, <2>3 DEF Frames
<1>4. Visited(NFrames)' = Hand /\ Visited(1) = Hand
  <2>1. Visited(NFrames)' = IF Hand' + NFrames - 1 < NFrames THEN Hand' + NFrames - 1
                            ELSE Hand' + NFrames - 1 - NFrames
    BY <1>1 DEF Visited
  <2>2. Visited(1) = IF Hand + 1 - 1 < NFrames THEN Hand + 1 - 1 ELSE Hand + 1 - 1 - NFrames
    BY DEF Visited
  <2> QED
    BY <1>1, <1>2, <2>1, <2>2
<1>5. /\ ClockQueue \in Seq(Pages) /\ Len(ClockQueue) = NFrames
      /\ \A i \in 1 .. NFrames : ClockQueue[i] = pageFrames[Visited(i)]
  BY QueueNow DEF QueueRight
<1>6. /\ ClockQueue' \in Seq(Pages) /\ Len(ClockQueue') = NFrames
      /\ \A i \in 1 .. NFrames : ClockQueue'[i] = pageFrames'[Visited(i)']
  BY <1>1, QueueNext DEF QueueRight
<1>7. ClockQueue # <<>> /\ Head(ClockQueue) = pageFrames[Hand]
  <2>1. 1 \in 1 .. NFrames
    BY <1>1
  <2>2. ClockQueue[1] = pageFrames[Hand]
    BY <1>4, <1>5, <2>1
  <2> QED
    BY <1>1, <1>5, <2>2
<1>8. ASSUME NEW i \in 1 .. NFrames - 1
      PROVE  ClockQueue'[i] = ClockQueue[i + 1]
  <2>1. i \in 1 .. NFrames /\ i + 1 \in 1 .. NFrames
    BY <1>1
  <2>2. pageFrames'[Visited(i + 1)] = pageFrames[Visited(i + 1)]
    BY <1>1, <1>3
  <2>3. ClockQueue'[i] = pageFrames'[Visited(i + 1)]
    BY <1>3, <1>6, <2>1
  <2>4. ClockQueue[i + 1] = pageFrames[Visited(i + 1)]
    BY <1>5, <2>1
  <2> QED
    BY <2>2, <2>3, <2>4
<1>9. ClockQueue'[NFrames] = x
  <2>1. NFrames \in 1 .. NFrames /\ pageFrames'[Hand] = x
    BY <1>1
  <2> QED
    BY <1>4, <1>6, <2>1
<1> QED
  BY <1>5, <1>6, <1>7, <1>8, <1>9, IsRotated

LEMMA ClearGoesRound ==
    ASSUME SimInv, SimInv', algorithm = "clock", UNCHANGED algorithm, ClockClear
    PROVE  Promise!GoRound
<1> DEFINE q == pageFrames[Hand]
<1>1. /\ pc = "sweep" /\ clockHandPos \in 0 .. NFrames /\ clockHandPos' = Hand + 1
      /\ pageTable' = [pageTable EXCEPT ![q].referenced = FALSE]
      /\ pageTable[q].referenced /\ UNCHANGED <<pageFrames, currentFrame>>
  BY DEF ClockClear, SimInv, HandRight
<1>2. /\ q \in Pages /\ Placed(q) /\ currentFrame = NFrames /\ Hand \in Frames
      /\ pageTable \in [Pages -> Entry] /\ pageFrames \in [Frames -> Pages \cup {NoPage}]
  BY <1>1, HandOnPage DEF SimInv, TableInv, TableTyped
<1>0. q = pageFrames[Hand]
  OBVIOUS
<1> HIDE DEF q
<1>3. pageFrames' = [pageFrames EXCEPT ![Hand] = q]
  BY <1>0, <1>1, <1>2
<1>4. Len(ClockQueue) = NFrames /\ Head(ClockQueue) = q /\ ClockQueue' = Append(Tail(ClockQueue), q)
  BY <1>0, <1>1, <1>2, <1>3, HandMoves
<1>5. \A p \in Pages : /\ pageTable'[p].frame = pageTable[p].frame
                       /\ pageTable'[p].referenced = IF p = q THEN FALSE ELSE pageTable[p].referenced
  BY <1>1, <1>2 DEF Entry
<1>6. \A p : p \in ClockChances <=> (p \in Pages /\ Placed(p) /\ pageTable[p].referenced)
  BY ChancesShape
<1>7. \A p : p \in ClockChances' <=> (p \in Pages /\ Placed(p)' /\ pageTable'[p].referenced)
  BY QueueNext DEF QueueRight
<1>8. \A p \in Pages : Placed(p)' <=> Placed(p)
  BY <1>5 DEF Placed
<1>9. q \in ClockChances
  BY <1>1, <1>2, <1>6
<1>10. \A p : p \in ClockChances' <=> (p \in ClockChances /\ p # q)
  BY <1>5, <1>6, <1>7, <1>8
<1>11. ClockChances' = ClockChances \ {q}
  BY <1>10
<1> QED
  BY <1>4, <1>9, <1>11 DEF Promise!GoRound

LEMMA FoundReplaces ==
    ASSUME SimInv, SimInv', algorithm = "clock", UNCHANGED algorithm, ClockFound
    PROVE  Promise!Replace(Page)
<1> DEFINE v == pageFrames[Hand]
<1>1. /\ pc = "sweep" /\ clockHandPos \in 0 .. NFrames /\ clockHandPos' = Hand + 1
      /\ ~pageTable[v].referenced /\ UNCHANGED currentFrame
      /\ pageFrames' = [pageFrames EXCEPT ![pageTable[v].frame] = Page]
      /\ Page' = Page /\ LeaveBlock
  BY DEF ClockFound, SimInv, HandRight, Swap, Page
<1>2. /\ v \in Pages /\ Placed(v) /\ currentFrame = NFrames /\ Hand \in Frames
      /\ pageTable[v].frame = Hand /\ v # Page /\ Page \in Pages /\ ~Placed(Page)
      /\ pageFrames \in [Frames -> Pages \cup {NoPage}]
  BY <1>1, HandOnPage DEF SimInv, TableInv, TableTyped
<1>0. v = pageFrames[Hand]
  OBVIOUS
<1>3. \A p \in Pages : p # Page /\ p # v => pageTable'[p] = pageTable[p]
  <2>1. \E e, o : pageTable' = [pageTable EXCEPT ![Page] = e, ![v] = o]
    BY DEF ClockFound, Swap
  <2> HIDE DEF v
  <2>2. pageTable \in [Pages -> Entry]
    BY DEF SimInv, TableInv, TableTyped
  <2> QED
    BY <2>1, <2>2
<1> HIDE DEF v
<1>4. Len(ClockQueue) = NFrames /\ Head(ClockQueue) = v /\ ClockQueue' = Append(Tail(ClockQueue), Page)
  BY <1>0, <1>1, <1>2, HandMoves
<1>5. Page \in recent' /\ pageTable'[Page].referenced
  <2>1. pc' \in {"block", "end"}
    BY <1>1, LeaveTo DEF SimInv
  <2> QED
    BY <1>1, <2>1 DEF SimInv, TableInv, RecentRight, InLine
<1>6. \A p \in Pages : Placed(p)' <=> ((Placed(p) /\ p # v) \/ p = Page)
  <2>1. /\ \A p \in Pages, f \in Frames : pageTable[p].frame = f <=> pageFrames[f] = p
        /\ \A p \in Pages, f \in Frames : pageTable'[p].frame = f <=> pageFrames'[f] = p
    BY DEF SimInv, TableInv, FramesRight
  <2>2. \A f \in Frames : pageFrames'[f] = IF f = Hand THEN Page ELSE pageFrames[f]
    BY <1>1, <1>2
  <2> SUFFICES ASSUME NEW p \in Pages
               PROVE  Placed(p)' <=> ((Placed(p) /\ p # v) \/ p = Page)
    OBVIOUS
  <2>3. Placed(p) <=> \E f \in Frames : pageFrames[f] = p
    BY <2>1 DEF Placed
  <2>4. Placed(p)' <=> \E f \in Frames : pageFrames'[f] = p
    BY <2>1 DEF Placed
  <2>5. \A f \in Frames : pageFrames[f] = v => f = Hand
    BY <1>2, <2>1
  <2> QED
    BY <1>0, <1>2, <2>2, <2>3, <2>4, <2>5
<1>7. \A p : p \in ClockChances <=> (p \in Pages /\ Placed(p) /\ pageTable[p].referenced)
  BY ChancesShape
<1>8. \A p : p \in ClockChances' <=> (p \in Pages /\ Placed(p)' /\ pageTable'[p].referenced)
  BY QueueNext DEF QueueRight
<1>9. v \notin ClockChances
  BY <1>1, <1>7
<1>10. \A p : p \in ClockChances' <=> (p \in ClockChances \/ p = Page)
  BY <1>1, <1>2, <1>3, <1>5, <1>6, <1>7, <1>8
<1>11. ClockChances' = ClockChances \cup {Page}
  BY <1>10
<1>12. Page \notin Promise!Queued
  BY <1>2, QueueIsResident
<1> QED
  BY <1>4, <1>9, <1>11, <1>12 DEF Promise!Replace

LEMMA ReadUses ==
    ASSUME SimInv, SimInv', algorithm = "clock", UNCHANGED algorithm,
           NEW kind \in Kinds, ClockRead(kind)
    PROVE  Promise!Use(Page) \/ UNCHANGED <<ClockQueue, ClockChances>>
<1>1. /\ pageTable' = [pageTable EXCEPT ![Page].referenced = TRUE]
      /\ UNCHANGED <<pageFrames, currentFrame, clockHandPos>>
  BY DEF ClockRead, ReadLine
<1>2. Page \in Pages /\ pageTable \in [Pages -> Entry]
  BY LineHasPage DEF ClockRead, ReadLine, SimInv, TableInv, TableTyped
<1>3. \A p \in Pages : /\ pageTable'[p].frame = pageTable[p].frame
                       /\ pageTable'[p].referenced = IF p = Page THEN TRUE ELSE pageTable[p].referenced
  BY <1>1, <1>2 DEF Entry
<1>4. CASE Placed(Page)
  <2>1. \A p : p \in ClockChances <=> (p \in Pages /\ Placed(p) /\ pageTable[p].referenced)
    BY ChancesShape
  <2>2. \A p : p \in ClockChances' <=> (p \in Pages /\ Placed(p)' /\ pageTable'[p].referenced)
    BY QueueNext DEF QueueRight
  <2>3. \A p \in Pages : Placed(p)' <=> Placed(p)
    BY <1>3 DEF Placed
  <2>4. \A p : p \in ClockChances' <=> (p \in ClockChances \/ p = Page)
    BY <1>2, <1>3, <1>4, <2>1, <2>2, <2>3
  <2>5. ClockChances' = ClockChances \cup {Page}
    BY <2>4
  <2>6. Page \in Promise!Queued
    BY <1>2, <1>4, QueueIsResident
  <2>7. UNCHANGED ClockQueue
    BY <1>1 DEF ClockQueue, Hand
  <2> QED
    BY <2>5, <2>6, <2>7 DEF Promise!Use
<1>5. CASE ~Placed(Page)
  BY <1>1, <1>3, <1>5, QueueStays
<1> QED
  BY <1>4, <1>5

SameTable == UNCHANGED <<pageTable, pageFrames, currentFrame, clockHandPos>>

LEMMA ClockStepIsPromised ==
    ASSUME SimInv, SimInv', algorithm = "clock", UNCHANGED <<algorithm, futureMap>>, ClockNext
    PROVE  (\E p \in Pages : Promise!Use(p) \/ Promise!Join(p) \/ Promise!Replace(p))
           \/ Promise!GoRound \/ UNCHANGED <<ClockQueue, ClockChances>>
<1> DEFINE Stays == UNCHANGED <<ClockQueue, ClockChances>>
<1>0. SameTable => Stays
  <2>1. pageTable' = pageTable => \A p \in Pages : pageTable'[p].referenced <=> pageTable[p].referenced
    OBVIOUS
  <2> QED
    BY <2>1, QueueStays DEF SameTable
<1>1. ASSUME NEW kind \in Kinds, ClockRead(kind)
      PROVE  Promise!Use(Page) \/ Stays
  BY <1>1, ReadUses
<1>2. ASSUME NEW b \in Kinds, ClockBlock(b)
      PROVE  Stays \/ Promise!Join(Page)
  <2>1. /\ pc = "block" /\ block = b /\ SameLine /\ UNCHANGED clockHandPos
        /\ UNCHANGED <<trace, line>>
    BY <1>2 DEF ClockBlock, Block, SameLine
  <2>2. QuietBlock \/ (MustEvict /\ StartSweep)
    BY <1>2 DEF ClockBlock, Block, QuietBlock
  <2>3. CASE Hit
    <3>1. Page \in Pages /\ pageTable \in [Pages -> Entry]
      BY <2>1, LineHasPage DEF SimInv, TableInv, TableTyped, InLine
    <3>2. pageTable' = [pageTable EXCEPT ![Page] = Touched(@)]
          /\ UNCHANGED <<pageFrames, currentFrame>>
      BY <2>3 DEF Hit
    <3>3. Touched(pageTable[Page]).referenced = pageTable[Page].referenced
      BY <3>1, TouchedEntry
    <3>4. \A p \in Pages : pageTable'[p].referenced <=> pageTable[p].referenced
      BY <3>1, <3>2, <3>3
    <3> QED
      BY <2>1, <3>2, <3>4, QueueStays
  <2>4. CASE FillFrame
    <3>1. LoadsThePage
      BY <2>1, <2>4, FillKeeps DEF SimInv
    <3> QED
      BY <2>1, <2>4, <3>1, FillJoins
  <2>5. CASE ~Runs(block) /\ LeaveBlock
             /\ UNCHANGED <<pageTable, pageFrames, currentFrame, counters, history>>
    BY <1>0, <2>1, <2>5 DEF SameTable
  <2>6. CASE MustEvict /\ StartSweep
    <3>1. Page \in Pages /\ pageTable \in [Pages -> Entry]
      BY <2>1, LineHasPage DEF SimInv, TableInv, TableTyped, InLine
    <3>2. pageTable' = [pageTable EXCEPT ![Page].valid = TRUE]
          /\ UNCHANGED <<pageFrames, currentFrame>>
      BY <2>6 DEF StartSweep
    <3>3. \A p \in Pages : pageTable'[p].referenced <=> pageTable[p].referenced
      BY <3>1, <3>2 DEF Entry
    <3> QED
      BY <2>1, <3>2, <3>3, QueueStays
  <2> QED
    BY <2>2, <2>3, <2>4, <2>5, <2>6 DEF QuietBlock
<1>3. ASSUME ClockEnd
      PROVE  Stays
  BY <1>0, <1>3 DEF ClockEnd, EndLine, Finish, SameTable
<1>4. ClockClear => Promise!GoRound
  BY ClearGoesRound
<1>5. ClockFound => Promise!Replace(Page) /\ Page \in Pages
  BY FoundReplaces, LineHasPage DEF SimInv, TableInv, TableTyped, InLine, ClockFound
<1>6. \/ \E kind \in Kinds : ClockRead(kind)
      \/ \E b \in Kinds : ClockBlock(b)
      \/ ClockClear \/ ClockFound \/ ClockEnd
  BY DEF ClockNext, ClockFetch, ClockStore, ClockLoad, ClockModify, Kinds
<1>7. (\E kind \in Kinds : ClockRead(kind)) \/ (\E b \in Kinds : ClockBlock(b)) => Page \in Pages
  BY LineHasPage DEF SimInv, TableInv, TableTyped, InLine, ClockRead, ReadLine, ClockBlock, Block
<1> HIDE DEF Stays
<1>8. (\E p \in Pages : Promise!Use(p) \/ Promise!Join(p) \/ Promise!Replace(p))
      \/ Promise!GoRound \/ Stays
  BY <1>1, <1>2, <1>3, <1>4, <1>5, <1>6, <1>7
<1> QED
  BY <1>8 DEF Stays

(* The hand of clock turns a queue of second chances, whatever the trace   *)
(* and the number of frames: it passes over a page that was used and       *)
(* replaces the first that was not (Simulate.java, clock).                 *)
THEOREM ClockIsSecondChance == Spec => ImplementsSecondChance
<1>1. Init => Promise!Init
  <2> SUFFICES ASSUME Init
               PROVE  ClockQueue = <<>> /\ ClockChances = {}
    BY DEF Promise!Init
  <2>1. algorithm = "clock" => currentFrame = 0
    BY DEF Init, ClockInit, TableInit
  <2>2. CASE algorithm = "clock"
    <3>1. Resident = {}
      BY <2>1, <2>2 DEF Resident
    <3>2. ClockQueue = [i \in 1 .. 0 |-> pageFrames[(Hand + i - 1) % currentFrame]]
      BY <2>1, <2>2 DEF ClockQueue
    <3>3. ClockQueue = <<>>
      BY <3>2
    <3> QED
      BY <2>2, <3>1, <3>3 DEF ClockChances
  <2> QED
    BY <2>2 DEF ClockQueue, ClockChances
<1>2. SimInv /\ SimInv' /\ [Next]_vars => [Promise!Next]_<<ClockQueue, ClockChances>>
  <2> SUFFICES ASSUME SimInv, SimInv', [Next]_vars
               PROVE  Promise!Next \/ UNCHANGED <<ClockQueue, ClockChances>>
    OBVIOUS
  <2>1. CASE algorithm # "clock" /\ UNCHANGED algorithm
    BY <2>1 DEF ClockQueue, ClockChances
  <2>2. CASE UNCHANGED vars
    <3>1. UNCHANGED <<algorithm, pageFrames, pageTable, currentFrame, clockHandPos>>
      BY <2>2 DEF vars, tableVars
    <3> QED
      BY <3>1 DEF ClockQueue, ClockChances, Hand, Resident
  <2>3. CASE Next /\ algorithm = "clock"
    <3>1. UNCHANGED <<algorithm, futureMap>> /\ ClockNext
      BY <2>3 DEF Next
    <3> QED
      BY <2>3, <3>1, ClockStepIsPromised DEF Promise!Next
  <2>4. Next => UNCHANGED algorithm
    BY DEF Next
  <2> QED
    BY <2>1, <2>2, <2>3, <2>4
<1>3. Spec => Promise!Init /\ [][Promise!Next]_<<ClockQueue, ClockChances>>
  BY <1>1, <1>2, SimInvHolds, PTL DEF Spec
<1> QED
  BY <1>3 DEF ImplementsSecondChance, Promise!Spec
==============================================================================
