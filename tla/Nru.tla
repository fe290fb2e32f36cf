---------------------------------- MODULE Nru ----------------------------------
(***************************************************************************)
(* Simulate.nru of project5: not recently used.  The referenced bits of    *)
(* the loaded pages are cleared every Refresh accesses; the page to evict  *)
(* is one that is not referenced, a clean one if there is one.             *)
(***************************************************************************)
EXTENDS PageTable

CONSTANT Refresh        \* refresh, the argument of -r

ASSUME NruAssumption == Refresh \in Nat \ {0}

NruInit == TableInit("read")

RefreshDue == totalMemAccesses % Refresh = 0

(* Clear the bits of the loaded pages. *)
RefreshedTable ==
    [p \in Pages |-> IF RefreshDue /\ p \in Resident
                     THEN [pageTable[p] EXCEPT !.referenced = FALSE] ELSE pageTable[p]]

NruRead(kind) == ReadLine(kind, RefreshedTable, IF RefreshDue THEN {} ELSE recent)

(* Mutant: any clean page before the dirty ones, whether it is used or not. *)
PageToEvictClean ==
    LET Entry(f) == pageTable[pageFrames[f]]
        Clean == {f \in Frames : ~Entry(f).dirty}
        chosen == IF Clean # {} THEN CHOOSE f \in Clean : \A g \in Clean : f <= g ELSE 0
    IN pageFrames[chosen]

(* The scan: the first page that is neither referenced nor dirty, else the *)
(* last that is not referenced, else the one in the first frame.           *)
PageToEvict ==
    LET Entry(f) == pageTable[pageFrames[f]]
        Idle == {f \in Frames : ~Entry(f).referenced}
        Clean == {f \in Idle : ~Entry(f).dirty}
        chosen == CASE Clean # {} -> CHOOSE f \in Clean : \A g \in Clean : f <= g
                    [] Clean = {} /\ Idle # {} -> CHOOSE f \in Idle : \A g \in Idle : g <= f
                    [] OTHER -> 0
    IN pageFrames[chosen]

NruEvict ==
    /\ totalPageFaults' = totalPageFaults + 1
    /\ Swap(PageToEvict, FALSE)

NruFetch == Block("I", NruEvict)
NruStore == Block("S", NruEvict)
NruLoad == Block("L", NruEvict)
NruModify == Block("M", NruEvict)

NruEnd == EndLine \/ Finish

NruNext ==
    \/ \E kind \in Kinds : NruRead(kind)
    \/ NruFetch \/ NruStore \/ NruLoad \/ NruModify
    \/ NruEnd
==============================================================================
