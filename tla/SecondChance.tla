----------------------------- MODULE SecondChance -----------------------------
(***************************************************************************)
(* What the clock algorithm promises: the resident pages stand in a queue; *)
(* a page that was used since it joined the tail goes round once more,     *)
(* and the first that was not gives its place to a new one.                *)
(***************************************************************************)
EXTENDS Naturals, Sequences

CONSTANTS Pages, Size

VARIABLES
    queue,      \* the resident pages, the next one to examine first
    chances     \* the pages of the queue that were used since

Queued == {queue[i] : i \in DOMAIN queue}

Init == queue = <<>> /\ chances = {}

Use(p) ==
    /\ p \in Queued
    /\ chances' = chances \cup {p}
    /\ UNCHANGED queue

Join(p) ==
    /\ p \notin Queued /\ Len(queue) < Size
    /\ queue' = Append(queue, p)
    /\ chances' = chances \cup {p}

GoRound ==
    /\ Len(queue) = Size /\ Head(queue) \in chances
    /\ queue' = Append(Tail(queue), Head(queue))
    /\ chances' = chances \ {Head(queue)}

Replace(p) ==
    /\ p \notin Queued
    /\ Len(queue) = Size /\ Head(queue) \notin chances
    /\ queue' = Append(Tail(queue), p)
    /\ chances' = chances \cup {p}

Next == GoRound \/ \E p \in Pages : Use(p) \/ Join(p) \/ Replace(p)

Spec == Init /\ [][Next]_<<queue, chances>>
==============================================================================
