--------------------------- MODULE ConstructionZone ---------------------------
(***************************************************************************)
(* What project4/trafficsim.c promises: two queues of cars, one for each   *)
(* end of a one-lane road, and a flagperson who lets one car through at a  *)
(* time.  The shared memory, the semaphores and the processes are left     *)
(* out.                                                                    *)
(***************************************************************************)
EXTENDS Naturals, Sequences

CONSTANTS Capacity,   \* cars an end can hold
          Threshold,  \* length at which the other end gets its turn
          CarRange,   \* bound: car numbers are kept modulo CarRange
          None        \* no car, no direction

VARIABLES total,      \* the number of the last car that arrived
          road,       \* the cars waiting at each end, oldest first
          flow,       \* the direction that has the road
          chosen,     \* the direction the next car is called from, or None
          zone        \* the car in the zone, or None

vars == <<total, road, flow, chosen, zone>>

Directions == {"N", "S"}
Opposite(d) == IF d = "N" THEN "S" ELSE "N"

Init ==
    /\ total = 0
    /\ road = [d \in Directions |-> <<>>]
    /\ flow = None
    /\ chosen = None
    /\ zone = None

(* A car joins its end of the road.  If it finds both ends empty it may    *)
(* wake the flagperson with its horn, and then takes the road.             *)
Arrive(d) ==
    /\ Len(road[d]) < Capacity
    /\ total' = (total + 1) % CarRange
    /\ road' = [road EXCEPT ![d] = Append(@, total')]
    /\ flow' = d \/ flow' = flow
    /\ flow' # flow => \A e \in Directions : road[e] = <<>>
    /\ UNCHANGED <<chosen, zone>>

(* The flagperson turns the sign when the end that has the road is empty   *)
(* or the other one has grown to the threshold, and calls a waiting car.   *)
TurnsSign ==
    \/ road[flow] = <<>>
    \/ Len(road[Opposite(flow)]) >= Threshold

Choose ==
    /\ chosen = None
    /\ zone = None
    /\ flow \in Directions
    /\ flow' = IF TurnsSign THEN Opposite(flow) ELSE flow
    /\ road[flow'] # <<>>
    /\ chosen' = flow'
    /\ UNCHANGED <<total, road, zone>>

(* The oldest car of that end enters the zone, and later leaves it. *)
Enter ==
    /\ chosen \in Directions
    /\ road[chosen] # <<>>
    /\ zone' = Head(road[chosen])
    /\ road' = [road EXCEPT ![chosen] = Tail(@)]
    /\ chosen' = None
    /\ UNCHANGED <<total, flow>>

Leave ==
    /\ zone # None
    /\ zone' = None
    /\ UNCHANGED <<total, road, flow, chosen>>

Next ==
    \/ \E d \in Directions : Arrive(d)
    \/ Choose
    \/ Enter
    \/ Leave

SafeSpec == Init /\ [][Next]_vars

(* The flagperson keeps working; cars come or do not come. *)
Spec == SafeSpec /\ WF_vars(Choose) /\ WF_vars(Enter) /\ WF_vars(Leave)
==============================================================================
