------------------------------- MODULE IterServer -------------------------------
(***************************************************************************)
(* server.c of project3: one request at a time.  Its memset calls have     *)
(* their last two arguments swapped, so the buffer of an empty request     *)
(* holds what an earlier one left there.                                   *)
(***************************************************************************)
EXTENDS Http

IterAccept(h) ==
    /\ Accept(h)
    /\ server' = "busy"
    /\ Goto(h, "recv")
    /\ sock' = [sock EXCEPT ![h] = LowestFree(Server)]
    /\ UNCHANGED <<fixed, net, file, mutex, logged>>

IterReceive(h) == Receive(h, Names)
IterDiscard(h) == Discard(h)
IterOpen(h) == Open(h)
IterAbsent(h) == Absent(h, "close")
IterHead(h) == Head200(h, "body")
IterBody(h) == Body(h, "close")

(* The connection is closed, after a bad request too, and the loop goes on. *)
IterClose(h) ==
    /\ at[h] \in {"bad", "close"}
    /\ CloseSock(h)
    /\ Goto(h, "ended")
    /\ server' = "accept"
    /\ UNCHANGED <<fixed, net, slot, sock, file, mutex, logged>>

IterStep(h) ==
    \/ IterReceive(h) \/ IterDiscard(h) \/ IterOpen(h) \/ IterAbsent(h)
    \/ IterHead(h) \/ IterBody(h) \/ IterClose(h)

IterLoop == Setup \/ AcceptFails \/ \E h \in Conns : IterAccept(h)
================================================================================
