------------------------------ MODULE ThreadServer ------------------------------
(***************************************************************************)
(* server_thread.c of project3: a thread for each connection.  The thread  *)
(* is given the address of the loop's variable connfd, and reads it when   *)
(* it starts to run.                                                       *)
(***************************************************************************)
EXTENDS Http

CONSTANT LateStart      \* a thread may start after the next accept returned

ASSUME LateAssumption == LateStart \in BOOLEAN

ThreadAccept(h) ==
    /\ LateStart \/ \A g \in Conns : at[g] # "start"
    /\ Accept(h)
    /\ Goto(h, "start")
    /\ UNCHANGED <<fixed, net, server, sock, file, mutex, logged>>

(* pthread_create fails: the server ends. *)
CreateFails ==
    /\ server = "accept"
    /\ NextConn <= NConns
    /\ Exit(Server)
    /\ UNCHANGED <<fixed, net, slot, sock, file, mutex, logged>>

ThreadStart(h) ==
    /\ at[h] = "start"
    /\ sock' = [sock EXCEPT ![h] = slot]
    /\ Goto(h, "recv")
    /\ UNCHANGED <<fixed, net, loop, desc, file, mutex, logged>>

ThreadReceive(h) == Receive(h, {})
ThreadDiscard(h) == Discard(h)
ThreadOpen(h) == Open(h)
ThreadAbsent(h) == Absent(h, "close")
ThreadHead(h) == Head200(h, "body")
ThreadBody(h) == Body(h, "log")
ThreadLog(h) == Log(h, file[h], "close")

ThreadClose(h) ==
    /\ at[h] \in {"bad", "close"}
    /\ CloseSock(h)
    /\ Goto(h, "ended")
    /\ UNCHANGED <<fixed, net, loop, sock, file, mutex, logged>>

ThreadStep(h) ==
    \/ ThreadStart(h) \/ ThreadReceive(h) \/ ThreadDiscard(h) \/ ThreadOpen(h)
    \/ ThreadAbsent(h) \/ ThreadHead(h) \/ ThreadBody(h) \/ ThreadLog(h) \/ ThreadClose(h)

ThreadLoop == Setup \/ AcceptFails \/ CreateFails \/ \E h \in Conns : ThreadAccept(h)
================================================================================
