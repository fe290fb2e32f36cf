------------------------------- MODULE ProcServer -------------------------------
(***************************************************************************)
(* server_proc.c of project3: a child process for each connection.  Nobody *)
(* waits for the children, so each keeps its entry in the process table    *)
(* when it ends.                                                           *)
(***************************************************************************)
EXTENDS Http

CONSTANT MaxProcs       \* children the system allows, the ended ones included

ASSUME ProcAssumption == MaxProcs \in Nat

ProcAccept(h) ==
    /\ Accept(h)
    /\ server' = "fork"
    /\ UNCHANGED <<fixed, net, at, sock, file, mutex, logged>>

Children == {h \in Conns : at[h] # "new"}

(* The child gets a copy of the descriptors. *)
ProcFork ==
    /\ server = "fork"
    /\ Cardinality(Children) < MaxProcs
    /\ LET h == NextConn
       IN /\ desc' = [desc EXCEPT ![h] = desc[Server]]
          /\ sock' = [sock EXCEPT ![h] = slot]
          /\ Goto(h, "child")
    /\ server' = "forked"
    /\ UNCHANGED <<fixed, net, slot, file, mutex, logged>>

ForkFails ==
    /\ server = "fork"
    /\ Cardinality(Children) = MaxProcs
    /\ Exit(Server)
    /\ UNCHANGED <<fixed, net, slot, sock, file, mutex, logged>>

(* Mutant: the parent keeps the connection open. *)
ParentKeeps ==
    /\ server = "forked"
    /\ server' = "accept"
    /\ UNCHANGED <<fixed, net, slot, desc, at, sock, file, mutex, logged>>

(* Mutant: the parent closes the listening socket, as the child does. *)
ParentClosesSfd ==
    /\ server = "forked"
    /\ desc' = [desc EXCEPT ![Server][0] = FreeFd]
    /\ server' = "accept"
    /\ UNCHANGED <<fixed, net, slot, at, sock, file, mutex, logged>>

ParentClose ==
    /\ server = "forked"
    /\ desc' = [desc EXCEPT ![Server][slot] = FreeFd]
    /\ server' = "accept"
    /\ UNCHANGED <<fixed, net, slot, at, sock, file, mutex, logged>>

(* The child closes the listening socket. *)
ChildStart(h) ==
    /\ at[h] = "child"
    /\ desc' = [desc EXCEPT ![h][0] = FreeFd]
    /\ Goto(h, "recv")
    /\ UNCHANGED <<fixed, net, loop, sock, file, mutex, logged>>

ChildReceive(h) == Receive(h, Names)
ChildDiscard(h) == Discard(h)
ChildOpen(h) == Open(h)
ChildAbsent(h) == Absent(h, "close")
ChildHead(h) == Head200(h, "body")
ChildBody(h) == Body(h, "log")
ChildLog(h) == Log(h, file[h], "exit")

(* After a bad request the child closes the connection and goes on in the  *)
(* server's loop.                                                          *)
ChildContinue(h) ==
    /\ at[h] = "bad"
    /\ CloseSock(h)
    /\ Goto(h, "stray")
    /\ UNCHANGED <<fixed, net, loop, sock, file, mutex, logged>>

(* The child exits: with the connection open after a page, having closed   *)
(* it after a 404, and because accept fails after a bad request.           *)
ChildExit(h) ==
    /\ at[h] \in {"exit", "close", "stray"}
    /\ at[h] = "stray" => desc[h][0].kind # "listen"
    /\ Goto(h, "ended")
    /\ desc' = [desc EXCEPT ![h] = [f \in Fds |-> FreeFd]]
    /\ UNCHANGED <<fixed, net, loop, sock, file, mutex, logged>>

ChildStep(h) ==
    \/ ChildStart(h) \/ ChildReceive(h) \/ ChildDiscard(h) \/ ChildOpen(h) \/ ChildAbsent(h)
    \/ ChildHead(h) \/ ChildBody(h) \/ ChildLog(h) \/ ChildContinue(h) \/ ChildExit(h)

ProcLoop ==
    \/ Setup \/ AcceptFails \/ ProcFork \/ ForkFails \/ ParentClose
    \/ \E h \in Conns : ProcAccept(h)
================================================================================
