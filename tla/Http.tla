---------------------------------- MODULE Http ----------------------------------
(***************************************************************************)
(* What the four web servers of project3 have in common: clients that      *)
(* connect, ask for a file and may leave at any time; the descriptor       *)
(* tables of the server's processes; and the steps of the code that        *)
(* answers one request, which each program repeats.  Connections are       *)
(* numbered in the order they are accepted, and the handler of connection  *)
(* h (a thread, a child process, or an iteration of the loop) is h.        *)
(***************************************************************************)
EXTENDS Integers, Sequences, FiniteSets

CONSTANTS
    NConns,      \* the connections that clients make
    Files,       \* the files in the server's directory
    Big,         \* those longer than the 1024 bytes of a buffer
    Requests,    \* the requests clients may send
    Cut,         \* for each name, the others that a beginning of it may be read as
    NFds         \* descriptors a process may have open, the standard ones apart

Conns == 1 .. NConns
Fds == 0 .. NFds - 1
Server == 0
Procs == {Server} \cup Conns
Nobody == -1

Names == Files \cup {"missing"}

(* A process may open at least the socket that listens, a connection and a *)
(* file (_POSIX_OPEN_MAX is 20); the words that stand for no file name none. *)
ASSUME HttpAssumption ==
    /\ NConns \in Nat \ {0} /\ NFds \in Nat /\ NFds > 2
    /\ Big \subseteq Files
    /\ Files \cap {"missing", "bad", "silent", "none", "garbage"} = {}
    /\ Cut \in [Names \cup {"bad"} -> SUBSET Names]
    /\ Requests \subseteq [file : Names \cup {"bad", "silent"}, size : {"short", "exact", "long"}]

VARIABLES
    program,     \* which of the four is running
    request,     \* what the client of each connection sends
    unread,      \* what of it is still to be received: all, the rest or none
    gone,        \* the client has closed its side
    stuck,       \* the client does not read, and the send to it waits
    reply,       \* what the client was sent
    server,      \* where the server's loop is
    slot,        \* the variable connfd of that loop
    desc,        \* the descriptor table of each process
    at,          \* where each handler is
    sock,        \* its connfd
    file,        \* its filename
    mutex,       \* who holds the mutex, or the semaphore, of the log
    logged,      \* the lines of the log, each the handler and the size it logged
    starved      \* history: the handlers that had no descriptor left for their file

(* What no step changes but, of the last, Open. *)
fixed == <<program, request, starved>>
net == <<unread, gone, stuck, reply>>
loop == <<server, slot>>
httpVars == <<fixed, net, loop, desc, at, sock, file, mutex, logged>>

FreeFd == [kind |-> "free", of |-> Nobody]
Fd(kind, h) == [kind |-> kind, of |-> h]

HttpInit ==
    /\ request \in [Conns -> Requests]
    /\ unread = [c \in Conns |-> "all"]
    /\ gone = [c \in Conns |-> FALSE]
    /\ stuck = [c \in Conns |-> FALSE]
    /\ reply = [c \in Conns |-> <<>>]
    /\ slot = Nobody
    /\ at = [h \in Conns |-> "new"]
    /\ sock = [h \in Conns |-> Nobody]
    /\ file = [h \in Conns |-> "none"]
    /\ mutex = Nobody
    /\ logged = {}
    /\ starved = {}

(* The program was just started. *)
ColdStart ==
    /\ server = "setup"
    /\ desc = [p \in Procs |-> [f \in Fds |-> FreeFd]]

--------------------------------------------------------------------------------
(* Processes and descriptors. *)

Proc(h) == IF program = "proc" THEN h ELSE Server

Running(h) == at[h] \notin {"new", "ended", "killed"}

FreeFds(p) == {f \in Fds : desc[p][f].kind = "free"}
LowestFree(p) == CHOOSE f \in FreeFds(p) : \A g \in FreeFds(p) : f <= g

Peer(h) == desc[Proc(h)][sock[h]]

Goto(h, label) == at' = [at EXCEPT ![h] = label]

(* Process p ends: its descriptors are closed and its threads end.  A      *)
(* child of a server that ends goes on.                                    *)
Exit(p) ==
    /\ desc' = [desc EXCEPT ![p] = [f \in Fds |-> FreeFd]]
    /\ at' = [h \in Conns |-> IF Proc(h) = p /\ Running(h) THEN "killed" ELSE at[h]]
    /\ server' = IF p = Server THEN "dead" ELSE server

(* The client closes the connection, without waiting for its answer. *)
ClientLeaves(c) ==
    /\ Running(c) /\ ~gone[c]
    /\ gone' = [gone EXCEPT ![c] = TRUE]
    /\ stuck' = [stuck EXCEPT ![c] = FALSE]
    /\ UNCHANGED <<fixed, unread, reply, loop, desc, at, sock, file, mutex, logged>>

(* The client does not read when a page is to be sent, or reads again.     *)
(* What goes before, the headers or a 404, always fits into the buffers of *)
(* the connection.                                                         *)
ClientStops(c) ==
    /\ at[c] \in {"body", "resend"} /\ ~gone[c] /\ ~stuck[c]
    /\ stuck' = [stuck EXCEPT ![c] = TRUE]
    /\ UNCHANGED <<fixed, unread, gone, reply, loop, desc, at, sock, file, mutex, logged>>

ClientReads(c) ==
    /\ stuck[c]
    /\ stuck' = [stuck EXCEPT ![c] = FALSE]
    /\ UNCHANGED <<fixed, unread, gone, reply, loop, desc, at, sock, file, mutex, logged>>

(* A send of the items.  It waits for a client that does not read.  On a   *)
(* connection that the client has closed it may raise SIGPIPE, which no    *)
(* program handles; a send on a descriptor that is no connection only      *)
(* fails.                                                                  *)
Blocked(h) == Peer(h).kind = "conn" /\ stuck[Peer(h).of]

Deliver(h, items) ==
    /\ ~Blocked(h)
    /\ reply' = IF Peer(h).kind = "conn" /\ ~gone[Peer(h).of]
                THEN [reply EXCEPT ![Peer(h).of] = @ \o items] ELSE reply
    /\ UNCHANGED <<unread, gone, stuck>>

BrokenPipe(h) ==
    /\ Peer(h).kind = "conn" /\ gone[Peer(h).of]
    /\ Exit(Proc(h))
    /\ UNCHANGED net

Send(h, items, next) ==
    \/ Deliver(h, items) /\ Goto(h, next) /\ UNCHANGED <<desc, server>>
    \/ BrokenPipe(h)

--------------------------------------------------------------------------------
(* The server's loop. *)

(* socket, bind and listen; each may fail, and ends the program. *)
Setup ==
    /\ server = "setup"
    /\ \/ server' = "accept" /\ desc' = [desc EXCEPT ![Server][0] = Fd("listen", Nobody)]
       \/ server' = "dead" /\ UNCHANGED desc
    /\ UNCHANGED <<fixed, net, slot, at, sock, file, mutex, logged>>

NextConn == 1 + Cardinality({h \in Conns : at[h] # "new"})

Listening == desc[Server][0].kind = "listen"

(* accept returns the lowest descriptor that is free. *)
Accept(h) ==
    /\ server = "accept"
    /\ h = NextConn
    /\ Listening /\ FreeFds(Server) # {}
    /\ slot' = LowestFree(Server)
    /\ desc' = [desc EXCEPT ![Server][LowestFree(Server)] = Fd("conn", h)]

(* accept fails: without a socket, when no descriptor is free, or for a    *)
(* reason of the network or the system, and any error ends the program.    *)
AcceptFails ==
    /\ server = "accept"
    /\ NextConn <= NConns
    /\ Exit(Server)
    /\ UNCHANGED <<fixed, net, slot, sock, file, mutex, logged>>

--------------------------------------------------------------------------------
(* The steps of a handler. *)

Parsed(h, name, next) ==
    /\ file' = [file EXCEPT ![h] = name]
    /\ Goto(h, IF name = "bad" THEN "bad" ELSE next)

(* recv returns the request, the part of it that has arrived, or nothing   *)
(* when the client has left.  In a part sscanf may find the whole name, a  *)
(* shorter one or none; behind it, or where nothing was received, it finds *)
(* what the buffer held before, with the names in old.                     *)
Receive(h, old) ==
    /\ at[h] = "recv"
    /\ LET peer == Peer(h)
           c == peer.of
           Sent == unread[c] = "all" /\ request[c].file # "silent"
       IN \/ /\ peer.kind = "conn" /\ Sent
             /\ unread' = [unread EXCEPT ![c] = "none"]
             /\ Parsed(h, request[c].file, IF request[c].size = "short" THEN "open" ELSE "discard")
          \/ /\ peer.kind = "conn" /\ Sent
             /\ unread' = [unread EXCEPT ![c] = "rest"]
             /\ \E name \in {request[c].file, "bad"} \cup Cut[request[c].file] \cup old :
                   Parsed(h, name, "open")
          \/ /\ peer.kind = "conn" => ~Sent /\ gone[c]
             /\ \E name \in {"bad"} \cup old : Parsed(h, name, "open")
             /\ UNCHANGED unread
    /\ UNCHANGED <<fixed, gone, stuck, reply, loop, desc, sock, mutex, logged>>

(* A request that fills the buffer is read on until a recv returns less.   *)
(* If all of it has come in pieces of 1024 bytes the next recv waits for   *)
(* the client.                                                             *)
Discard(h) ==
    /\ at[h] = "discard"
    /\ Peer(h).kind = "conn" => request[Peer(h).of].size = "long" \/ gone[Peer(h).of]
    /\ Goto(h, "open")
    /\ UNCHANGED <<fixed, net, loop, desc, sock, file, mutex, logged>>

(* fopen fails for a missing file, and when no descriptor is free; the     *)
(* code takes the one for the other.                                       *)
Open(h) ==
    /\ at[h] = "open"
    /\ IF file[h] \in Files /\ FreeFds(Proc(h)) # {}
       THEN /\ desc' = [desc EXCEPT ![Proc(h)][LowestFree(Proc(h))] = Fd("file", h)]
            /\ Goto(h, "head")
            /\ UNCHANGED starved
       ELSE /\ Goto(h, "absent")
            /\ starved' = IF file[h] \in Files THEN starved \cup {h} ELSE starved
            /\ UNCHANGED desc
    /\ UNCHANGED <<program, request, net, loop, sock, file, mutex, logged>>

Absent(h, next) ==
    /\ at[h] = "absent"
    /\ Send(h, << <<"404">> >>, next)
    /\ UNCHANGED <<fixed, slot, sock, file, mutex, logged>>

(* The status line and the headers. *)
Head200(h, next) ==
    /\ at[h] = "head"
    /\ Send(h, << <<"200">> >>, next)
    /\ UNCHANGED <<fixed, slot, sock, file, mutex, logged>>

(* A page: the file its bytes come from, whether they are all of it, and   *)
(* the file whose size is given for it.                                    *)
Page(name, part, size) == <<name, part, size>>

(* The file is read and sent piece by piece, then closed.  Where a send    *)
(* fails without a signal the loop that resends never ends.                *)
Body(h, next) ==
    /\ at[h] = "body"
    /\ Peer(h).kind = "conn"
    /\ \/ /\ Deliver(h, << Page(file[h], "all", file[h]) >>)
          /\ Goto(h, next)
          /\ desc' = [desc EXCEPT ![Proc(h)] = [f \in Fds |->
                        IF @[f] = Fd("file", h) THEN FreeFd ELSE @[f]]]
          /\ UNCHANGED server
       \/ BrokenPipe(h)
    /\ UNCHANGED <<fixed, slot, sock, file, mutex, logged>>

(* One line is added to the log, under the mutex, if the log can be opened. *)
Log(h, size, next) ==
    /\ at[h] \in {"log", "log404"}
    /\ mutex = Nobody
    /\ logged' = IF FreeFds(Proc(h)) # {} THEN logged \cup {<<h, size>>} ELSE logged
    /\ Goto(h, next)
    /\ UNCHANGED <<fixed, net, loop, desc, sock, file, mutex>>

(* close, after shutdown or without it. *)
CloseSock(h) == desc' = [desc EXCEPT ![Proc(h)][sock[h]] = FreeFd]
================================================================================
