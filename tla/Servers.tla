-------------------------------- MODULE Servers --------------------------------
(***************************************************************************)
(* The four web servers of project3 side by side: program says which one   *)
(* runs.  The actions are those of the four modules; the properties are    *)
(* stated here once, with what differs between the programs.               *)
(***************************************************************************)
EXTENDS IterServer, CachedServer, ProcServer

vars == <<httpVars, cacheVars>>

CONSTANT Programs       \* those of the four to look at

ASSUME ProgramsAssumption == Programs \subseteq {"iter", "thread", "cached", "proc"}

Init ==
    /\ program \in Programs /\ HttpInit
    /\ \/ ColdStart /\ CacheInit(<<>>)
       \/ program = "cached" /\ WarmStart /\ \E w \in WarmCaches : CacheInit(w)

Step(h) ==
    \/ program = "iter" /\ IterStep(h) /\ UNCHANGED cacheVars
    \/ program = "thread" /\ ThreadStep(h) /\ UNCHANGED cacheVars
    \/ program = "cached" /\ CachedStep(h)
    \/ program = "proc" /\ ChildStep(h) /\ UNCHANGED cacheVars

Loop ==
    \/ program = "iter" /\ IterLoop /\ UNCHANGED cacheVars
    \/ program = "thread" /\ ThreadLoop /\ UNCHANGED cacheVars
    \/ program = "cached" /\ CachedLoop
    \/ program = "proc" /\ ProcLoop /\ UNCHANGED cacheVars

Clients ==
    /\ UNCHANGED cacheVars
    /\ \E c \in Conns : ClientLeaves(c) \/ ClientStops(c) \/ ClientReads(c)

Next == Loop \/ Clients \/ \E h \in Conns : Step(h)

(* The scheduler runs the loop and every handler; clients owe nothing, and *)
(* a handler that waits for one of them cannot run.                        *)
Spec == Init /\ [][Next]_vars /\ WF_vars(Loop) /\ \A h \in Conns : WF_vars(Step(h))

--------------------------------------------------------------------------------
PageKind == [name : Files \cup {"none"}, part : {"none", "all", "end"},
             size : Files \cup {"none"}, refs : -NConns .. NConns + 1, valid : BOOLEAN]

(* Every variable of the servers keeps its type; the entries of the cache  *)
(* below cache_count are pages and those above were never used.            *)
TypeOK ==
    /\ program \in Programs
    /\ request \in [Conns -> Requests]
    /\ unread \in [Conns -> {"all", "rest", "none"}]
    /\ gone \in [Conns -> BOOLEAN] /\ stuck \in [Conns -> BOOLEAN]
    /\ starved \subseteq Conns
    /\ \A c \in Conns : Len(reply[c]) <= 3
    /\ server \in {"setup", "accept", "busy", "fork", "forked", "dead"}
    /\ slot \in Fds \cup {Nobody} /\ sock \in [Conns -> Fds \cup {Nobody}]
    /\ desc \in [Procs -> [Fds -> [kind : {"free", "listen", "conn", "file"}, of : Conns \cup {Nobody}]]]
    /\ file \in [Conns -> Names \cup {"bad", "none", "silent"}]
    /\ mutex \in Conns \cup {Nobody}
    /\ cache \in [Slots -> PageKind] /\ cache_count \in 0 .. CacheSize
    /\ cache_index \in [Conns -> Slots \cup {-1}] /\ shift \in Slots \cup {-1}
    /\ \A i \in Slots : cache[i].valid <=> i < cache_count

(* The answers the program may give connection h, which its handler has    *)
(* answered: the page with one set of headers; 404 when the file is        *)
(* missing, and only then, unless no descriptor was left to open it.  A    *)
(* page of the cache comes behind a second set of headers, and only the    *)
(* end of a long one.                                                      *)
Answers(h) ==
    LET name == file[h]
        hit == cache_index[h] # -1
        cached == Page(name, IF name \in Big THEN "end" ELSE "all", name)
    IN CASE name = "bad" -> { <<>> }
         [] name = "missing" \/ h \in starved -> { << <<"404">> >> }
         [] name \in Files /\ h \notin starved /\ ~hit ->
                { << <<"200">>, Page(name, "all", name) >> }
         [] OTHER -> { << <<"200">>, <<"200">>, cached >> }

Answered(h) == at[h] \in {"bad", "release", "log", "log404", "close", "exit", "stray", "ended"}

(* A client that waits for its answer gets the one to its own request:     *)
(* from the program that keeps one variable for the connection and passes  *)
(* its address, and from the cache whose entries move while they are used, *)
(* unless an eviction came between the search and the use.  A request that *)
(* arrived in parts is answered as the name that the first part shows; a   *)
(* file is only refused for want of a descriptor where handlers share a    *)
(* table.                                                                  *)
AnswersRight ==
    /\ starved # {} => program \in {"thread", "cached"}
    /\ \A h \in Conns :
          Answered(h) /\ ~gone[h] /\ ~stale[h] =>
              /\ file[h] = request[h].file \/ unread[h] = "rest"
              /\ reply[h] \in Answers(h)

(* The reference count of a page is one, for its place in the cache, plus  *)
(* the threads that are using it, as long as no thread's index was found   *)
(* before an eviction.                                                     *)
RefCountsBalance ==
    server # "dead" /\ (\A h \in Conns : ~stale[h]) /\ shift = -1 =>
        \A i \in 0 .. cache_count - 1 :
            cache[i].refs =
                1 + Cardinality({h \in Conns : cache_index[h] = i /\ at[h] \in {"resend", "release"}})

(* The cache as the promise sees it: while the entries move down, the one  *)
(* at shift is there twice.                                                *)
Pages ==
    [i \in 1 .. (IF shift = -1 THEN cache_count ELSE cache_count - 1) |->
        cache[IF shift = -1 \/ i <= shift THEN i - 1 ELSE i].name]

Fifo == INSTANCE PageCache
    WITH Size <- CacheSize, Starts <- WarmCaches \cup {<<>>}, Names <- Files, pages <- Pages

(* The entries moved one by one under the mutex are a queue: pages enter   *)
(* at the end, and only the oldest of a full cache leaves.                 *)
CacheIsFifo == Fifo!Spec

(* A process holds the connections and files of its live handlers and      *)
(* nothing else: a child only its own connection, the parent none while it *)
(* waits in accept.  The file of a request that was answered from the      *)
(* cache stays open for good.                                              *)
NothingLeftOpen ==
    \A p \in Procs : \A f \in Fds :
        LET entry == desc[p][f]
        IN CASE entry.kind = "conn" ->
                  \/ p = Proc(entry.of) /\ Running(entry.of)
                  \/ p = Server /\ server \in {"fork", "forked"} /\ f = slot
             [] entry.kind = "file" ->
                  \/ p = Server /\ program = "cached" /\ entry.of = Nobody
                  \/ p = Proc(entry.of) /\ (Running(entry.of) \/ cache_index[entry.of] # -1)
             [] OTHER -> TRUE

(* What clients send, and when they leave, never ends the server of        *)
(* server_proc.c: it ends when the set up fails, when the process table is *)
(* full of children, live and dead, or when accept fails although the      *)
(* server has kept its socket and a free descriptor.                       *)
ProcServerSurvives ==
    [][program = "proc" /\ server' = "dead" /\ server # "dead" =>
        \/ server = "setup"
        \/ server = "fork" /\ Cardinality(Children) = MaxProcs
        \/ server = "accept" /\ Listening /\ FreeFds(Server) # {}]_vars

(* A line of the log has the size of the file that was asked for, unless   *)
(* an eviction changed the entry it is taken from; and a child that ends   *)
(* after it sent a page has written its line.                              *)
LogsRight ==
    \A h \in Conns :
        /\ \A size \in Files : <<h, size>> \in logged /\ ~stale[h] => size = file[h]
        /\ program = "proc" /\ at[h] = "ended" /\ Len(reply[h]) = 2 => <<h, file[h]>> \in logged

(* Whichever program serves, what a client gets and what the log says of   *)
(* it belong to its request (client_function of all four programs).        *)
ServedRight == TypeOK /\ AnswersRight /\ LogsRight

(* A handler waits for the client: for a request that does not come, for   *)
(* more of one whose last piece filled the buffer, or for room to send.    *)
WaitsForClient(h) ==
    /\ Running(h) /\ ~gone[h]
    /\ \/ at[h] = "recv" /\ request[h].file = "silent"
       \/ at[h] = "discard" /\ request[h].size = "exact"
       \/ at[h] \in {"body", "resend"} /\ stuck[h]

(* Every connection that was accepted is closed, or its handler waits for  *)
(* the client: the mutex, the search and the eviction hold nobody up.      *)
EveryRequestEnds ==
    \A h \in Conns : Running(h) ~> (~Running(h) \/ WaitsForClient(h))

(* "Tell the client we won't reuse this connection for other files"        *)
(* (server_thread.c:95): two threads never handle one connection.          *)
OneConnectionEach ==
    \A g, h \in Conns :
        g # h /\ at[g] \notin {"start"} /\ at[h] \notin {"start"} /\ Running(g) /\ Running(h)
            => sock[g] # sock[h]
================================================================================
