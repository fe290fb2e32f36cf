------------------------------ MODULE ServersProofs ------------------------------
(***************************************************************************)
(* Proofs about the four web servers, for any numbers of connections,      *)
(* descriptors, files and cache entries.  The inductive invariant comes in *)
(* four layers: where the handlers are and what the descriptor tables      *)
(* hold; the cache; the reference counts; and the answers.                 *)
(***************************************************************************)
EXTENDS Servers, FiniteSetTheorems, SequenceTheorems, WellFoundedInduction, TLAPS

Talking == {"recv", "discard", "open", "absent", "head", "find", "hit", "resend", "release",
            "body", "insert", "shift", "log", "log404", "close", "bad", "exit"}

Labels == Talking \cup {"new", "start", "child", "stray", "ended", "killed"}

Entry == [kind : {"free", "listen", "conn", "file"}, of : Conns \cup {Nobody}]

(* A thread reads the loop's variable before the loop goes on: without it  *)
(* two threads may answer one connection (OneConnectionEach fails).        *)
NoLateStart == LateStart => Programs \cap {"thread", "cached"} = {}

(* What only some of the programs do. *)
LabelsRight(h) ==
    /\ at[h] = "start" => program \in {"thread", "cached"}
    /\ at[h] \in {"find", "hit", "resend", "release", "insert", "shift", "log404"} => program = "cached"
    /\ at[h] \in {"child", "exit", "stray"} => program = "proc"
    /\ at[h] = "log" => program # "iter"
    /\ cache_index[h] # -1 => program = "cached"

HandlerTypes ==
    /\ program \in Programs
    /\ at \in [Conns -> Labels]
    /\ server \in {"setup", "accept", "busy", "fork", "forked", "dead"}
    /\ slot \in Fds \cup {Nobody}
    /\ sock \in [Conns -> Fds \cup {Nobody}]
    /\ desc \in [Procs -> [Fds -> Entry]]
    /\ scan \in [Conns -> Nat]
    /\ cache_index \in [Conns -> Nat \cup {-1}]

(* Connections are accepted in the order of their numbers. *)
InOrder == \E m \in 0 .. NConns : \A h \in Conns : at[h] # "new" <=> h <= m

ServerRight ==
    /\ server = "busy" => program = "iter"
    /\ server = "setup" => \A h \in Conns : at[h] = "new"
    /\ server \in {"accept", "busy", "fork", "forked"} => desc[Server][0] = Fd("listen", Nobody)
    /\ server \in {"fork", "forked"} =>
          program = "proc" /\ slot \in Fds /\ desc[Server][slot].kind = "conn"
    /\ server = "fork" => NextConn \in Conns /\ desc[Server][slot].of = NextConn

(* server.c answers one request at a time. *)
OneByOne ==
    program = "iter" =>
        /\ server # "busy" => \A h \in Conns : ~Running(h)
        /\ \A g, h \in Conns : Running(g) /\ Running(h) => g = h

(* A handler finds its connection where it looks for it. *)
ConnRight(h) ==
    /\ at[h] \in Talking \cup {"child"} => sock[h] \in Fds /\ Peer(h) = Fd("conn", h)
    /\ at[h] = "start" => slot \in Fds /\ desc[Server][slot] = Fd("conn", h)
    /\ at[h] = "child" => desc[h][0].kind = "listen"

(* What each kind of entry is there for. *)
EntryRight(p, f) ==
    LET entry == desc[p][f]
        c == entry.of
    IN /\ entry.kind = "listen" => f = 0 /\ (p = Server \/ (program = "proc" /\ at[p] = "child"))
       /\ entry.kind = "conn" =>
             /\ c \in Conns
             /\ \/ p = Proc(c) /\ at[c] \in Talking \cup {"child"} /\ f = sock[c]
                \/ p = Server /\ at[c] = "start" /\ f = slot
                \/ p = Server /\ server \in {"fork", "forked"} /\ f = slot
       /\ entry.kind = "file" =>
             \/ p = Server /\ program = "cached" /\ c = Nobody
             \/ /\ c \in Conns /\ p = Proc(c)
                /\ at[c] \in {"head", "body", "find"} \/ cache_index[c] # -1

TablesInv ==
    /\ HandlerTypes /\ InOrder /\ ServerRight /\ OneByOne
    /\ \A h \in Conns : LabelsRight(h) /\ ConnRight(h)
    /\ \A p \in Procs : \A f \in Fds : EntryRight(p, f)

--------------------------------------------------------------------------------
PageRecord == [name : Files \cup {"none"}, part : {"none", "all", "end"},
               size : Files \cup {"none"}, refs : Int, valid : BOOLEAN]

Whole(name) == IF name \in Big THEN "end" ELSE "all"

IsPage(page) == page.name \in Files /\ page.size = page.name /\ page.part = Whole(page.name) /\ page.valid

CacheTypes ==
    /\ cache \in [Slots -> PageRecord]
    /\ cache_count \in 0 .. CacheSize
    /\ shift \in Slots \cup {-1}
    /\ stale \in [Conns -> BOOLEAN]
    /\ mutex \in Conns \cup {Nobody}
    /\ local_content = [h \in Conns |-> local_content[h]]
    /\ file \in [Conns -> Names \cup {"bad", "none"}]
    /\ request \in [Conns -> Requests]
    /\ unread \in [Conns -> {"all", "rest", "none"}]
    /\ gone \in [Conns -> BOOLEAN]

Filled == \A i \in Slots : IF i < cache_count THEN IsPage(cache[i]) ELSE cache[i] = EmptyPage

Moving ==
    /\ shift = -1 <=> mutex = Nobody
    /\ shift # -1 => cache_count = CacheSize

(* The names a handler may have at each label. *)
FilesFit(label, name) ==
    /\ label \in {"discard", "open", "absent"} => name \in Names
    /\ label \in {"head", "find", "hit", "resend", "release", "body", "insert", "shift", "log"} => name \in Files
    /\ label \in {"bad", "stray"} => name = "bad"

(* Where each handler is against what it found in the cache. *)
FoundRight(h) ==
    /\ cache_index[h] # -1 =>
          cache_index[h] < cache_count /\ at[h] \in {"hit", "resend", "release", "log", "close", "ended", "killed"}
    /\ at[h] \in {"hit", "resend", "release"} => cache_index[h] # -1
    /\ at[h] = "shift" => mutex = h
    /\ FilesFit(at[h], file[h])

(* An index that an eviction may have moved the page away from is stale; a *)
(* thread whose index is not holds the page of its own file.               *)
StaleRight(h) ==
    /\ stale[h] => cache_index[h] # -1
    /\ shift # -1 /\ Running(h) /\ cache_index[h] # -1 => stale[h]
    /\ cache_index[h] # -1 /\ Running(h) /\ at[h] # "close" /\ ~stale[h] => cache[cache_index[h]].name = file[h]
    /\ at[h] = "resend" /\ ~stale[h] => local_content[h] = <<file[h], Whole(file[h])>>

CacheInv ==
    /\ CacheTypes /\ Filled /\ Moving
    /\ \A h \in Conns : FoundRight(h) /\ StaleRight(h)

--------------------------------------------------------------------------------
Users(i) == {h \in Conns : cache_index[h] = i /\ at[h] \in {"resend", "release"}}

(* Those that took a reference, and those that gave one back. *)
Takers == {h \in Conns : cache_index[h] # -1 /\ at[h] # "hit"}
Givers == {h \in Conns : cache_index[h] # -1 /\ at[h] \notin {"hit", "resend", "release"}}

RefsBounded ==
    \A i \in Slots : i < cache_count =>
        1 - Cardinality(Givers) <= cache[i].refs /\ cache[i].refs <= 1 + Cardinality(Takers)

RefsRight ==
    server # "dead" /\ (\A h \in Conns : ~stale[h]) =>
        \A i \in Slots : i < cache_count => cache[i].refs = 1 + Cardinality(Users(i))

RefsInv == RefsBounded /\ RefsRight

--------------------------------------------------------------------------------
ReplyTypes ==
    /\ stuck \in [Conns -> BOOLEAN] /\ starved \subseteq Conns
    /\ reply = [c \in Conns |-> reply[c]]
    /\ \A h \in Conns : \E n \in 0 .. 3 : Len(reply[h]) = n

(* The name a handler looks for, when all of its request has come. *)
AsAsked(h) == file[h] = request[h].file \/ unread[h] = "rest"

AnswerRight(h) ==
    /\ at[h] \in {"new", "start", "child", "recv", "discard", "open", "absent", "head", "bad", "stray"} =>
          reply[h] = <<>>
    /\ at[h] \in {"find", "hit", "resend", "body"} =>
          \/ reply[h] = << <<"200">> >>
          \/ gone[h] /\ reply[h] = <<>>
    /\ at[h] \in {"discard", "open", "absent", "head", "find", "hit", "resend", "body"} /\ ~gone[h] =>
          AsAsked(h)
    /\ h \in starved => program \in {"thread", "cached"} /\ at[h] \in {"absent", "log404", "close", "ended", "killed"}
    /\ at[h] = "absent" => file[h] = "missing" \/ h \in starved
    /\ at[h] \in {"insert", "shift"} \/ Answered(h) =>
          (~gone[h] /\ ~stale[h] => AsAsked(h) /\ reply[h] \in Answers(h))

LogRight(h) ==
    /\ program = "proc" /\ at[h] \in {"close", "stray"} => Len(reply[h]) # 2
    /\ program = "proc" /\ at[h] = "exit" => <<h, file[h]>> \in logged
    /\ program = "proc" /\ at[h] = "ended" /\ Len(reply[h]) = 2 => <<h, file[h]>> \in logged
    /\ \A size \in Files : <<h, size>> \in logged =>
          /\ at[h] \in {"close", "exit", "ended", "killed"}
          /\ ~stale[h] => size = file[h]

AnswersInv == ReplyTypes /\ \A h \in Conns : AnswerRight(h) /\ LogRight(h)

--------------------------------------------------------------------------------
(* The tables of descriptors. *)

LEMMA LeastNumber ==
    ASSUME NEW S \in SUBSET Nat, S # {}
    PROVE  \E x \in S : \A y \in S : x <= y
<1>1. PICK x \in S : \A y \in S : <<y, x>> \notin OpToRel(<, Nat)
  BY WFMin, NatLessThanWellFounded
<1> SUFFICES ASSUME NEW y \in S PROVE x <= y
  BY <1>1
<1>2. ~(y < x)
  BY <1>1 DEF OpToRel
<1> QED
  BY <1>2

LEMMA FdsAreNumbers == Fds \subseteq Nat /\ 0 \in Fds /\ 1 \in Fds /\ 2 \in Fds /\ Fds = 0 .. NFds - 1
  BY HttpAssumption DEF Fds

LEMMA ConnsAreNumbers == Conns \subseteq Nat /\ Server \notin Conns /\ Nobody \notin Conns /\ IsFiniteSet(Conns)
                         /\ Cardinality(Conns) = NConns
  BY HttpAssumption, FS_Interval DEF Conns, Server, Nobody

LEMMA LowestIsFree ==
    ASSUME NEW p \in Procs, FreeFds(p) # {}
    PROVE  LowestFree(p) \in Fds /\ desc[p][LowestFree(p)].kind = "free"
<1>1. FreeFds(p) \in SUBSET Nat
  BY FdsAreNumbers DEF FreeFds
<1>2. \E f \in FreeFds(p) : \A g \in FreeFds(p) : f <= g
  BY <1>1, LeastNumber
<1>3. LowestFree(p) \in FreeFds(p)
  BY <1>2 DEF LowestFree
<1> QED
  BY <1>3 DEF FreeFds

LEMMA ProcIsProc == \A h \in Conns : Proc(h) \in Procs /\ h \in Procs /\ Server \in Procs
  BY DEF Proc, Procs

LEMMA CountIsNext ==
    ASSUME NEW m \in 0 .. NConns, \A h \in Conns : at[h] # "new" <=> h <= m
    PROVE  NextConn = m + 1
<1>1. {h \in Conns : at[h] # "new"} = 1 .. m
  BY HttpAssumption DEF Conns
<1>2. Cardinality(1 .. m) = m
  BY FS_Interval, HttpAssumption
<1> DEFINE accepted == {h \in Conns : at[h] # "new"}
<1>3. NextConn = 1 + Cardinality(accepted)
  BY DEF NextConn
<1>4. Cardinality(accepted) = m
  BY <1>1, <1>2
<1> HIDE DEF accepted
<1> QED
  BY <1>3, <1>4, HttpAssumption

(* The connection that accept returns has no handler yet. *)
LEMMA NextIsNew ==
    ASSUME InOrder, NextConn \in Conns
    PROVE  /\ at[NextConn] = "new"
           /\ \E m \in 0 .. NConns : \A h \in Conns : (h = NextConn \/ at[h] # "new") <=> h <= m
<1>1. PICK m \in 0 .. NConns : \A h \in Conns : at[h] # "new" <=> h <= m
  BY DEF InOrder
<1>2. NextConn = m + 1
  BY <1>1, CountIsNext
<1>3. m + 1 \in 0 .. NConns
  BY <1>2, HttpAssumption DEF Conns
<1>4. \A h \in Conns : (h = NextConn \/ at[h] # "new") <=> h <= m + 1
  BY <1>1, <1>2, HttpAssumption DEF Conns
<1> QED
  BY <1>1, <1>2, <1>3, <1>4, HttpAssumption DEF Conns

LEMMA CountKept ==
    ASSUME \A h \in Conns : at'[h] # "new" <=> at[h] # "new", InOrder
    PROVE  NextConn' = NextConn /\ InOrder'
<1>1. {h \in Conns : at'[h] # "new"} = {h \in Conns : at[h] # "new"}
  OBVIOUS
<1>2. NextConn' = NextConn
  BY <1>1 DEF NextConn
<1> QED
  BY <1>2 DEF InOrder

(* A handler that keeps its connection goes on; it may open a file, or     *)
(* close those it opened.                                                  *)
LEMMA MoveKeeps ==
    ASSUME TablesInv, NEW h \in Conns, NEW l \in Talking, at[h] \in Talking,
           at' = [at EXCEPT ![h] = l],
           UNCHANGED <<program, server, slot, sock>>,
           scan' \in [Conns -> Nat],
           cache_index' \in [Conns -> Nat \cup {-1}],
           \A g \in Conns : cache_index[g] # -1 => cache_index'[g] # -1,
           \A g \in Conns : cache_index'[g] # -1 => program = "cached",
           l \in {"find", "hit", "resend", "release", "insert", "shift", "log404"} => program = "cached",
           l = "exit" => program = "proc",
           l = "log" => program # "iter",
           desc' \in [Procs -> [Fds -> Entry]],
           \A p \in Procs : \A f \in Fds :
               \/ desc'[p][f] = desc[p][f]
               \/ desc[p][f].kind = "file" /\ desc'[p][f] = FreeFd
               \/ /\ desc[p][f].kind = "free" /\ p = Proc(h)
                  /\ l \in {"head", "body", "find"} /\ desc'[p][f] = Fd("file", h),
           l \notin {"head", "body", "find"} /\ cache_index'[h] = -1 =>
               \A p \in Procs : \A f \in Fds : desc'[p][f].kind = "file" => desc'[p][f].of # h
    PROVE  TablesInv'
<1> USE DEF TablesInv
<1>1. HandlerTypes'
  BY DEF HandlerTypes, Labels
<1>2. \A g \in Conns : at'[g] = IF g = h THEN l ELSE at[g]
  BY DEF HandlerTypes
<1>3. \A g \in Conns : /\ at'[g] # "new" <=> at[g] # "new"
                       /\ Running(g)' <=> Running(g)
                       /\ at'[g] \in Talking \cup {"child"} <=> at[g] \in Talking \cup {"child"}
                       /\ at'[g] = "start" <=> at[g] = "start"
                       /\ at'[g] = "child" <=> at[g] = "child"
                       /\ at'[g] = "stray" <=> at[g] = "stray"
  BY <1>2 DEF Talking, Running
<1>4. NextConn' = NextConn /\ InOrder'
  BY <1>3, CountKept
<1>5. \A p \in Procs : \A f \in Fds :
        /\ desc[p][f].kind \in {"listen", "conn"} => desc'[p][f] = desc[p][f]
        /\ desc'[p][f].kind \in {"listen", "conn"} => desc'[p][f] = desc[p][f]
  BY DEF FreeFd, Fd
<1>6. ServerRight'
  <2>1. 0 \in Fds /\ Server \in Procs
    BY FdsAreNumbers DEF Procs
  <2> QED
    BY <1>3, <1>4, <1>5, <2>1 DEF ServerRight, Fd
<1>7. OneByOne'
  BY <1>3 DEF OneByOne
<1>8. ASSUME NEW g \in Conns
      PROVE  LabelsRight(g)' /\ ConnRight(g)'
  <2>1. LabelsRight(g)'
    BY <1>2, <1>3 DEF LabelsRight
  <2>2. ConnRight(g) /\ Proc(g) \in Procs /\ Server \in Procs /\ g \in Procs /\ 0 \in Fds /\ Proc(g)' = Proc(g)
    BY ProcIsProc, FdsAreNumbers DEF Proc
  <2>3. at'[g] \in Talking \cup {"child"} => sock'[g] \in Fds /\ desc'[Proc(g)][sock'[g]] = Fd("conn", g)
    BY <1>3, <1>5, <2>2 DEF ConnRight, Peer, Fd
  <2>4. at'[g] = "start" => slot' \in Fds /\ desc'[Server][slot'] = Fd("conn", g)
    BY <1>3, <1>5, <2>2 DEF ConnRight, Fd
  <2>5. at'[g] = "child" => desc'[g][0].kind = "listen"
    BY <1>3, <1>5, <2>2 DEF ConnRight
  <2> QED
    BY <2>1, <2>2, <2>3, <2>4, <2>5 DEF ConnRight, Peer
<1>9. ASSUME NEW p \in Procs, NEW f \in Fds
      PROVE  EntryRight(p, f)'
  <2> DEFINE e == desc'[p][f]
  <2>1. EntryRight(p, f) /\ e \in Entry /\ desc[p][f] \in Entry
    BY <1>1 DEF HandlerTypes
  <2>2. e.kind = "listen" => f = 0 /\ (p = Server \/ (program' = "proc" /\ at'[p] = "child"))
    BY <1>3, <1>5, <2>1 DEF EntryRight, Procs
  <2>3. e.kind = "conn" => /\ e.of \in Conns
                           /\ \/ p = Proc(e.of) /\ at'[e.of] \in Talking \cup {"child"} /\ f = sock'[e.of]
                              \/ p = Server /\ at'[e.of] = "start" /\ f = slot'
                              \/ p = Server /\ server' \in {"fork", "forked"} /\ f = slot'
    BY <1>3, <1>5, <2>1 DEF EntryRight, Proc
  <2>4. ASSUME e.kind = "file"
        PROVE  \/ p = Server /\ program' = "cached" /\ e.of = Nobody
               \/ /\ e.of \in Conns /\ p = Proc(e.of)
                  /\ at'[e.of] \in {"head", "body", "find"} \/ cache_index'[e.of] # -1
    <3>1. CASE desc[p][f].kind = "free"
      BY <1>2, <2>4, <3>1 DEF Fd, Proc
    <3>2. CASE desc[p][f].kind # "free"
      <4>1. e = desc[p][f]
        BY <2>4, <3>2 DEF FreeFd
      <4>2. CASE e.of = h
        BY <1>2, <2>1, <2>4, <4>1, <4>2 DEF EntryRight, Proc
      <4>3. CASE e.of # h
        BY <1>2, <2>1, <2>4, <4>1, <4>3 DEF EntryRight, Proc
      <4> QED
        BY <4>2, <4>3
    <3> QED
      BY <3>1, <3>2
  <2> QED
    BY <2>2, <2>3, <2>4 DEF EntryRight, Proc
<1> QED
  BY <1>1, <1>4, <1>6, <1>7, <1>8, <1>9

(* Nothing that the tables depend on changes. *)
LEMMA IdleKeeps ==
    ASSUME TablesInv, UNCHANGED <<program, server, slot, sock, desc, at, cache_index>>,
           scan' \in [Conns -> Nat]
    PROVE  TablesInv'
<1> USE DEF TablesInv
<1>1. HandlerTypes' /\ InOrder' /\ OneByOne'
  BY DEF HandlerTypes, InOrder, OneByOne, Running
<1>2. ServerRight'
  BY DEF ServerRight, NextConn
<1>3. ASSUME NEW h \in Conns PROVE LabelsRight(h)' /\ ConnRight(h)'
  <2>1. LabelsRight(h) /\ ConnRight(h)
    OBVIOUS
  <2> QED
    BY <2>1 DEF LabelsRight, ConnRight, Peer, Proc
<1>4. ASSUME NEW p \in Procs, NEW f \in Fds PROVE EntryRight(p, f)'
  <2>1. EntryRight(p, f)
    OBVIOUS
  <2> QED
    BY <2>1 DEF EntryRight, Proc
<1> QED
  BY <1>1, <1>2, <1>3, <1>4

(* A process ends; the others hold what they held. *)
LEMMA ExitKeeps ==
    ASSUME TablesInv, NEW p \in Procs, Exit(p), UNCHANGED <<program, slot, sock, scan, cache_index>>
    PROVE  TablesInv'
<1> USE DEF TablesInv
<1>1. \A q \in Procs : \A f \in Fds : desc'[q][f] = IF q = p THEN FreeFd ELSE desc[q][f]
  BY DEF Exit, HandlerTypes
<1>2. HandlerTypes'
  <2>1. FreeFd \in Entry
    BY DEF FreeFd, Entry
  <2>2. desc' \in [Procs -> [Fds -> Entry]]
    BY <2>1 DEF Exit, HandlerTypes
  <2>3. at' \in [Conns -> Labels]
    BY DEF Exit, HandlerTypes, Labels
  <2> QED
    BY <2>2, <2>3 DEF Exit, HandlerTypes
<1>3. \A h \in Conns : at'[h] = IF Proc(h) = p /\ Running(h) THEN "killed" ELSE at[h]
  BY DEF Exit
<1>4. \A h \in Conns : at'[h] # "new" <=> at[h] # "new"
  BY <1>3 DEF Running
<1>5. NextConn' = NextConn /\ InOrder'
  BY <1>4, CountKept
<1>6. ServerRight'
  <2>1. 0 \in Fds /\ Server \in Procs
    BY FdsAreNumbers DEF Procs
  <2>2. server' = IF p = Server THEN "dead" ELSE server
    BY DEF Exit
  <2>3. p # Server => \A f \in Fds : desc'[Server][f] = desc[Server][f]
    BY <1>1, <2>1
  <2> QED
    BY <1>4, <1>5, <2>1, <2>2, <2>3 DEF ServerRight
<1>7. OneByOne'
  <2>1. \A h \in Conns : Running(h)' => Running(h) /\ at'[h] = at[h] /\ Proc(h) # p
    BY <1>3 DEF Running
  <2>2. program = "iter" => \A h \in Conns : Proc(h) = Server
    BY DEF Proc
  <2>3. server' = IF p = Server THEN "dead" ELSE server
    BY DEF Exit
  <2> QED
    BY <2>1, <2>2, <2>3 DEF OneByOne
<1>8. ASSUME NEW h \in Conns PROVE LabelsRight(h)' /\ ConnRight(h)'
  <2>1. LabelsRight(h) /\ ConnRight(h)
    OBVIOUS
  <2>2. LabelsRight(h)'
    BY <1>3, <2>1 DEF LabelsRight
  <2>3. Proc(h)' = Proc(h) /\ Proc(h) \in Procs /\ Server \in Procs /\ 0 \in Fds
    BY ProcIsProc, FdsAreNumbers DEF Proc
  <2>4. at'[h] \in Talking \cup {"start", "child"} => at'[h] = at[h] /\ Proc(h) # p
    BY <1>3 DEF Talking, Running
  <2>5. at[h] = "start" => Proc(h) = Server
    BY <2>1 DEF LabelsRight, Proc
  <2>6. at[h] = "child" => Proc(h) = h
    BY <2>1 DEF LabelsRight, Proc
  <2>7. ConnRight(h)'
    BY <1>1, <2>1, <2>3, <2>4, <2>5, <2>6 DEF ConnRight, Peer
  <2> QED
    BY <2>2, <2>7
<1>9. ASSUME NEW q \in Procs, NEW f \in Fds PROVE EntryRight(q, f)'
  <2>1. CASE q = p
    BY <1>1, <2>1 DEF EntryRight, FreeFd
  <2>2. CASE q # p
    <3>1. desc'[q][f] = desc[q][f] /\ EntryRight(q, f)
      BY <1>1, <2>2
    <3>2. \A c \in Conns : q = Proc(c) => at'[c] = at[c]
      BY <1>3, <2>2
    <3>3. \A c \in Conns : at[c] = "start" => Proc(c) = Server
      BY DEF LabelsRight, Proc
    <3>4. q = Server => server' = server
      BY <2>2 DEF Exit
    <3>5. q # Server /\ at[q] = "child" => q \in Conns /\ Proc(q) = q
      BY DEF LabelsRight, Proc, Procs
    <3> QED
      BY <3>1, <3>2, <3>3, <3>4, <3>5 DEF EntryRight, Proc
  <2> QED
    BY <2>1, <2>2
<1> QED
  BY <1>2, <1>5, <1>6, <1>7, <1>8, <1>9

LEMMA SetupKeeps ==
    ASSUME TablesInv, Setup, UNCHANGED <<scan, cache_index>>
    PROVE  TablesInv'
<1> USE DEF TablesInv
<1>1. /\ server = "setup" /\ server' \in {"accept", "dead"}
      /\ UNCHANGED <<program, slot, sock, at>>
      /\ \A h \in Conns : at[h] = "new"
  BY DEF Setup, ServerRight, fixed
<1>2. 0 \in Fds /\ Server \in Procs
  BY FdsAreNumbers DEF Procs
<1>3. /\ desc' \in [Procs -> [Fds -> Entry]]
      /\ \A p \in Procs : \A f \in Fds :
            \/ desc'[p][f] = desc[p][f]
            \/ p = Server /\ f = 0 /\ desc'[p][f] = Fd("listen", Nobody)
      /\ server' = "accept" => desc'[Server][0] = Fd("listen", Nobody)
  <2>1. Fd("listen", Nobody) \in Entry
    BY DEF Fd, Entry
  <2>2. CASE server' = "accept" /\ desc' = [desc EXCEPT ![Server][0] = Fd("listen", Nobody)]
    <3> DEFINE e == Fd("listen", Nobody)
    <3>1. e \in Entry
      BY <2>1
    <3> HIDE DEF e
    <3>2. desc' = [desc EXCEPT ![Server][0] = e]
      BY <2>2 DEF e
    <3>3. /\ desc' \in [Procs -> [Fds -> Entry]]
          /\ \A p \in Procs : \A f \in Fds : desc'[p][f] = IF p = Server /\ f = 0 THEN e ELSE desc[p][f]
      BY <1>2, <3>1, <3>2 DEF HandlerTypes
    <3> QED
      BY <1>2, <3>3 DEF e
  <2>3. CASE server' = "dead" /\ UNCHANGED desc
    BY <2>3 DEF HandlerTypes
  <2> QED
    BY <2>2, <2>3 DEF Setup
<1>4. HandlerTypes' /\ InOrder'
  BY <1>1, <1>3 DEF HandlerTypes, InOrder
<1>5. ServerRight' /\ OneByOne'
  BY <1>1, <1>3 DEF ServerRight, OneByOne, Running
<1>6. ASSUME NEW h \in Conns PROVE LabelsRight(h)' /\ ConnRight(h)'
  <2>1. LabelsRight(h) /\ at'[h] = "new"
    BY <1>1
  <2> QED
    BY <1>1, <2>1 DEF LabelsRight, ConnRight, Talking
<1>7. ASSUME NEW p \in Procs, NEW f \in Fds PROVE EntryRight(p, f)'
  <2>1. EntryRight(p, f)
    OBVIOUS
  <2>2. CASE desc'[p][f] = desc[p][f]
    BY <1>1, <2>1, <2>2 DEF EntryRight, Proc
  <2>3. CASE p = Server /\ f = 0 /\ desc'[p][f] = Fd("listen", Nobody)
    BY <2>3 DEF EntryRight, Fd
  <2> QED
    BY <1>3, <2>2, <2>3
<1> QED
  BY <1>4, <1>5, <1>6, <1>7

(* What accept does: connection h, the next one, gets the lowest free      *)
(* descriptor, which no handler has.                                       *)
LEMMA AcceptGives ==
    ASSUME TablesInv, NEW h \in Conns, Accept(h)
    PROVE  /\ server = "accept" /\ h = NextConn /\ at[h] = "new"
           /\ slot' = LowestFree(Server) /\ slot' \in Fds \ {0}
           /\ desc' \in [Procs -> [Fds -> Entry]]
           /\ \A p \in Procs : \A f \in Fds :
                 desc'[p][f] = IF p = Server /\ f = slot' THEN Fd("conn", h) ELSE desc[p][f]
           /\ desc[Server][slot'].kind = "free"
           /\ desc'[Server][0] = Fd("listen", Nobody)
           /\ \E m \in 0 .. NConns : \A g \in Conns : (g = h \/ at[g] # "new") <=> g <= m
<1> USE DEF TablesInv
<1>1. Server \in Procs /\ 0 \in Fds
  BY FdsAreNumbers DEF Procs
<1>2. slot' \in Fds /\ desc[Server][slot'].kind = "free"
  BY <1>1, LowestIsFree DEF Accept
<1>3. slot' # 0
  BY <1>2 DEF Accept, Listening
<1>4. Fd("conn", h) \in Entry
  BY DEF Fd, Entry
<1>5. /\ desc' \in [Procs -> [Fds -> Entry]]
      /\ \A p \in Procs : \A f \in Fds :
            desc'[p][f] = IF p = Server /\ f = slot' THEN Fd("conn", h) ELSE desc[p][f]
  <2>1. desc' = [desc EXCEPT ![Server][slot'] = Fd("conn", h)]
    BY DEF Accept
  <2> QED
    BY <1>1, <1>2, <1>4, <2>1 DEF HandlerTypes
<1>6. desc'[Server][0] = Fd("listen", Nobody)
  BY <1>1, <1>3, <1>5 DEF ServerRight, Accept
<1>7. NextConn \in Conns
  BY DEF Accept
<1> QED
  BY <1>2, <1>3, <1>5, <1>6, <1>7, NextIsNew DEF Accept

(* No descriptor is that of a connection that has no handler, unless the   *)
(* parent of server_proc.c is about to make one.                           *)
LEMMA NewHasNothing ==
    ASSUME TablesInv, NEW h \in Conns, at[h] = "new", NEW p \in Procs, NEW f \in Fds,
           desc[p][f].kind = "conn", desc[p][f].of = h
    PROVE  p = Server /\ server \in {"fork", "forked"} /\ f = slot
BY DEF TablesInv, EntryRight, Talking

LEMMA IterAcceptKeeps ==
    ASSUME TablesInv, program = "iter", NEW h \in Conns, IterAccept(h), UNCHANGED <<scan, cache_index>>
    PROVE  TablesInv'
<1> USE DEF TablesInv
<1>1. Accept(h) /\ UNCHANGED program /\ server' = "busy" /\ at' = [at EXCEPT ![h] = "recv"]
      /\ sock' = [sock EXCEPT ![h] = slot']
  BY AcceptGives DEF IterAccept, Goto, fixed
<1>2. /\ server = "accept" /\ at[h] = "new" /\ slot' \in Fds \ {0}
      /\ desc' \in [Procs -> [Fds -> Entry]]
      /\ \A p \in Procs : \A f \in Fds :
            desc'[p][f] = IF p = Server /\ f = slot' THEN Fd("conn", h) ELSE desc[p][f]
      /\ desc[Server][slot'].kind = "free"
      /\ desc'[Server][0] = Fd("listen", Nobody)
      /\ \E m \in 0 .. NConns : \A g \in Conns : (g = h \/ at[g] # "new") <=> g <= m
  BY <1>1, AcceptGives
<1>3. HandlerTypes'
  BY <1>1, <1>2 DEF HandlerTypes, Labels, Talking
<1>4. \A g \in Conns : /\ at'[g] = IF g = h THEN "recv" ELSE at[g]
                       /\ sock'[g] = IF g = h THEN slot' ELSE sock[g]
  BY <1>1 DEF HandlerTypes
<1>5. InOrder'
  <2>1. \A g \in Conns : at'[g] # "new" <=> (g = h \/ at[g] # "new")
    BY <1>4
  <2> QED
    BY <1>2, <2>1 DEF InOrder
<1>6. ServerRight' /\ OneByOne'
  <2>1. \A g \in Conns : ~Running(g)
    BY <1>2 DEF OneByOne
  <2>2. \A g \in Conns : Running(g)' => g = h
    BY <1>4, <2>1 DEF Running
  <2> QED
    BY <1>1, <1>2, <2>2 DEF ServerRight, OneByOne
<1>7. Server \in Procs /\ \A g \in Conns : Proc(g) = Server /\ Proc(g)' = Server
  BY <1>1 DEF Proc, Procs
<1>8. ASSUME NEW g \in Conns PROVE LabelsRight(g)' /\ ConnRight(g)'
  <2>1. LabelsRight(g) /\ ConnRight(g)
    OBVIOUS
  <2>2. LabelsRight(g)'
    BY <1>1, <1>4, <2>1 DEF LabelsRight
  <2>3. at[g] # "start" /\ at[g] # "child"
    BY <2>1 DEF LabelsRight
  <2>4. ConnRight(g)'
    BY <1>1, <1>2, <1>4, <1>7, <2>1, <2>3 DEF ConnRight, Peer, Fd
  <2> QED
    BY <2>2, <2>4
<1>9. ASSUME NEW p \in Procs, NEW f \in Fds PROVE EntryRight(p, f)'
  <2>1. EntryRight(p, f) /\ \A g \in Conns : at[g] # "start"
    BY DEF LabelsRight
  <2>2. CASE p = Server /\ f = slot'
    BY <1>2, <1>4, <1>7, <2>2 DEF EntryRight, Fd, Talking
  <2>3. CASE ~(p = Server /\ f = slot')
    <3>1. desc'[p][f] = desc[p][f]
      BY <1>2, <2>3
    <3>2. desc[p][f].kind = "conn" => desc[p][f].of # h
      BY <1>2, NewHasNothing
    <3> QED
      BY <1>1, <1>2, <1>4, <1>7, <2>1, <3>1, <3>2 DEF EntryRight
  <2> QED
    BY <2>2, <2>3
<1> QED
  BY <1>3, <1>5, <1>6, <1>8, <1>9

LEMMA ThreadAcceptKeeps ==
    ASSUME TablesInv, NoLateStart, program \in {"thread", "cached"},
           NEW h \in Conns, ThreadAccept(h), UNCHANGED <<scan, cache_index>>
    PROVE  TablesInv'
<1> USE DEF TablesInv
<1>1. Accept(h) /\ UNCHANGED <<program, server, sock>> /\ at' = [at EXCEPT ![h] = "start"]
  BY DEF ThreadAccept, Goto, fixed
<1>2. /\ server = "accept" /\ at[h] = "new" /\ slot' \in Fds \ {0}
      /\ desc' \in [Procs -> [Fds -> Entry]]
      /\ \A p \in Procs : \A f \in Fds :
            desc'[p][f] = IF p = Server /\ f = slot' THEN Fd("conn", h) ELSE desc[p][f]
      /\ desc[Server][slot'].kind = "free"
      /\ desc'[Server][0] = Fd("listen", Nobody)
      /\ \E m \in 0 .. NConns : \A g \in Conns : (g = h \/ at[g] # "new") <=> g <= m
  BY <1>1, AcceptGives
<1>3. \A g \in Conns : at[g] # "start"
  <2>1. program \in Programs
    BY DEF HandlerTypes
  <2>2. ~LateStart
    BY <2>1, LateAssumption DEF NoLateStart
  <2> QED
    BY <2>2 DEF ThreadAccept
<1>4. HandlerTypes'
  BY <1>1, <1>2 DEF HandlerTypes, Labels, Talking
<1>5. \A g \in Conns : at'[g] = IF g = h THEN "start" ELSE at[g]
  BY <1>1 DEF HandlerTypes
<1>6. InOrder'
  <2>1. \A g \in Conns : at'[g] # "new" <=> (g = h \/ at[g] # "new")
    BY <1>5
  <2> QED
    BY <1>2, <2>1 DEF InOrder
<1>7. ServerRight' /\ OneByOne'
  BY <1>1, <1>2 DEF ServerRight, OneByOne
<1>8. Server \in Procs /\ \A g \in Conns : Proc(g) = Server /\ Proc(g)' = Server
  BY <1>1 DEF Proc, Procs
<1>9. ASSUME NEW g \in Conns PROVE LabelsRight(g)' /\ ConnRight(g)'
  <2>1. LabelsRight(g) /\ ConnRight(g)
    OBVIOUS
  <2>2. LabelsRight(g)'
    BY <1>1, <1>5, <2>1 DEF LabelsRight
  <2>3. at[g] # "child"
    BY <2>1 DEF LabelsRight
  <2>4. CASE g = h
    <3>1. at'[g] = "start" /\ slot' \in Fds /\ desc'[Server][slot'] = Fd("conn", g)
      BY <1>2, <1>5, <1>8, <2>4
    <3> QED
      BY <2>2, <3>1 DEF ConnRight, Talking
  <2>5. CASE g # h
    <3>1. at'[g] = at[g] /\ at[g] # "start" /\ sock'[g] = sock[g]
      BY <1>1, <1>3, <1>5, <2>5
    <3>2. at[g] \in Talking => sock[g] \in Fds /\ desc[Server][sock[g]] = Fd("conn", g)
      BY <1>8, <2>1 DEF ConnRight, Peer
    <3>3. at[g] \in Talking => desc'[Server][sock[g]] = Fd("conn", g)
      BY <1>2, <1>8, <3>2 DEF Fd
    <3> QED
      BY <2>2, <1>8, <2>3, <3>1, <3>2, <3>3 DEF ConnRight, Peer
  <2> QED
    BY <2>2, <2>4, <2>5
<1>10. ASSUME NEW p \in Procs, NEW f \in Fds PROVE EntryRight(p, f)'
  <2>1. EntryRight(p, f)
    OBVIOUS
  <2>2. CASE p = Server /\ f = slot'
    BY <1>2, <1>5, <1>8, <2>2 DEF EntryRight, Fd
  <2>3. CASE ~(p = Server /\ f = slot')
    <3>1. desc'[p][f] = desc[p][f]
      BY <1>2, <2>3
    <3>2. desc[p][f].kind = "conn" => desc[p][f].of # h
      BY <1>2, NewHasNothing
    <3> QED
      BY <1>1, <1>2, <1>3, <1>5, <1>8, <2>1, <3>1, <3>2 DEF EntryRight
  <2> QED
    BY <2>2, <2>3
<1> QED
  BY <1>4, <1>6, <1>7, <1>9, <1>10

LEMMA ProcAcceptKeeps ==
    ASSUME TablesInv, program = "proc", NEW h \in Conns, ProcAccept(h), UNCHANGED <<scan, cache_index>>
    PROVE  TablesInv'
<1> USE DEF TablesInv
<1>1. Accept(h) /\ UNCHANGED <<program, sock, at>> /\ server' = "fork"
  BY DEF ProcAccept, fixed
<1>2. /\ server = "accept" /\ h = NextConn /\ at[h] = "new" /\ slot' \in Fds \ {0}
      /\ desc' \in [Procs -> [Fds -> Entry]]
      /\ \A p \in Procs : \A f \in Fds :
            desc'[p][f] = IF p = Server /\ f = slot' THEN Fd("conn", h) ELSE desc[p][f]
      /\ desc'[Server][0] = Fd("listen", Nobody)
  BY <1>1, AcceptGives
<1>3. HandlerTypes' /\ InOrder' /\ OneByOne'
  BY <1>1, <1>2 DEF HandlerTypes, InOrder, OneByOne
<1>4. Server \in Procs /\ \A g \in Conns : Proc(g) = g /\ Proc(g)' = g /\ g # Server /\ g \in Procs
  BY <1>1, ConnsAreNumbers DEF Proc, Procs
<1>5. ServerRight'
  <2>1. NextConn' = NextConn
    BY <1>1 DEF NextConn
  <2>2. desc'[Server][slot'] = Fd("conn", h)
    BY <1>2, <1>4
  <2> QED
    BY <1>1, <1>2, <2>1, <2>2 DEF ServerRight, Fd
<1>6. ASSUME NEW g \in Conns PROVE LabelsRight(g)' /\ ConnRight(g)'
  <2>1. LabelsRight(g) /\ ConnRight(g) /\ at[g] # "start"
    BY DEF LabelsRight
  <2>2. LabelsRight(g)'
    BY <1>1, <2>1 DEF LabelsRight
  <2>3. 0 \in Fds
    BY FdsAreNumbers
  <2>4. ConnRight(g)'
    BY <1>1, <1>2, <1>4, <2>1, <2>3 DEF ConnRight, Peer
  <2> QED
    BY <2>2, <2>4
<1>7. ASSUME NEW p \in Procs, NEW f \in Fds PROVE EntryRight(p, f)'
  <2>1. EntryRight(p, f)
    OBVIOUS
  <2>2. CASE p = Server /\ f = slot'
    BY <1>1, <1>2, <2>2 DEF EntryRight, Fd
  <2>3. CASE ~(p = Server /\ f = slot')
    <3>1. desc'[p][f] = desc[p][f] /\ \A g \in Conns : at[g] # "start"
      BY <1>2, <2>3 DEF LabelsRight
    <3> QED
      BY <1>1, <1>2, <1>4, <2>1, <3>1 DEF EntryRight
  <2> QED
    BY <2>2, <2>3
<1> QED
  BY <1>3, <1>5, <1>6, <1>7

(* fork copies the parent's table: the socket that listens and the         *)
(* connection that was just accepted.                                      *)
LEMMA ForkKeeps ==
    ASSUME TablesInv, program = "proc", ProcFork, UNCHANGED <<scan, cache_index>>
    PROVE  TablesInv'
<1> USE DEF TablesInv
<1> DEFINE h == NextConn
<1>1. /\ server = "fork" /\ server' = "forked" /\ UNCHANGED <<program, slot>>
      /\ desc' = [desc EXCEPT ![h] = desc[Server]]
      /\ sock' = [sock EXCEPT ![h] = slot]
      /\ at' = [at EXCEPT ![h] = "child"]
  BY DEF ProcFork, Goto, fixed
<1>2. /\ h \in Conns /\ slot \in Fds /\ desc[Server][slot].kind = "conn" /\ desc[Server][slot].of = h
      /\ desc[Server][0] = Fd("listen", Nobody) /\ 0 \in Fds
  BY <1>1, FdsAreNumbers DEF ServerRight
<1>3. /\ at[h] = "new"
      /\ \E m \in 0 .. NConns : \A g \in Conns : (g = h \/ at[g] # "new") <=> g <= m
  BY <1>2, NextIsNew
<1>4. Server \in Procs /\ \A g \in Conns : Proc(g) = g /\ Proc(g)' = g /\ g # Server /\ g \in Procs
  BY <1>1, ConnsAreNumbers DEF Proc, Procs
<1> HIDE DEF h
<1>5. \A g \in Conns : /\ at'[g] = IF g = h THEN "child" ELSE at[g]
                       /\ sock'[g] = IF g = h THEN slot ELSE sock[g]
  BY <1>1, <1>2 DEF HandlerTypes
<1>6. \A p \in Procs : \A f \in Fds : desc'[p][f] = IF p = h THEN desc[Server][f] ELSE desc[p][f]
  BY <1>1, <1>2, <1>4 DEF HandlerTypes
<1>7. HandlerTypes'
  BY <1>1, <1>2, <1>4 DEF HandlerTypes, Labels
<1>8. InOrder'
  <2>1. \A g \in Conns : at'[g] # "new" <=> (g = h \/ at[g] # "new")
    BY <1>5
  <2> QED
    BY <1>3, <2>1 DEF InOrder
<1>9. ServerRight' /\ OneByOne'
  BY <1>1, <1>2, <1>4, <1>6 DEF ServerRight, OneByOne
<1>10. \A g \in Conns : at[g] # "start" /\ cache_index[g] = -1
  BY DEF LabelsRight, HandlerTypes
<1>11. ASSUME NEW g \in Conns PROVE LabelsRight(g)' /\ ConnRight(g)'
  <2>1. LabelsRight(g) /\ ConnRight(g)
    OBVIOUS
  <2>2. LabelsRight(g)'
    BY <1>1, <1>5, <2>1 DEF LabelsRight
  <2>3. CASE g = h
    <3>1. desc[Server][slot] = Fd("conn", h)
      BY <1>2, <1>4 DEF HandlerTypes, Entry, Fd
    <3>2. at'[g] = "child" /\ sock'[g] = slot
      BY <1>5, <2>3
    <3>3. desc'[g][slot] = Fd("conn", g) /\ desc'[g][0].kind = "listen"
      BY <1>2, <1>4, <1>6, <2>3, <3>1 DEF Fd
    <3> QED
      BY <2>2, <1>2, <1>4, <3>2, <3>3 DEF ConnRight, Peer
  <2>4. CASE g # h
    <3>1. at'[g] = at[g] /\ sock'[g] = sock[g] /\ at[g] # "start"
      BY <1>5, <1>10, <2>4
    <3>2. \A f \in Fds : desc'[g][f] = desc[g][f]
      BY <1>4, <1>6, <2>4
    <3> QED
      BY <2>2, <1>2, <1>4, <2>1, <3>1, <3>2 DEF ConnRight, Peer
  <2> QED
    BY <2>2, <2>3, <2>4
<1>12. ASSUME NEW p \in Procs, NEW f \in Fds PROVE EntryRight(p, f)'
  <2>1. EntryRight(p, f) /\ EntryRight(Server, f)
    BY <1>4
  <2>2. CASE p = h
    <3>1. desc'[p][f] = desc[Server][f] /\ p # Server
      BY <1>2, <1>4, <1>6, <2>2
    <3>2. desc[Server][f].kind = "conn" => f = slot
      BY <1>4, <1>10, <2>1 DEF EntryRight
    <3>3. desc[Server][f].kind # "file"
      BY <1>4, <2>1 DEF EntryRight
    <3> QED
      BY <1>1, <1>2, <1>4, <1>5, <2>1, <2>2, <3>1, <3>2, <3>3 DEF EntryRight
  <2>3. CASE p # h
    <3>1. desc'[p][f] = desc[p][f]
      BY <1>6, <2>3
    <3> QED
      BY <1>1, <1>2, <1>3, <1>4, <1>5, <1>10, <2>1, <2>3, <3>1 DEF EntryRight
  <2> QED
    BY <2>2, <2>3
<1> QED
  BY <1>7, <1>8, <1>9, <1>11, <1>12

LEMMA ParentCloseKeeps ==
    ASSUME TablesInv, program = "proc", ParentClose, UNCHANGED <<scan, cache_index>>
    PROVE  TablesInv'
<1> USE DEF TablesInv
<1>1. /\ server = "forked" /\ server' = "accept" /\ UNCHANGED <<program, slot, sock, at>>
      /\ desc' = [desc EXCEPT ![Server][slot] = FreeFd]
  BY DEF ParentClose, fixed
<1>2. slot \in Fds /\ desc[Server][slot].kind = "conn" /\ desc[Server][0] = Fd("listen", Nobody) /\ 0 \in Fds
  BY <1>1, FdsAreNumbers DEF ServerRight
<1>3. slot # 0
  BY <1>2 DEF Fd
<1>4. Server \in Procs /\ \A g \in Conns : Proc(g) = g /\ Proc(g)' = g /\ g # Server /\ g \in Procs
  BY <1>1, ConnsAreNumbers DEF Proc, Procs
<1>5. \A p \in Procs : \A f \in Fds : desc'[p][f] = IF p = Server /\ f = slot THEN FreeFd ELSE desc[p][f]
  BY <1>1, <1>2, <1>4 DEF HandlerTypes
<1>6. HandlerTypes' /\ InOrder'
  <2>1. FreeFd \in Entry
    BY DEF FreeFd, Entry
  <2> QED
    BY <1>1, <1>2, <1>4, <2>1 DEF HandlerTypes, InOrder
<1>7. ServerRight' /\ OneByOne'
  BY <1>1, <1>2, <1>3, <1>4, <1>5 DEF ServerRight, OneByOne
<1>8. ASSUME NEW g \in Conns PROVE LabelsRight(g)' /\ ConnRight(g)'
  <2>1. LabelsRight(g) /\ ConnRight(g) /\ at[g] # "start"
    BY DEF LabelsRight
  <2>2. LabelsRight(g)'
    BY <1>1, <2>1 DEF LabelsRight
  <2>3. ConnRight(g)'
    BY <1>1, <1>2, <1>4, <1>5, <2>1 DEF ConnRight, Peer
  <2> QED
    BY <2>2, <2>3
<1>9. ASSUME NEW p \in Procs, NEW f \in Fds PROVE EntryRight(p, f)'
  <2>1. EntryRight(p, f) /\ \A g \in Conns : at[g] # "start"
    BY DEF LabelsRight
  <2>2. CASE p = Server /\ f = slot
    BY <1>5, <2>2 DEF EntryRight, FreeFd
  <2>3. CASE ~(p = Server /\ f = slot)
    <3>1. desc'[p][f] = desc[p][f]
      BY <1>5, <2>3
    <3> QED
      BY <1>1, <1>4, <2>1, <2>3, <3>1 DEF EntryRight
  <2> QED
    BY <2>2, <2>3
<1> QED
  BY <1>6, <1>7, <1>8, <1>9

LEMMA ThreadStartKeeps ==
    ASSUME TablesInv, program \in {"thread", "cached"}, NEW h \in Conns, ThreadStart(h),
           UNCHANGED <<scan, cache_index>>
    PROVE  TablesInv'
<1> USE DEF TablesInv
<1>1. /\ at[h] = "start" /\ UNCHANGED <<program, server, slot, desc>>
      /\ at' = [at EXCEPT ![h] = "recv"] /\ sock' = [sock EXCEPT ![h] = slot]
  BY DEF ThreadStart, Goto, fixed, loop
<1>2. \A g \in Conns : /\ at'[g] = IF g = h THEN "recv" ELSE at[g]
                       /\ sock'[g] = IF g = h THEN slot ELSE sock[g]
  BY <1>1 DEF HandlerTypes
<1>3. HandlerTypes'
  BY <1>1 DEF HandlerTypes, Labels, Talking
<1>4. NextConn' = NextConn /\ InOrder'
  <2>1. \A g \in Conns : at'[g] # "new" <=> at[g] # "new"
    BY <1>1, <1>2
  <2> QED
    BY <2>1, CountKept
<1>5. ServerRight' /\ OneByOne'
  BY <1>1, <1>2, <1>4 DEF ServerRight, OneByOne
<1>6. Server \in Procs /\ \A g \in Conns : Proc(g) = Server /\ Proc(g)' = Server
  BY <1>1 DEF Proc, Procs
<1>7. ASSUME NEW g \in Conns PROVE LabelsRight(g)' /\ ConnRight(g)'
  <2>1. LabelsRight(g) /\ ConnRight(g) /\ ConnRight(h)
    OBVIOUS
  <2>2. LabelsRight(g)'
    BY <1>1, <1>2, <2>1 DEF LabelsRight
  <2>3. CASE g = h
    <3>1. at'[g] = "recv" /\ sock'[g] = slot /\ slot \in Fds /\ desc'[Server][slot] = Fd("conn", g)
      BY <1>1, <1>2, <2>1, <2>3 DEF ConnRight
    <3> QED
      BY <1>6, <2>2, <3>1 DEF ConnRight, Peer
  <2>4. CASE g # h
    <3>1. at'[g] = at[g] /\ sock'[g] = sock[g]
      BY <1>2, <2>4
    <3> QED
      BY <1>1, <1>6, <2>1, <2>2, <3>1 DEF ConnRight, Peer
  <2> QED
    BY <2>3, <2>4
<1>8. ASSUME NEW p \in Procs, NEW f \in Fds PROVE EntryRight(p, f)'
  <2> DEFINE c == desc[p][f].of
  <2>1. EntryRight(p, f) /\ desc'[p][f] = desc[p][f]
    BY <1>1
  <2>2. CASE c = h
    BY <1>1, <1>2, <1>6, <2>1, <2>2 DEF EntryRight, Talking
  <2>3. CASE c # h
    BY <1>1, <1>2, <1>6, <2>1, <2>3 DEF EntryRight
  <2> QED
    BY <2>2, <2>3
<1> QED
  BY <1>3, <1>4, <1>5, <1>7, <1>8

LEMMA ChildStartKeeps ==
    ASSUME TablesInv, program = "proc", NEW h \in Conns, ChildStart(h), UNCHANGED <<scan, cache_index>>
    PROVE  TablesInv'
<1> USE DEF TablesInv
<1>1. /\ at[h] = "child" /\ UNCHANGED <<program, server, slot, sock>>
      /\ at' = [at EXCEPT ![h] = "recv"] /\ desc' = [desc EXCEPT ![h][0] = FreeFd]
  BY DEF ChildStart, Goto, fixed, loop
<1>2. Server \in Procs /\ 0 \in Fds /\ \A g \in Conns : Proc(g) = g /\ Proc(g)' = g /\ g # Server /\ g \in Procs
  BY <1>1, FdsAreNumbers, ConnsAreNumbers DEF Proc, Procs
<1>3. \A g \in Conns : at'[g] = IF g = h THEN "recv" ELSE at[g]
  BY <1>1 DEF HandlerTypes
<1>4. \A p \in Procs : \A f \in Fds : desc'[p][f] = IF p = h /\ f = 0 THEN FreeFd ELSE desc[p][f]
  BY <1>1, <1>2 DEF HandlerTypes
<1>5. HandlerTypes'
  <2>1. FreeFd \in Entry
    BY DEF FreeFd, Entry
  <2> QED
    BY <1>1, <1>2, <2>1 DEF HandlerTypes, Labels, Talking
<1>6. NextConn' = NextConn /\ InOrder'
  <2>1. \A g \in Conns : at'[g] # "new" <=> at[g] # "new"
    BY <1>1, <1>3
  <2> QED
    BY <2>1, CountKept
<1>7. ServerRight' /\ OneByOne'
  <2>1. \A f \in Fds : desc'[Server][f] = desc[Server][f]
    BY <1>2, <1>4
  <2> QED
    BY <1>1, <1>2, <1>3, <1>6, <2>1 DEF ServerRight, OneByOne
<1>8. ASSUME NEW g \in Conns PROVE LabelsRight(g)' /\ ConnRight(g)'
  <2>1. LabelsRight(g) /\ ConnRight(g) /\ at[g] # "start"
    BY DEF LabelsRight
  <2>2. LabelsRight(g)'
    BY <1>1, <1>3, <2>1 DEF LabelsRight
  <2>3. CASE g = h
    <3>1. sock[g] \in Fds /\ desc[g][sock[g]] = Fd("conn", g) /\ desc[g][0].kind = "listen"
      BY <1>1, <1>2, <2>1, <2>3 DEF ConnRight, Peer
    <3>2. sock[g] # 0
      BY <3>1 DEF Fd
    <3>3. at'[g] = "recv" /\ desc'[g][sock[g]] = Fd("conn", g)
      BY <1>2, <1>3, <1>4, <2>3, <3>1, <3>2
    <3> QED
      BY <1>1, <1>2, <2>2, <3>1, <3>3 DEF ConnRight, Peer
  <2>4. CASE g # h
    <3>1. at'[g] = at[g] /\ \A f \in Fds : desc'[g][f] = desc[g][f]
      BY <1>2, <1>3, <1>4, <2>4
    <3> QED
      BY <1>1, <1>2, <2>1, <2>2, <3>1 DEF ConnRight, Peer
  <2> QED
    BY <2>3, <2>4
<1>9. ASSUME NEW p \in Procs, NEW f \in Fds PROVE EntryRight(p, f)'
  <2>1. EntryRight(p, f) /\ \A g \in Conns : at[g] # "start"
    BY DEF LabelsRight
  <2>2. CASE p = h /\ f = 0
    BY <1>4, <2>2 DEF EntryRight, FreeFd
  <2>3. CASE ~(p = h /\ f = 0)
    <3>1. desc'[p][f] = desc[p][f]
      BY <1>4, <2>3
    <3>2. \A g \in Conns : /\ at[g] \in Talking \cup {"child"} => at'[g] \in Talking \cup {"child"}
                           /\ at[g] \in {"head", "body", "find"} => at'[g] = at[g]
      BY <1>1, <1>3 DEF Talking
    <3>3. p # Server /\ at[p] = "child" => at'[p] = "child" \/ p = h
      BY <1>3 DEF Procs
    <3> QED
      BY <1>1, <1>2, <2>1, <2>3, <3>1, <3>2, <3>3 DEF EntryRight
  <2> QED
    BY <2>2, <2>3
<1> QED
  BY <1>5, <1>6, <1>7, <1>8, <1>9

(* A handler closes its connection and ends, or a child of server_proc.c   *)
(* goes on without one.                                                    *)
LEMMA CloseKeeps ==
    ASSUME TablesInv, NEW h \in Conns, NEW l \in {"ended", "stray"},
           at[h] \in {"bad", "close", "exit", "stray"},
           l = "stray" => program = "proc",
           at' = [at EXCEPT ![h] = l],
           UNCHANGED <<program, slot, sock, scan, cache_index>>,
           program # "iter" => server' = server,
           program = "iter" => server' = "accept",
           desc' \in [Procs -> [Fds -> Entry]],
           \A p \in Procs : \A f \in Fds :
               desc'[p][f] = desc[p][f] \/ (desc'[p][f] = FreeFd /\ p = Proc(h) /\ (p # Server \/ f = sock[h])),
           at[h] # "stray" => desc'[Proc(h)][sock[h]] = FreeFd
    PROVE  TablesInv'
<1> USE DEF TablesInv
<1>1. /\ \A g \in Conns : at'[g] = IF g = h THEN l ELSE at[g]
      /\ HandlerTypes'
  BY DEF HandlerTypes, Labels, Talking, ServerRight
<1>2. Server \in Procs /\ 0 \in Fds /\ \A g \in Conns : Proc(g)' = Proc(g) /\ Proc(g) \in Procs
  BY FdsAreNumbers, ProcIsProc DEF Proc
<1>3. at[h] # "stray" => sock[h] \in Fds /\ desc[Proc(h)][sock[h]] = Fd("conn", h)
  BY DEF ConnRight, Peer, Talking
<1>4. at[h] = "stray" => program = "proc"
  BY DEF LabelsRight
<1>5. NextConn' = NextConn /\ InOrder'
  <2>1. \A g \in Conns : at'[g] # "new" <=> at[g] # "new"
    BY <1>1
  <2> QED
    BY <2>1, CountKept
<1>6. Running(h) /\ (program = "iter" => server = "busy")
  BY DEF Running, OneByOne
<1>7. ServerRight'
  <2>1. server # "setup"
    BY DEF ServerRight
  <2>2. desc[Server][0] = Fd("listen", Nobody) => desc'[Server][0] = desc[Server][0]
    <3>1. Proc(h) = Server => program # "proc"
      BY ConnsAreNumbers DEF Proc
    <3> QED
      BY <1>2, <1>3, <1>4, <3>1 DEF Fd
  <2>3. program = "proc" => \A f \in Fds : desc'[Server][f] = desc[Server][f]
    BY <1>2, ConnsAreNumbers DEF Proc
  <2> QED
    BY <1>5, <1>6, <2>1, <2>2, <2>3 DEF ServerRight
<1>8. OneByOne'
  <2>1. program = "iter" => \A g \in Conns : Running(g) => g = h
    BY <1>6 DEF OneByOne
  <2>2. program = "iter" => l = "ended"
    OBVIOUS
  <2>3. program = "iter" => \A g \in Conns : ~Running(g)'
    BY <1>1, <2>1, <2>2 DEF Running
  <2> QED
    BY <2>3 DEF OneByOne
<1>9. ASSUME NEW g \in Conns PROVE LabelsRight(g)' /\ ConnRight(g)'
  <2>1. LabelsRight(g) /\ ConnRight(g)
    OBVIOUS
  <2>2. LabelsRight(g)'
    BY <1>1, <2>1 DEF LabelsRight
  <2>3. CASE g = h
    BY <1>1, <2>2, <2>3 DEF ConnRight, Talking
  <2>4. CASE g # h
    <3>1. at'[g] = at[g] /\ sock'[g] = sock[g]
      BY <1>1, <2>4
    <3>2. \A f \in Fds : desc[Proc(g)][f] = Fd("conn", g) => desc'[Proc(g)][f] = Fd("conn", g)
      <4>1. CASE program = "proc"
        BY <1>2, <2>4, <4>1 DEF Proc
      <4>2. CASE program # "proc"
        BY <1>2, <1>3, <1>4, <2>4, <4>2 DEF Proc, Fd
      <4> QED
        BY <4>1, <4>2
    <3>3. at[g] = "start" => Proc(g) = Server
      BY <2>1 DEF LabelsRight, Proc
    <3>4. at[g] = "child" => Proc(g) = g /\ Proc(h) # g
      BY <2>1, <2>4 DEF LabelsRight, Proc
    <3>5. at[g] = "child" => desc'[g][0] = desc[g][0]
      BY <1>2, <3>4 DEF Procs
    <3> QED
      BY <1>2, <2>1, <2>2, <3>1, <3>2, <3>3, <3>5 DEF ConnRight, Peer
  <2> QED
    BY <2>3, <2>4
<1>10. ASSUME NEW p \in Procs, NEW f \in Fds PROVE EntryRight(p, f)'
  <2> DEFINE c == desc[p][f].of
  <2>1. EntryRight(p, f)
    OBVIOUS
  <2>2. CASE desc'[p][f] = FreeFd
    BY <2>2 DEF EntryRight, FreeFd
  <2>3. CASE desc'[p][f] = desc[p][f] /\ desc[p][f] # FreeFd
    <3>1. desc[p][f].kind = "conn" /\ c = h => p = Server /\ server \in {"fork", "forked"} /\ f = slot
      <4>1. desc[p][f].kind = "conn" /\ c = h =>
               \/ p = Proc(h) /\ f = sock[h] /\ at[h] # "stray"
               \/ p = Server /\ server \in {"fork", "forked"} /\ f = slot
        BY <2>1 DEF EntryRight, Talking
      <4> QED
        BY <2>3, <4>1
    <3>2. desc[p][f].kind = "listen" => p = Server \/ p # h
      BY <2>1 DEF EntryRight
    <3>3. p # Server /\ p # h => at'[p] = at[p]
      BY <1>1 DEF Procs
    <3>4. desc[p][f].kind = "file" =>
             \/ p = Server /\ program = "cached" /\ c = Nobody
             \/ /\ c \in Conns /\ p = Proc(c)
                /\ at'[c] \in {"head", "body", "find"} \/ cache_index[c] # -1
      <4>1. c = h => at[c] \notin {"head", "body", "find"}
        OBVIOUS
      <4> QED
        BY <1>1, <2>1, <4>1 DEF EntryRight
    <3>5. server \in {"fork", "forked"} => server' = server
      BY DEF ServerRight
    <3>6. desc[p][f].kind = "listen" => f = 0 /\ (p = Server \/ (program' = "proc" /\ at'[p] = "child"))
      BY <2>1, <3>2, <3>3 DEF EntryRight
    <3>7. desc[p][f].kind = "conn" =>
             /\ c \in Conns
             /\ \/ p = Proc(c) /\ at'[c] \in Talking \cup {"child"} /\ f = sock'[c]
                \/ p = Server /\ at'[c] = "start" /\ f = slot'
                \/ p = Server /\ server' \in {"fork", "forked"} /\ f = slot'
      BY <1>1, <2>1, <3>1, <3>5 DEF EntryRight
    <3> QED
      BY <1>2, <2>3, <3>4, <3>6, <3>7 DEF EntryRight
  <2> QED
    BY <2>2, <2>3
<1> QED
  BY <1>1, <1>5, <1>7, <1>8, <1>9, <1>10

--------------------------------------------------------------------------------
(* The kinds of steps: what the four programs do in the same way, told     *)
(* apart by how the state changes.                                         *)

Dies(p) == Exit(p) /\ UNCHANGED <<fixed, net, slot, sock, file, mutex, logged, cacheVars>>

Replies(h, from, items, next) ==
    /\ at[h] = from
    /\ Deliver(h, items)
    /\ Goto(h, next)
    /\ UNCHANGED <<fixed, loop, desc, sock, file, mutex, logged, cacheVars>>

After404 == IF program = "cached" THEN "log404" ELSE "close"
After200 == IF program = "cached" THEN "find" ELSE "body"
AfterBody == IF program = "cached" THEN "insert" ELSE IF program = "iter" THEN "close" ELSE "log"

SendsPage(h) ==
    /\ at[h] = "body"
    /\ Deliver(h, << Page(file[h], "all", file[h]) >>)
    /\ Goto(h, AfterBody)
    /\ desc' = [desc EXCEPT ![Proc(h)] = [f \in Fds |-> IF @[f] = Fd("file", h) THEN FreeFd ELSE @[f]]]
    /\ UNCHANGED <<fixed, loop, sock, file, mutex, logged, cacheVars>>

SendsCopy(h) ==
    Replies(h, "resend", << <<"200">>, Page(local_content[h][1], local_content[h][2],
                                            cache[cache_index[h]].size) >>, "release")

Logs(h) ==
    /\ program # "iter"
    /\ Log(h, IF program = "cached" THEN LoggedSize(h) ELSE file[h], IF program = "proc" THEN "exit" ELSE "close")
    /\ UNCHANGED cacheVars

Closes(h, l) ==
    /\ at[h] \in {"bad", "close", "exit", "stray"}
    /\ l \in {"ended", "stray"}
    /\ l = "stray" => at[h] = "bad" /\ program = "proc"
    /\ Goto(h, l)
    /\ program # "iter" => server' = server
    /\ program = "iter" => server' = "accept"
    /\ \/ CloseSock(h)
       \/ program = "proc" /\ desc' = [desc EXCEPT ![h] = [f \in Fds |-> FreeFd]]
    /\ UNCHANGED <<fixed, net, slot, sock, file, mutex, logged, cacheVars>>

Arrives ==
    /\ \/ program = "iter" /\ \E h \in Conns : IterAccept(h)
       \/ program \in {"thread", "cached"} /\ \E h \in Conns : ThreadAccept(h) \/ ThreadStart(h)
       \/ program = "proc" /\ \E h \in Conns : ProcAccept(h) \/ ChildStart(h)
       \/ program = "proc" /\ (ProcFork \/ ParentClose)
    /\ UNCHANGED cacheVars

(* The steps of a request up to the headers, in every program. *)
Asks(h) ==
    /\ \/ \E old \in {Names, {}} : Receive(h, old)
       \/ Discard(h)
       \/ Open(h)
    /\ UNCHANGED cacheVars

Searches(h) ==
    /\ program = "cached"
    /\ \/ FindCachedPage(h) \/ Hit(h) \/ DecrementRefCount(h) \/ AddPage(h)
       \/ StartEviction(h) \/ ShiftPage(h) \/ OverwriteLast(h)

Kinds(h) ==
    \/ Asks(h)
    \/ Replies(h, "absent", << <<"404">> >>, After404)
    \/ Replies(h, "head", << <<"200">> >>, After200)
    \/ SendsPage(h) \/ (program = "cached" /\ SendsCopy(h))
    \/ Logs(h) \/ Searches(h)
    \/ \E l \in {"ended", "stray"} : Closes(h, l)

LEMMA SendKinds ==
    ASSUME NEW h \in Conns, NEW from, NEW items, NEW next, at[h] = from, Send(h, items, next),
           UNCHANGED <<fixed, slot, sock, file, mutex, logged, cacheVars>>
    PROVE  Replies(h, from, items, next) \/ \E p \in Procs : Dies(p)
<1>1. CASE Deliver(h, items) /\ Goto(h, next) /\ UNCHANGED <<desc, server>>
  BY <1>1 DEF Replies, loop
<1>2. CASE BrokenPipe(h)
  BY <1>2, ProcIsProc DEF BrokenPipe, Dies
<1> QED
  BY <1>1, <1>2 DEF Send

LEMMA BodyKinds ==
    ASSUME NEW h \in Conns, Body(h, AfterBody), UNCHANGED cacheVars
    PROVE  SendsPage(h) \/ \E p \in Procs : Dies(p)
<1>1. CASE BrokenPipe(h)
  BY <1>1, ProcIsProc DEF BrokenPipe, Dies, Body
<1>2. CASE ~BrokenPipe(h)
  BY <1>2 DEF Body, SendsPage, loop
<1> QED
  BY <1>1, <1>2

LEMMA LoopKinds ==
    ASSUME Loop
    PROVE  (Setup /\ UNCHANGED cacheVars) \/ Arrives \/ \E p \in Procs : Dies(p)
<1>1. ASSUME AcceptFails \/ CreateFails \/ ForkFails, UNCHANGED cacheVars
      PROVE  \E p \in Procs : Dies(p)
  BY <1>1, ProcIsProc DEF AcceptFails, CreateFails, ForkFails, Dies, Procs
<1>2. CASE program = "iter" /\ IterLoop /\ UNCHANGED cacheVars
  BY <1>1, <1>2 DEF IterLoop, Arrives
<1>3. CASE program = "thread" /\ ThreadLoop /\ UNCHANGED cacheVars
  BY <1>1, <1>3 DEF ThreadLoop, Arrives
<1>4. CASE program = "cached" /\ CachedLoop
  BY <1>1, <1>4 DEF CachedLoop, CachedAccept, Arrives
<1>5. CASE program = "proc" /\ ProcLoop /\ UNCHANGED cacheVars
  BY <1>1, <1>5 DEF ProcLoop, Arrives
<1> QED
  BY <1>2, <1>3, <1>4, <1>5 DEF Loop

LEMMA StepKinds ==
    ASSUME NEW h \in Conns, Step(h)
    PROVE  Kinds(h) \/ Arrives \/ \E p \in Procs : Dies(p)
<1>1. ASSUME Absent(h, After404), UNCHANGED cacheVars
      PROVE  Kinds(h) \/ \E p \in Procs : Dies(p)
  BY <1>1, SendKinds DEF Absent, Kinds
<1>2. ASSUME Head200(h, After200), UNCHANGED cacheVars
      PROVE  Kinds(h) \/ \E p \in Procs : Dies(p)
  BY <1>2, SendKinds DEF Head200, Kinds
<1>3. ASSUME Body(h, AfterBody), UNCHANGED cacheVars
      PROVE  Kinds(h) \/ \E p \in Procs : Dies(p)
  <2>1. SendsPage(h) \/ \E p \in Procs : Dies(p)
    BY <1>3, BodyKinds
  <2> QED
    BY <2>1 DEF Kinds
<1>4. ASSUME Receive(h, Names) \/ Receive(h, {}) \/ Discard(h) \/ Open(h), UNCHANGED cacheVars
      PROVE  Kinds(h)
  BY <1>4 DEF Asks, Kinds
<1>5. CASE program = "iter" /\ IterStep(h) /\ UNCHANGED cacheVars
  <2>1. ASSUME IterClose(h) PROVE Kinds(h)
    <3>1. Closes(h, "ended")
      BY <1>5, <2>1 DEF IterClose, Closes
    <3> QED
      BY <3>1 DEF Kinds
  <2> QED
    BY <1>1, <1>2, <1>3, <1>4, <1>5, <2>1
       DEF IterStep, IterReceive, IterDiscard, IterOpen, IterAbsent, IterHead, IterBody, After404, After200, AfterBody
<1>6. ASSUME program \in {"thread", "cached"}, ThreadClose(h), UNCHANGED cacheVars PROVE Kinds(h)
  <2>1. Closes(h, "ended")
    BY <1>6 DEF ThreadClose, Closes, loop
  <2> QED
    BY <2>1 DEF Kinds
<1>7. CASE program = "thread" /\ ThreadStep(h) /\ UNCHANGED cacheVars
  <2>1. ASSUME ThreadLog(h) PROVE Kinds(h)
    BY <1>7, <2>1 DEF ThreadLog, Kinds, Logs
  <2>2. ASSUME ThreadStart(h) PROVE Arrives
    BY <1>7, <2>2 DEF Arrives
  <2> QED
    BY <1>1, <1>2, <1>3, <1>4, <1>6, <1>7, <2>1, <2>2
       DEF ThreadStep, ThreadReceive, ThreadDiscard, ThreadOpen, ThreadAbsent, ThreadHead, ThreadBody,
           After404, After200, AfterBody
<1>8. CASE program = "cached" /\ CachedStep(h)
  <2>1. ASSUME CachedLog(h) PROVE Kinds(h)
    BY <1>8, <2>1 DEF CachedLog, Kinds, Logs
  <2>2. ASSUME CachedStart(h) PROVE Arrives
    BY <1>8, <2>2 DEF CachedStart, Arrives
  <2>3. ASSUME SendCached(h) PROVE Kinds(h) \/ \E p \in Procs : Dies(p)
    BY <1>8, <2>3, SendKinds DEF SendCached, SendsCopy, Kinds
  <2>4. ASSUME FindCachedPage(h) \/ Hit(h) \/ DecrementRefCount(h) \/ AddPage(h)
               \/ StartEviction(h) \/ ShiftPage(h) \/ OverwriteLast(h)
        PROVE  Kinds(h)
    BY <1>8, <2>4 DEF Searches, Kinds
  <2>5. ASSUME CopyOverruns(h) PROVE \E p \in Procs : Dies(p)
    BY <2>5, ProcIsProc DEF CopyOverruns, Dies
  <2> QED
    BY <1>1, <1>2, <1>3, <1>4, <1>6, <1>8, <2>1, <2>2, <2>3, <2>4, <2>5
       DEF CachedStep, CachedReceive, CachedDiscard, CachedOpen, CachedAbsent, CachedHead, CachedBody, CachedClose,
           After404, After200, AfterBody
<1>9. CASE program = "proc" /\ ChildStep(h) /\ UNCHANGED cacheVars
  <2>1. ASSUME ChildLog(h) PROVE Kinds(h)
    BY <1>9, <2>1 DEF ChildLog, Kinds, Logs
  <2>2. ASSUME ChildStart(h) PROVE Arrives
    BY <1>9, <2>2 DEF Arrives
  <2>3. ASSUME ChildContinue(h) PROVE Kinds(h)
    <3>1. Closes(h, "stray")
      BY <1>9, <2>3 DEF ChildContinue, Closes, loop
    <3> QED
      BY <3>1 DEF Kinds
  <2>4. ASSUME ChildExit(h) PROVE Kinds(h)
    <3>1. Closes(h, "ended")
      BY <1>9, <2>4 DEF ChildExit, Closes, loop
    <3> QED
      BY <3>1 DEF Kinds
  <2> QED
    BY <1>1, <1>2, <1>3, <1>4, <1>9, <2>1, <2>2, <2>3, <2>4
       DEF ChildStep, ChildReceive, ChildDiscard, ChildOpen, ChildAbsent, ChildHead, ChildBody,
           After404, After200, AfterBody
<1> QED
  BY <1>5, <1>7, <1>8, <1>9 DEF Step

(* A step that relabels a handler and leaves the tables as they are. *)
LEMMA RelabelKeeps ==
    ASSUME TablesInv, NEW h \in Conns, NEW l \in Talking, Goto(h, l), at[h] \in Talking,
           UNCHANGED <<program, server, slot, sock, desc, scan>>,
           cache_index' = cache_index,
           l \in {"find", "hit", "resend", "release", "insert", "shift", "log404"} => program = "cached",
           l = "exit" => program = "proc",
           l = "log" => program # "iter",
           at[h] \in {"head", "body", "find"} => l \in {"head", "body", "find"}
    PROVE  TablesInv'
<1>1. scan' \in [Conns -> Nat] /\ cache_index' \in [Conns -> Nat \cup {-1}] /\ desc' \in [Procs -> [Fds -> Entry]]
  BY DEF TablesInv, HandlerTypes
<1>2. \A g \in Conns : cache_index[g] # -1 => program = "cached"
  BY DEF TablesInv, LabelsRight
<1>3. l \notin {"head", "body", "find"} /\ cache_index'[h] = -1 =>
        \A p \in Procs : \A f \in Fds : desc'[p][f].kind = "file" => desc'[p][f].of # h
  BY ConnsAreNumbers DEF TablesInv, EntryRight
<1> QED
  BY <1>1, <1>2, <1>3, MoveKeeps DEF Goto

LEMMA AsksKeeps ==
    ASSUME TablesInv, NEW h \in Conns, Asks(h)
    PROVE  TablesInv'
<1>1. UNCHANGED <<scan, cache_index>>
  BY DEF Asks, cacheVars
<1>2. ASSUME NEW old, Receive(h, old) PROVE TablesInv'
  <2>1. at[h] = "recv" /\ UNCHANGED <<program, server, slot, sock, desc>>
    BY <1>2 DEF Receive, fixed, loop
  <2>2. \E l \in {"bad", "open", "discard"} : Goto(h, l)
    BY <1>2 DEF Receive, Parsed
  <2> QED
    BY <1>1, <2>1, <2>2, RelabelKeeps DEF Talking
<1>3. CASE Discard(h)
  <2>1. at[h] = "discard" /\ UNCHANGED <<program, server, slot, sock, desc>> /\ Goto(h, "open")
    BY <1>3 DEF Discard, fixed, loop
  <2> QED
    BY <1>1, <2>1, RelabelKeeps DEF Talking
<1>4. CASE Open(h)
  <2>1. at[h] = "open" /\ UNCHANGED <<program, server, slot, sock>>
    BY <1>4 DEF Open, fixed, loop
  <2>2. CASE Goto(h, "absent") /\ UNCHANGED desc
    BY <1>1, <2>1, <2>2, RelabelKeeps DEF Talking
  <2>3. CASE Goto(h, "head") /\ FreeFds(Proc(h)) # {}
             /\ desc' = [desc EXCEPT ![Proc(h)][LowestFree(Proc(h))] = Fd("file", h)]
    <3>1. Proc(h) \in Procs
      BY ProcIsProc
    <3>2. LowestFree(Proc(h)) \in Fds /\ desc[Proc(h)][LowestFree(Proc(h))].kind = "free"
      BY <2>3, <3>1, LowestIsFree
    <3>3. Fd("file", h) \in Entry
      BY DEF Fd, Entry
    <3>4. /\ desc' \in [Procs -> [Fds -> Entry]]
          /\ \A p \in Procs : \A f \in Fds :
               \/ desc'[p][f] = desc[p][f]
               \/ desc[p][f].kind = "free" /\ p = Proc(h) /\ desc'[p][f] = Fd("file", h)
      BY <2>3, <3>1, <3>2, <3>3 DEF TablesInv, HandlerTypes
    <3>5. /\ scan' \in [Conns -> Nat] /\ cache_index' \in [Conns -> Nat \cup {-1}]
          /\ \A g \in Conns : cache_index[g] # -1 => cache_index'[g] # -1
          /\ \A g \in Conns : cache_index'[g] # -1 => program = "cached"
      BY <1>1 DEF TablesInv, HandlerTypes, LabelsRight
    <3>6. "head" \in Talking /\ "open" \in Talking /\ at' = [at EXCEPT ![h] = "head"]
      BY <2>3 DEF Talking, Goto
    <3> QED
      BY <2>1, <3>4, <3>5, <3>6, MoveKeeps
  <2> QED
    BY <1>4, <2>2, <2>3 DEF Open
<1> QED
  BY <1>2, <1>3, <1>4 DEF Asks

LEMMA RepliesKeep ==
    ASSUME TablesInv, NEW h \in Conns, NEW from \in Talking, NEW items, NEW l \in Talking, Replies(h, from, items, l),
           l \in {"find", "hit", "resend", "release", "insert", "shift", "log404"} => program = "cached",
           l \notin {"exit", "log"},
           from \in {"head", "body", "find"} => l \in {"head", "body", "find"}
    PROVE  TablesInv'
<1>1. /\ at[h] = from /\ UNCHANGED <<program, server, slot, sock, desc, scan>> /\ cache_index' = cache_index
      /\ Goto(h, l)
  BY DEF Replies, fixed, loop, cacheVars
<1> QED
  BY <1>1, RelabelKeeps

LEMMA SendsPageKeeps ==
    ASSUME TablesInv, NEW h \in Conns, SendsPage(h)
    PROVE  TablesInv'
<1>1. /\ at[h] = "body" /\ UNCHANGED <<program, server, slot, sock, scan, cache_index>>
      /\ at' = [at EXCEPT ![h] = AfterBody]
      /\ desc' = [desc EXCEPT ![Proc(h)] = [f \in Fds |-> IF @[f] = Fd("file", h) THEN FreeFd ELSE @[f]]]
  BY DEF SendsPage, Goto, fixed, loop, cacheVars
<1>2. /\ desc' \in [Procs -> [Fds -> Entry]]
      /\ \A p \in Procs : \A f \in Fds :
            desc'[p][f] = IF p = Proc(h) /\ desc[p][f] = Fd("file", h) THEN FreeFd ELSE desc[p][f]
  <2>1. Proc(h) \in Procs /\ FreeFd \in Entry
    BY ProcIsProc DEF FreeFd, Entry
  <2> QED
    BY <1>1, <2>1 DEF TablesInv, HandlerTypes
<1>3. /\ scan' \in [Conns -> Nat] /\ cache_index' \in [Conns -> Nat \cup {-1}]
      /\ \A g \in Conns : cache_index[g] # -1 => cache_index'[g] # -1
      /\ \A g \in Conns : cache_index'[g] # -1 => program = "cached"
  BY <1>1 DEF TablesInv, HandlerTypes, LabelsRight
<1>4. ASSUME cache_index'[h] = -1, NEW p \in Procs, NEW f \in Fds, desc'[p][f].kind = "file", desc'[p][f].of = h
      PROVE  FALSE
  <2>1. desc'[p][f] = desc[p][f] /\ EntryRight(p, f) /\ desc[p][f] \in Entry
    BY <1>2, <1>4 DEF FreeFd, TablesInv, HandlerTypes
  <2>2. p = Proc(h)
    BY <1>4, <2>1, ConnsAreNumbers DEF EntryRight
  <2>3. desc[p][f] = Fd("file", h)
    BY <1>4, <2>1 DEF Entry, Fd
  <2> QED
    BY <1>2, <1>4, <2>2, <2>3 DEF FreeFd
<1>5. AfterBody \in {"insert", "close", "log"} /\ "body" \in Talking /\ {"insert", "close", "log"} \subseteq Talking
      /\ (AfterBody = "insert" => program = "cached") /\ (AfterBody = "log" => program # "iter")
  BY DEF AfterBody, Talking
<1>6. \A p \in Procs : \A f \in Fds :
         desc'[p][f] = desc[p][f] \/ (desc[p][f].kind = "file" /\ desc'[p][f] = FreeFd)
  BY <1>2 DEF Fd
<1> DEFINE l == AfterBody
<1>7. l \in Talking /\ l \notin {"head", "body", "find", "hit", "resend", "release", "shift", "log404", "exit"}
  BY <1>5
<1> HIDE DEF l
<1> QED
  BY <1>1, <1>2, <1>3, <1>4, <1>5, <1>6, <1>7, MoveKeeps, ZenonT(40) DEF l

LEMMA LogsKeep ==
    ASSUME TablesInv, NEW h \in Conns, Logs(h)
    PROVE  TablesInv'
<1>1. /\ at[h] \in {"log", "log404"} /\ UNCHANGED <<program, server, slot, sock, desc, scan, cache_index>>
      /\ Goto(h, IF program = "proc" THEN "exit" ELSE "close")
  BY DEF Logs, Log, fixed, loop, cacheVars
<1> QED
  BY <1>1, RelabelKeeps DEF Talking

LEMMA SearchesKeep ==
    ASSUME TablesInv, NEW h \in Conns, Searches(h)
    PROVE  TablesInv'
<1> program = "cached"
  BY DEF Searches
<1>1. ASSUME UNCHANGED <<program, server, slot, sock, desc, scan, cache_index>>,
             NEW from \in {"hit", "release", "insert", "shift"}, NEW l \in {"resend", "log", "shift"},
             at[h] = from, Goto(h, l)
      PROVE  TablesInv'
  BY <1>1, RelabelKeeps DEF Talking
<1>2. CASE Hit(h)
  BY <1>1, <1>2 DEF Hit, fixed, loop
<1>3. CASE DecrementRefCount(h)
  BY <1>1, <1>3 DEF DecrementRefCount, fixed, loop
<1>4. CASE AddPage(h)
  BY <1>1, <1>4 DEF AddPage, fixed, loop
<1>5. CASE StartEviction(h)
  BY <1>1, <1>5 DEF StartEviction, fixed, loop
<1>6. CASE OverwriteLast(h)
  BY <1>1, <1>6 DEF OverwriteLast, fixed, loop
<1>7. CASE ShiftPage(h)
  BY <1>7, IdleKeeps DEF ShiftPage, httpVars, fixed, loop, TablesInv, HandlerTypes
<1>8. CASE FindCachedPage(h)
  <2>1. at[h] = "find" /\ UNCHANGED <<program, server, slot, sock, desc>>
    BY <1>8 DEF FindCachedPage, fixed, loop
  <2>2. CASE Goto(h, "body") /\ UNCHANGED <<cache_index, scan>>
    BY <2>1, <2>2, RelabelKeeps DEF Talking
  <2>3. CASE scan' = [scan EXCEPT ![h] = @ + 1] /\ UNCHANGED <<at, cache_index>>
    BY <2>1, <2>3, IdleKeeps DEF TablesInv, HandlerTypes
  <2>4. CASE cache_index' = [cache_index EXCEPT ![h] = scan[h]] /\ Goto(h, "hit") /\ UNCHANGED scan
    <3>1. /\ scan' \in [Conns -> Nat] /\ cache_index' \in [Conns -> Nat \cup {-1}] /\ cache_index'[h] # -1
          /\ \A g \in Conns : cache_index[g] # -1 => cache_index'[g] # -1
          /\ desc' \in [Procs -> [Fds -> Entry]]
      BY <2>1, <2>4 DEF TablesInv, HandlerTypes
    <3>2. "hit" \in Talking /\ "find" \in Talking /\ at' = [at EXCEPT ![h] = "hit"]
      BY <2>4 DEF Talking, Goto
    <3> QED
      BY <2>1, <3>1, <3>2, MoveKeeps
  <2> QED
    BY <1>8, <2>2, <2>3, <2>4 DEF FindCachedPage
<1> QED
  BY <1>2, <1>3, <1>4, <1>5, <1>6, <1>7, <1>8 DEF Searches

LEMMA ClosesKeeps ==
    ASSUME TablesInv, NEW h \in Conns, NEW l, Closes(h, l)
    PROVE  TablesInv'
<1>1. /\ at[h] \in {"bad", "close", "exit", "stray"} /\ l \in {"ended", "stray"}
      /\ l = "stray" => program = "proc"
      /\ at' = [at EXCEPT ![h] = l]
      /\ UNCHANGED <<program, slot, sock, scan, cache_index>>
      /\ program # "iter" => server' = server
      /\ program = "iter" => server' = "accept"
  BY DEF Closes, Goto, fixed, cacheVars
<1>2. Proc(h) \in Procs /\ (program = "proc" => Proc(h) = h) /\ FreeFd \in Entry /\ h # Server
  BY ProcIsProc, ConnsAreNumbers DEF Proc, FreeFd, Entry
<1>3. at[h] # "stray" => sock[h] \in Fds
  BY <1>1 DEF TablesInv, ConnRight, Talking
<1>4. /\ desc' \in [Procs -> [Fds -> Entry]]
      /\ \A p \in Procs : \A f \in Fds :
            desc'[p][f] = desc[p][f] \/ (desc'[p][f] = FreeFd /\ p = Proc(h) /\ (p # Server \/ f = sock[h]))
      /\ at[h] # "stray" => desc'[Proc(h)][sock[h]] = FreeFd
  <2>1. CASE CloseSock(h)
    <3>1. desc' = [desc EXCEPT ![Proc(h)][sock[h]] = FreeFd]
      BY <2>1 DEF CloseSock
    <3>2. CASE sock[h] \in Fds
      BY <1>2, <3>1, <3>2 DEF TablesInv, HandlerTypes
    <3>3. CASE sock[h] \notin Fds
      <4>1. at[h] = "stray"
        BY <1>3, <3>3
      <4>2. desc' = desc
        BY <1>2, <3>1, <3>3 DEF TablesInv, HandlerTypes
      <4> QED
        BY <4>1, <4>2 DEF TablesInv, HandlerTypes
    <3> QED
      BY <3>2, <3>3
  <2>2. CASE program = "proc" /\ desc' = [desc EXCEPT ![h] = [f \in Fds |-> FreeFd]]
    BY <1>2, <1>3, <2>2 DEF TablesInv, HandlerTypes
  <2> QED
    BY <2>1, <2>2 DEF Closes
<1> QED
  BY <1>1, <1>4, CloseKeeps

LEMMA TablesStep ==
    ASSUME TablesInv, NoLateStart, Next
    PROVE  TablesInv'
<1>1. CASE Setup /\ UNCHANGED cacheVars
  BY <1>1, SetupKeeps DEF cacheVars
<1>2. CASE Arrives
  BY <1>2, IterAcceptKeeps, ThreadAcceptKeeps, ProcAcceptKeeps, ForkKeeps, ParentCloseKeeps,
     ThreadStartKeeps, ChildStartKeeps DEF Arrives, cacheVars
<1>3. ASSUME NEW p \in Procs, Dies(p) PROVE TablesInv'
  BY <1>3, ExitKeeps DEF Dies, fixed, cacheVars
<1>4. CASE Clients
  BY <1>4, IdleKeeps DEF Clients, ClientLeaves, ClientStops, ClientReads, fixed, loop, cacheVars, TablesInv, HandlerTypes
<1>5. ASSUME NEW h \in Conns, Kinds(h) PROVE TablesInv'
  <2>1. CASE Replies(h, "absent", << <<"404">> >>, After404)
    BY <2>1, RepliesKeep DEF After404, Talking
  <2>2. CASE Replies(h, "head", << <<"200">> >>, After200)
    BY <2>2, RepliesKeep DEF After200, Talking
  <2>3. CASE program = "cached" /\ SendsCopy(h)
    <3> DEFINE items == << <<"200">>, Page(local_content[h][1], local_content[h][2], cache[cache_index[h]].size) >>
    <3>1. Replies(h, "resend", items, "release")
      BY <2>3 DEF SendsCopy
    <3> HIDE DEF items
    <3> QED
      BY <2>3, <3>1, RepliesKeep DEF Talking
  <2> QED
    BY <1>5, <2>1, <2>2, <2>3, AsksKeeps, SendsPageKeeps, LogsKeep, SearchesKeep, ClosesKeeps DEF Kinds
<1>6. ASSUME NEW h \in Conns, Step(h) PROVE TablesInv'
  BY <1>2, <1>3, <1>5, <1>6, StepKinds
<1>7. CASE Loop
  BY <1>1, <1>2, <1>3, <1>7, LoopKinds
<1> QED
  BY <1>4, <1>6, <1>7 DEF Next

LEMMA TablesInit ==
    ASSUME Init
    PROVE  TablesInv
<1>1. /\ program \in Programs
      /\ at = [h \in Conns |-> "new"] /\ sock = [h \in Conns |-> Nobody] /\ slot = Nobody
      /\ scan = [h \in Conns |-> 0] /\ cache_index = [h \in Conns |-> -1]
  BY DEF Init, HttpInit, CacheInit
<1>2. /\ server \in {"setup", "accept"}
      /\ desc \in [Procs -> [Fds -> Entry]]
      /\ server = "accept" => desc[Server][0] = Fd("listen", Nobody)
      /\ \A p \in Procs : \A f \in Fds :
            \/ desc[p][f] = FreeFd
            \/ p = Server /\ f = 0 /\ desc[p][f] = Fd("listen", Nobody)
            \/ p = Server /\ program = "cached" /\ desc[p][f] = Fd("file", Nobody)
  <2>1. FreeFd \in Entry /\ Fd("listen", Nobody) \in Entry /\ Fd("file", Nobody) \in Entry
    BY DEF FreeFd, Entry, Fd
  <2>2. 0 \in Fds /\ Server \in Procs
    BY FdsAreNumbers DEF Procs
  <2>3. CASE ColdStart
    BY <2>1, <2>3 DEF ColdStart
  <2>4. CASE program = "cached" /\ WarmStart
    <3> DEFINE Warm(n, p, f) == CASE p = Server /\ f = 0 -> Fd("listen", Nobody)
                                  [] p = Server /\ f \in 1 .. n -> Fd("file", Nobody)
                                  [] OTHER -> FreeFd
    <3>1. PICK n \in Leaks : desc = [p \in Procs |-> [f \in Fds |-> Warm(n, p, f)]]
      BY <2>4 DEF WarmStart
    <3>2. \A p \in Procs : \A f \in Fds :
            \/ Warm(n, p, f) = FreeFd
            \/ p = Server /\ f = 0 /\ Warm(n, p, f) = Fd("listen", Nobody)
            \/ p = Server /\ f # 0 /\ Warm(n, p, f) = Fd("file", Nobody)
      <4> SUFFICES ASSUME NEW p \in Procs, NEW f \in Fds
                   PROVE  \/ Warm(n, p, f) = FreeFd
                          \/ p = Server /\ f = 0 /\ Warm(n, p, f) = Fd("listen", Nobody)
                          \/ p = Server /\ f # 0 /\ Warm(n, p, f) = Fd("file", Nobody)
        OBVIOUS
      <4>1. 0 \notin 1 .. n
        BY CacheAssumption, HttpAssumption
      <4>2. CASE p = Server /\ f = 0
        BY <4>1, <4>2
      <4>3. CASE p = Server /\ f \in 1 .. n
        BY <4>1, <4>3
      <4>4. CASE ~(p = Server /\ f = 0) /\ ~(p = Server /\ f \in 1 .. n)
        BY <4>4
      <4> QED
        BY <4>2, <4>3, <4>4
    <3>3. Warm(n, Server, 0) = Fd("listen", Nobody)
      BY CacheAssumption, HttpAssumption
    <3> HIDE DEF Warm
    <3>4. \A p \in Procs : \A f \in Fds : Warm(n, p, f) \in Entry /\ desc[p][f] = Warm(n, p, f)
      BY <2>1, <3>1, <3>2
    <3>5. server = "accept" /\ desc \in [Procs -> [Fds -> Entry]]
      BY <2>4, <3>1, <3>4 DEF WarmStart
    <3> QED
      BY <2>2, <2>4, <3>2, <3>3, <3>4, <3>5
  <2> QED
    BY <2>3, <2>4 DEF Init
<1>3. HandlerTypes
  BY <1>1, <1>2 DEF HandlerTypes, Labels
<1>4. InOrder
  <2>1. 0 \in 0 .. NConns /\ \A h \in Conns : at[h] # "new" <=> h <= 0
    BY <1>1, HttpAssumption DEF Conns
  <2> QED
    BY <2>1 DEF InOrder
<1>5. ServerRight /\ OneByOne
  BY <1>1, <1>2 DEF ServerRight, OneByOne, Running
<1>6. \A h \in Conns : LabelsRight(h) /\ ConnRight(h)
  BY <1>1 DEF LabelsRight, ConnRight, Talking
<1>7. \A p \in Procs : \A f \in Fds : EntryRight(p, f)
  BY <1>2 DEF EntryRight, FreeFd, Fd
<1> QED
  BY <1>3, <1>4, <1>5, <1>6, <1>7 DEF TablesInv

LEMMA TablesAlways ==
    ASSUME NoLateStart
    PROVE  Spec => []TablesInv
<1>1. Init => TablesInv
  BY TablesInit
<1>2. TablesInv /\ [Next]_vars => TablesInv'
  <2> SUFFICES ASSUME TablesInv, [Next]_vars PROVE TablesInv'
    OBVIOUS
  <2>1. CASE UNCHANGED vars
    BY <2>1, IdleKeeps DEF vars, httpVars, fixed, loop, cacheVars, TablesInv, HandlerTypes
  <2> QED
    BY <2>1, TablesStep
<1> QED
  BY <1>1, <1>2, PTL DEF Spec

(* No process of any of the four servers keeps a descriptor it has no use  *)
(* for (close in each client_function and in the loop of server_proc.c).   *)
THEOREM NothingIsLeftOpen ==
    ASSUME NoLateStart
    PROVE  Spec => []NothingLeftOpen
<1>1. TablesInv => NothingLeftOpen
  <2> SUFFICES ASSUME TablesInv, NEW p \in Procs, NEW f \in Fds
               PROVE  LET entry == desc[p][f]
                      IN CASE entry.kind = "conn" ->
                                \/ p = Proc(entry.of) /\ Running(entry.of)
                                \/ p = Server /\ server \in {"fork", "forked"} /\ f = slot
                           [] entry.kind = "file" ->
                                \/ p = Server /\ program = "cached" /\ entry.of = Nobody
                                \/ p = Proc(entry.of) /\ (Running(entry.of) \/ cache_index[entry.of] # -1)
                           [] OTHER -> TRUE
    BY DEF NothingLeftOpen
  <2> DEFINE c == desc[p][f].of
  <2>1. EntryRight(p, f)
    BY DEF TablesInv
  <2>2. ASSUME c \in Conns, at[c] \in Talking \cup {"start", "child"} PROVE Running(c)
    BY <2>2 DEF Talking, Running
  <2>3. c \in Conns /\ at[c] = "start" => Proc(c) = Server
    BY DEF TablesInv, LabelsRight, Proc
  <2>4. desc[p][f].kind = "conn" =>
           \/ p = Proc(c) /\ Running(c)
           \/ p = Server /\ server \in {"fork", "forked"} /\ f = slot
    BY <2>1, <2>2, <2>3 DEF EntryRight
  <2>5. desc[p][f].kind = "file" =>
           \/ p = Server /\ program = "cached" /\ c = Nobody
           \/ p = Proc(c) /\ (Running(c) \/ cache_index[c] # -1)
    BY <2>1, <2>2 DEF EntryRight, Talking
  <2> QED
    BY <2>4, <2>5
<1> QED
  BY <1>1, TablesAlways, PTL

(* Nothing a client does ends server_proc.c: whenever accept fails the     *)
(* server still listens and has a descriptor left, because the parent      *)
(* closes the connection of each child.                                    *)
THEOREM ProcServerStays ==
    ASSUME NoLateStart
    PROVE  Spec => ProcServerSurvives
<1>1. ASSUME TablesInv, [Next]_vars, program = "proc", server' = "dead", server # "dead"
      PROVE  \/ server = "setup"
             \/ server = "fork" /\ Cardinality(Children) = MaxProcs
             \/ server = "accept" /\ Listening /\ FreeFds(Server) # {}
  <2>1. server = "accept" => Listening /\ FreeFds(Server) # {}
    <3> SUFFICES ASSUME server = "accept" PROVE Listening /\ FreeFds(Server) # {}
      OBVIOUS
    <3>1. Listening
      BY <1>1 DEF TablesInv, ServerRight, Listening, Fd
    <3>2. Server \in Procs /\ 1 \in Fds
      BY FdsAreNumbers DEF Procs
    <3>3. EntryRight(Server, 1) /\ desc[Server][1] \in Entry
      BY <1>1, <3>2 DEF TablesInv, HandlerTypes
    <3>4. \A c \in Conns : at[c] # "start" /\ Proc(c) # Server
      BY <1>1, ConnsAreNumbers DEF TablesInv, LabelsRight, Proc
    <3>5. desc[Server][1].kind = "free"
      BY <1>1, <3>3, <3>4 DEF EntryRight, Entry
    <3> QED
      BY <3>1, <3>2, <3>5 DEF FreeFds
  <2>2. ~UNCHANGED vars
    BY <1>1 DEF vars, httpVars, loop
  <2>3. \A h \in Conns : ~Step(h)
    <3> SUFFICES ASSUME NEW h \in Conns, ChildStep(h) PROVE server' = server
      BY <1>1 DEF Step
    <3>1. Proc(h) # Server
      BY <1>1, ConnsAreNumbers DEF Proc
    <3>2. \A items, next : Send(h, items, next) => server' = server
      BY <3>1 DEF Send, BrokenPipe, Exit
    <3>3. \A next : Body(h, next) => server' = server
      BY <3>1 DEF Body, BrokenPipe, Exit
    <3> QED
      BY <3>2, <3>3 DEF ChildStep, ChildStart, ChildReceive, Receive, ChildDiscard, Discard, ChildOpen, Open,
                        ChildAbsent, Absent, ChildHead, Head200, ChildBody, ChildLog, Log, ChildContinue, ChildExit, loop
  <2>4. ~Clients
    BY <1>1 DEF Clients, ClientLeaves, ClientStops, ClientReads, loop
  <2>5. ProcLoop
    BY <1>1, <2>2, <2>3, <2>4 DEF Next, Loop
  <2> QED
    BY <1>1, <2>1, <2>5 DEF ProcLoop, Setup, AcceptFails, ProcFork, ForkFails, ParentClose, ProcAccept
<1>2. TablesInv /\ [Next]_vars =>
        [program = "proc" /\ server' = "dead" /\ server # "dead" =>
            \/ server = "setup"
            \/ server = "fork" /\ Cardinality(Children) = MaxProcs
            \/ server = "accept" /\ Listening /\ FreeFds(Server) # {}]_vars
  BY <1>1
<1> QED
  BY <1>2, TablesAlways, PTL DEF Spec, ProcServerSurvives

--------------------------------------------------------------------------------
(* The cache. *)

(* Connections that arrive: the handler that moves has not asked yet. *)
LEMMA ArrivesMoves ==
    ASSUME TablesInv, Arrives
    PROVE  /\ UNCHANGED <<program, request, starved, unread, gone, stuck, reply, file, mutex, logged>> /\ UNCHANGED cacheVars
           /\ server' = "dead" <=> server = "dead"
           /\ \A g \in Conns : \/ at'[g] = at[g]
                               \/ at[g] \in {"new", "start", "child"} /\ at'[g] \in {"start", "child", "recv"}
<1> USE DEF TablesInv
<1>1. UNCHANGED cacheVars
  BY DEF Arrives
<1>2. ASSUME NEW h \in Conns, at[h] \in {"new", "start", "child"}, NEW l \in {"start", "child", "recv"}, Goto(h, l)
      PROVE  \A g \in Conns : \/ at'[g] = at[g]
                              \/ at[g] \in {"new", "start", "child"} /\ at'[g] \in {"start", "child", "recv"}
  BY <1>2 DEF Goto, HandlerTypes
<1>3. ASSUME NEW h \in Conns, IterAccept(h)
      PROVE  UNCHANGED <<fixed, net, file, mutex, logged>> /\ server # "dead" /\ server' # "dead" /\ at[h] = "new" /\ Goto(h, "recv")
  BY <1>3, AcceptGives DEF IterAccept
<1>4. ASSUME NEW h \in Conns, ThreadAccept(h)
      PROVE  UNCHANGED <<fixed, net, file, mutex, logged>> /\ server # "dead" /\ server' # "dead" /\ at[h] = "new" /\ Goto(h, "start")
  BY <1>4, AcceptGives DEF ThreadAccept
<1>5. ASSUME NEW h \in Conns, ProcAccept(h)
      PROVE  UNCHANGED <<fixed, net, file, mutex, logged>> /\ server # "dead" /\ server' # "dead" /\ UNCHANGED at
  BY <1>5, AcceptGives DEF ProcAccept
<1>6. ASSUME NEW h \in Conns, ThreadStart(h)
      PROVE  UNCHANGED <<fixed, net, file, mutex, logged>> /\ server' = server /\ at[h] = "start" /\ Goto(h, "recv")
  BY <1>6 DEF ThreadStart, loop
<1>7. ASSUME NEW h \in Conns, ChildStart(h)
      PROVE  UNCHANGED <<fixed, net, file, mutex, logged>> /\ server' = server /\ at[h] = "child" /\ Goto(h, "recv")
  BY <1>7 DEF ChildStart, loop
<1>8. ASSUME ProcFork
      PROVE  /\ UNCHANGED <<fixed, net, file, mutex, logged>> /\ server # "dead" /\ server' # "dead"
             /\ NextConn \in Conns /\ at[NextConn] = "new" /\ Goto(NextConn, "child")
  BY <1>8, NextIsNew DEF ProcFork, ServerRight
<1>9. ASSUME ParentClose
      PROVE  UNCHANGED <<fixed, net, file, mutex, logged>> /\ server # "dead" /\ server' # "dead" /\ UNCHANGED at
  BY <1>9 DEF ParentClose
<1> DEFINE Moves == /\ UNCHANGED <<fixed, net, file, mutex, logged>>
                    /\ server' = "dead" <=> server = "dead"
                    /\ \A g \in Conns : \/ at'[g] = at[g]
                                        \/ at[g] \in {"new", "start", "child"} /\ at'[g] \in {"start", "child", "recv"}
<1>10. ASSUME NEW h \in Conns, IterAccept(h) PROVE Moves
  BY <1>2, <1>3, <1>10
<1>11. ASSUME NEW h \in Conns, ThreadAccept(h) PROVE Moves
  BY <1>2, <1>4, <1>11
<1>12. ASSUME NEW h \in Conns, ProcAccept(h) PROVE Moves
  BY <1>5, <1>12
<1>13. ASSUME NEW h \in Conns, ThreadStart(h) PROVE Moves
  BY <1>2, <1>6, <1>13
<1>14. ASSUME NEW h \in Conns, ChildStart(h) PROVE Moves
  BY <1>2, <1>7, <1>14
<1>15. ASSUME ProcFork PROVE Moves
  BY <1>2, <1>8, <1>15
<1>16. ASSUME ParentClose PROVE Moves
  BY <1>9, <1>16
<1> HIDE DEF Moves
<1>17. Moves
  BY <1>10, <1>11, <1>12, <1>13, <1>14, <1>15, <1>16 DEF Arrives
<1> QED
  BY <1>1, <1>17 DEF Moves, fixed, net

(* The steps that leave the cache alone move one handler among the labels  *)
(* before it searched, or after it has used what it found, or kill it.     *)
LEMMA CacheFrame ==
    ASSUME CacheInv, UNCHANGED cacheVars, UNCHANGED <<mutex, request>>,
           unread' \in [Conns -> {"all", "rest", "none"}], gone' \in [Conns -> BOOLEAN],
           file' \in [Conns -> Names \cup {"bad", "none"}],
           \A g \in Conns :
               \/ at'[g] = at[g] /\ file'[g] = file[g]
               \/ at'[g] = "killed" /\ file'[g] = file[g]
               \/ /\ cache_index[g] = -1 /\ at'[g] \notin {"hit", "resend", "release", "shift"}
                  /\ FilesFit(at'[g], file'[g])
               \/ /\ cache_index[g] # -1 /\ file'[g] = file[g]
                  /\ <<at[g], at'[g]>> \in {<<"resend", "release">>, <<"log", "close">>, <<"close", "ended">>}
    PROVE  CacheInv'
<1> USE DEF CacheInv
<1>1. CacheTypes' /\ Filled' /\ Moving'
  BY DEF CacheTypes, Filled, Moving, cacheVars
<1>2. ASSUME NEW g \in Conns PROVE FoundRight(g)' /\ StaleRight(g)'
  <2>1. FoundRight(g) /\ StaleRight(g) /\ UNCHANGED cacheVars /\ UNCHANGED mutex
    OBVIOUS
  <2>2. CASE at'[g] = at[g] /\ file'[g] = file[g]
    BY <2>1, <2>2 DEF FoundRight, StaleRight, Running, cacheVars
  <2>3. CASE at'[g] = "killed" /\ file'[g] = file[g]
    BY <2>1, <2>3 DEF FoundRight, StaleRight, FilesFit, Running, cacheVars
  <2>4. CASE /\ cache_index[g] = -1 /\ at'[g] \notin {"hit", "resend", "release", "shift"}
             /\ FilesFit(at'[g], file'[g])
    BY <2>1, <2>4 DEF FoundRight, StaleRight, cacheVars
  <2>5. CASE /\ cache_index[g] # -1 /\ file'[g] = file[g]
             /\ <<at[g], at'[g]>> \in {<<"resend", "release">>, <<"log", "close">>, <<"close", "ended">>}
    <3>1. \/ at[g] = "resend" /\ at'[g] = "release"
          \/ at[g] = "log" /\ at'[g] = "close"
          \/ at[g] = "close" /\ at'[g] = "ended"
      BY <2>5
    <3>2. FilesFit(at'[g], file'[g])
      BY <2>1, <2>5, <3>1 DEF FoundRight, FilesFit
    <3>3. FoundRight(g)'
      BY <2>1, <2>5, <3>1, <3>2 DEF FoundRight, cacheVars
    <3>4. StaleRight(g)'
      BY <2>1, <2>5, <3>1 DEF StaleRight, Running, cacheVars
    <3> QED
      BY <3>3, <3>4
  <2> QED
    BY <2>2, <2>3, <2>4, <2>5
<1> QED
  BY <1>1, <1>2

LEMMA FilesAreNames ==
    /\ Files \subseteq Names /\ "bad" \notin Names
    /\ \A r \in Requests : r.file # "silent" => r.file \in Names \cup {"bad"} /\ Cut[r.file] \subseteq Names
  BY HttpAssumption DEF Names

(* What a request may be understood as: what the client has sent, unless   *)
(* only a part of it came or the client has left.                          *)
LEMMA ReceiveReads ==
    ASSUME TablesInv, CacheInv, NEW h \in Conns, NEW old \in {Names, {}}, Receive(h, old)
    PROVE  /\ at[h] = "recv" /\ Peer(h) = Fd("conn", h)
           /\ \E name \in Names \cup {"bad"} :
                /\ file' = [file EXCEPT ![h] = name]
                /\ gone[h] \/ name = request[h].file \/ unread'[h] = "rest"
                /\ IF name = "bad" THEN Goto(h, "bad") ELSE Goto(h, "open") \/ Goto(h, "discard")
           /\ UNCHANGED <<program, request, starved, gone, stuck, reply, server, slot, desc, sock, mutex, logged>>
           /\ unread' \in [Conns -> {"all", "rest", "none"}]
           /\ \A g \in Conns : unread'[g] = unread[g] \/ g = h
<1>1. at[h] = "recv" /\ Peer(h) = Fd("conn", h)
  BY DEF Receive, TablesInv, ConnRight, Talking
<1>2. Peer(h).kind = "conn" /\ Peer(h).of = h
  BY <1>1 DEF Fd
<1>3. UNCHANGED <<program, request, starved, gone, stuck, reply, server, slot, desc, sock, mutex, logged>>
  BY DEF Receive, fixed, loop
<1>4. /\ \A v \in {"all", "rest", "none"} :
              unread' = [unread EXCEPT ![h] = v] =>
                  /\ unread' \in [Conns -> {"all", "rest", "none"}] /\ unread'[h] = v
                  /\ \A g \in Conns : unread'[g] = unread[g] \/ g = h
      /\ UNCHANGED unread =>
              /\ unread' \in [Conns -> {"all", "rest", "none"}]
              /\ \A g \in Conns : unread'[g] = unread[g] \/ g = h
  BY DEF CacheInv, CacheTypes
<1> DEFINE Reads(name) == /\ file' = [file EXCEPT ![h] = name]
                          /\ gone[h] \/ name = request[h].file \/ unread'[h] = "rest"
                          /\ IF name = "bad" THEN Goto(h, "bad") ELSE Goto(h, "open") \/ Goto(h, "discard")
           Sent == unread[h] = "all" /\ request[h].file # "silent"
<1>5. ASSUME request[h].file # "silent"
      PROVE  request[h].file \in Names \cup {"bad"} /\ Cut[request[h].file] \subseteq Names
  BY <1>5, FilesAreNames DEF CacheInv, CacheTypes
<1>6. CASE /\ Sent
           /\ unread' = [unread EXCEPT ![h] = "none"]
           /\ Parsed(h, request[h].file, IF request[h].size = "short" THEN "open" ELSE "discard")
  <2>1. Reads(request[h].file)
    BY <1>6 DEF Parsed
  <2> QED
    BY <1>1, <1>3, <1>4, <1>5, <1>6, <2>1
<1>7. CASE /\ Sent
           /\ unread' = [unread EXCEPT ![h] = "rest"]
           /\ \E name \in {request[h].file, "bad"} \cup Cut[request[h].file] \cup old : Parsed(h, name, "open")
  <2>1. PICK name \in {request[h].file, "bad"} \cup Cut[request[h].file] \cup old : Parsed(h, name, "open")
    BY <1>7
  <2>2. name \in Names \cup {"bad"}
    BY <1>5, <1>7, <2>1
  <2>3. Reads(name)
    BY <1>4, <1>7, <2>1 DEF Parsed
  <2> QED
    BY <1>1, <1>3, <1>4, <1>7, <2>2, <2>3
<1>8. CASE /\ ~Sent /\ gone[h]
           /\ \E name \in {"bad"} \cup old : Parsed(h, name, "open")
           /\ UNCHANGED unread
  <2>1. PICK name \in Names \cup {"bad"} : Parsed(h, name, "open")
    BY <1>8
  <2>2. Reads(name)
    BY <1>8, <2>1 DEF Parsed
  <2> QED
    BY <1>1, <1>3, <1>4, <1>8, <2>2
<1> QED
  BY <1>2, <1>6, <1>7, <1>8 DEF Receive

LEMMA CacheAsks ==
    ASSUME TablesInv, CacheInv, NEW h \in Conns, Asks(h)
    PROVE  CacheInv'
<1>1. UNCHANGED cacheVars
  BY DEF Asks
<1>2. ASSUME NEW l, Goto(h, l) PROVE \A g \in Conns : at'[g] = IF g = h THEN l ELSE at[g]
  BY <1>2 DEF Goto, TablesInv, HandlerTypes
<1>3. at[h] \in {"recv", "discard", "open"} => cache_index[h] = -1
  BY DEF CacheInv, FoundRight
<1>4. ASSUME NEW old \in {Names, {}}, Receive(h, old)
      PROVE  CacheInv'
  <2>1. PICK name \in Names \cup {"bad"} :
              /\ file' = [file EXCEPT ![h] = name]
              /\ IF name = "bad" THEN Goto(h, "bad") ELSE Goto(h, "open") \/ Goto(h, "discard")
    BY <1>4, ReceiveReads
  <2>2. file' \in [Conns -> Names \cup {"bad", "none"}] /\ file'[h] = name
        /\ \A g \in Conns : g # h => file'[g] = file[g]
    BY <2>1 DEF CacheInv, CacheTypes
  <2>3. /\ at[h] = "recv" /\ UNCHANGED <<mutex, request>>
        /\ unread' \in [Conns -> {"all", "rest", "none"}] /\ gone' \in [Conns -> BOOLEAN]
    BY <1>4, ReceiveReads DEF CacheInv, CacheTypes
  <2>4. \A g \in Conns : g # h => at'[g] = at[g]
    BY <1>2, <2>1
  <2>5. at'[h] \notin {"hit", "resend", "release", "shift"} /\ FilesFit(at'[h], file'[h])
    BY <1>2, <2>1, <2>2 DEF FilesFit
  <2> QED
    BY <1>1, <1>3, <2>2, <2>3, <2>4, <2>5, CacheFrame
<1>5. CASE Discard(h) \/ Open(h)
  <2>1. UNCHANGED <<mutex, request, file, unread, gone>> /\ at[h] \in {"discard", "open"}
    BY <1>5 DEF Discard, Open, fixed, net
  <2>2. \E l \in {"open", "head", "absent"} : Goto(h, l) /\ (l = "head" => file[h] \in Files)
    BY <1>5 DEF Discard, Open
  <2>3. file[h] \in Names
    BY <2>1 DEF CacheInv, FoundRight, FilesFit
  <2>4. \A g \in Conns : g # h => at'[g] = at[g]
    BY <1>2, <2>2
  <2>5. at'[h] \notin {"hit", "resend", "release", "shift"} /\ FilesFit(at'[h], file'[h])
    BY <1>2, <2>1, <2>2, <2>3 DEF FilesFit
  <2>6. /\ file' \in [Conns -> Names \cup {"bad", "none"}]
        /\ unread' \in [Conns -> {"all", "rest", "none"}] /\ gone' \in [Conns -> BOOLEAN]
    BY <2>1 DEF CacheInv, CacheTypes
  <2> QED
    BY <1>1, <1>3, <2>1, <2>4, <2>5, <2>6, CacheFrame
<1> QED
  BY <1>4, <1>5 DEF Asks

(* Handler h gets another label, and file, the mutex and what clients do   *)
(* stay the same.                                                          *)
LEMMA CacheRelabel ==
    ASSUME TablesInv, CacheInv, NEW h \in Conns, NEW l, Goto(h, l),
           UNCHANGED cacheVars, UNCHANGED <<mutex, request, file, unread, gone>>,
           \/ /\ cache_index[h] = -1 /\ l \notin {"hit", "resend", "release", "shift"}
              /\ FilesFit(l, file[h])
           \/ /\ cache_index[h] # -1
              /\ <<at[h], l>> \in {<<"resend", "release">>, <<"log", "close">>, <<"close", "ended">>}
    PROVE  CacheInv'
<1>1. \A g \in Conns : at'[g] = IF g = h THEN l ELSE at[g]
  BY DEF Goto, TablesInv, HandlerTypes
<1>2. /\ file' \in [Conns -> Names \cup {"bad", "none"}]
      /\ unread' \in [Conns -> {"all", "rest", "none"}] /\ gone' \in [Conns -> BOOLEAN]
  BY DEF CacheInv, CacheTypes
<1>3. \A g \in Conns :
         \/ at'[g] = at[g] /\ file'[g] = file[g]
         \/ /\ cache_index[g] = -1 /\ at'[g] \notin {"hit", "resend", "release", "shift"}
            /\ FilesFit(at'[g], file'[g])
         \/ /\ cache_index[g] # -1 /\ file'[g] = file[g]
            /\ <<at[g], at'[g]>> \in {<<"resend", "release">>, <<"log", "close">>, <<"close", "ended">>}
  <2>1. ASSUME NEW g \in Conns, g # h PROVE at'[g] = at[g] /\ file'[g] = file[g]
    BY <1>1, <2>1
  <2>2. at'[h] = l /\ file'[h] = file[h]
    BY <1>1
  <2> QED
    BY <2>1, <2>2
<1> QED
  BY <1>2, <1>3, CacheFrame

LEMMA CacheReplies ==
    ASSUME TablesInv, CacheInv, NEW h \in Conns,
           \/ Replies(h, "absent", << <<"404">> >>, After404)
           \/ Replies(h, "head", << <<"200">> >>, After200)
           \/ SendsPage(h)
           \/ SendsCopy(h)
           \/ Logs(h)
           \/ \E l \in {"ended", "stray"} : Closes(h, l)
    PROVE  CacheInv'
<1>1. FoundRight(h)
  BY DEF CacheInv
<1>2. CASE Replies(h, "absent", << <<"404">> >>, After404)
  <2>1. /\ at[h] = "absent" /\ Goto(h, After404)
        /\ UNCHANGED cacheVars /\ UNCHANGED <<mutex, request, file, unread, gone>>
    BY <1>2 DEF Replies, Deliver, fixed, cacheVars
  <2>2. cache_index[h] = -1 /\ After404 \notin {"hit", "resend", "release", "shift"} /\ FilesFit(After404, file[h])
    BY <1>1, <2>1 DEF FoundRight, FilesFit, After404
  <2> QED
    BY <2>1, <2>2, CacheRelabel
<1>3. CASE Replies(h, "head", << <<"200">> >>, After200)
  <2>1. /\ at[h] = "head" /\ Goto(h, After200)
        /\ UNCHANGED cacheVars /\ UNCHANGED <<mutex, request, file, unread, gone>>
    BY <1>3 DEF Replies, Deliver, fixed, cacheVars
  <2>2. cache_index[h] = -1 /\ After200 \notin {"hit", "resend", "release", "shift"} /\ FilesFit(After200, file[h])
    BY <1>1, <2>1 DEF FoundRight, FilesFit, After200
  <2> QED
    BY <2>1, <2>2, CacheRelabel
<1>4. CASE SendsPage(h)
  <2>1. /\ at[h] = "body" /\ Goto(h, AfterBody)
        /\ UNCHANGED cacheVars /\ UNCHANGED <<mutex, request, file, unread, gone>>
    BY <1>4 DEF SendsPage, Deliver, fixed, cacheVars
  <2>2. cache_index[h] = -1 /\ AfterBody \notin {"hit", "resend", "release", "shift"} /\ FilesFit(AfterBody, file[h])
    BY <1>1, <2>1 DEF FoundRight, FilesFit, AfterBody
  <2> QED
    BY <2>1, <2>2, CacheRelabel
<1>5. CASE SendsCopy(h)
  <2>1. /\ at[h] = "resend" /\ Goto(h, "release")
        /\ UNCHANGED cacheVars /\ UNCHANGED <<mutex, request, file, unread, gone>>
    BY <1>5 DEF SendsCopy, Replies, Deliver, fixed, cacheVars
  <2>2. cache_index[h] # -1
    BY <1>1, <2>1 DEF FoundRight
  <2> QED
    BY <2>1, <2>2, CacheRelabel
<1>6. CASE Logs(h)
  <2>1. /\ at[h] \in {"log", "log404"} /\ Goto(h, IF program = "proc" THEN "exit" ELSE "close")
        /\ UNCHANGED cacheVars /\ UNCHANGED <<mutex, request, file, unread, gone>>
    BY <1>6 DEF Logs, Log, fixed, net
  <2>2. cache_index[h] # -1 => program = "cached" /\ at[h] = "log"
    BY <1>1, <2>1 DEF FoundRight, TablesInv, LabelsRight
  <2>3. FilesFit("exit", file[h]) /\ FilesFit("close", file[h])
    BY DEF FilesFit
  <2> QED
    BY <2>1, <2>2, <2>3, CacheRelabel
<1>7. ASSUME NEW l \in {"ended", "stray"}, Closes(h, l) PROVE CacheInv'
  <2>1. /\ at[h] \in {"bad", "close", "exit", "stray"} /\ Goto(h, l) /\ (l = "stray" => at[h] = "bad")
        /\ UNCHANGED cacheVars /\ UNCHANGED <<mutex, request, file, unread, gone>>
    BY <1>7 DEF Closes, fixed, net
  <2>2. cache_index[h] # -1 => at[h] = "close" /\ l = "ended"
    BY <1>1, <2>1 DEF FoundRight
  <2>3. FilesFit(l, file[h])
    BY <1>1, <2>1 DEF FoundRight, FilesFit
  <2> QED
    BY <2>1, <2>2, <2>3, CacheRelabel
<1> QED
  BY <1>2, <1>3, <1>4, <1>5, <1>6, <1>7

LEMMA CacheOutside ==
    ASSUME TablesInv, CacheInv,
           \/ Setup /\ UNCHANGED cacheVars
           \/ Arrives
           \/ \E p \in Procs : Dies(p)
           \/ Clients
    PROVE  CacheInv'
<1>0. /\ file \in [Conns -> Names \cup {"bad", "none"}]
      /\ unread \in [Conns -> {"all", "rest", "none"}] /\ gone \in [Conns -> BOOLEAN]
  BY DEF CacheInv, CacheTypes
<1>1. CASE Setup /\ UNCHANGED cacheVars
  <2>1. UNCHANGED <<mutex, request, file, unread, gone, at>>
    BY <1>1 DEF Setup, fixed, net
  <2> QED
    BY <1>0, <1>1, <2>1, CacheFrame
<1>2. CASE Arrives
  <2>1. /\ UNCHANGED <<request, unread, gone, file, mutex>> /\ UNCHANGED cacheVars
        /\ \A g \in Conns : \/ at'[g] = at[g]
                            \/ at[g] \in {"new", "start", "child"} /\ at'[g] \in {"start", "child", "recv"}
    BY <1>2, ArrivesMoves
  <2>2. \A g \in Conns : at[g] \in {"new", "start", "child"} => cache_index[g] = -1
    BY DEF CacheInv, FoundRight
  <2>3. \A g \in Conns : at'[g] \in {"start", "child", "recv"} =>
           at'[g] \notin {"hit", "resend", "release", "shift"} /\ FilesFit(at'[g], file'[g])
    BY DEF FilesFit
  <2> QED
    BY <1>0, <2>1, <2>2, <2>3, CacheFrame
<1>3. ASSUME NEW p \in Procs, Dies(p) PROVE CacheInv'
  <2>1. /\ UNCHANGED <<request, unread, gone, file, mutex>> /\ UNCHANGED cacheVars
        /\ \A g \in Conns : at'[g] = at[g] \/ at'[g] = "killed"
    BY <1>3 DEF Dies, Exit, fixed, net, cacheVars
  <2> QED
    BY <1>0, <2>1, CacheFrame
<1>4. CASE Clients
  <2>1. /\ UNCHANGED <<request, unread, file, mutex, at>> /\ UNCHANGED cacheVars
        /\ gone' \in [Conns -> BOOLEAN]
    BY <1>0, <1>4 DEF Clients, ClientLeaves, ClientStops, ClientReads, fixed
  <2> QED
    BY <1>0, <2>1, CacheFrame
<1> QED
  BY <1>1, <1>2, <1>3, <1>4

(* The thread that searches or uses the cache moves; the others stay where *)
(* they are, and find what they have found.                                *)
LEMMA CacheSearches ==
    ASSUME TablesInv, CacheInv, NEW h \in Conns, Searches(h)
    PROVE  CacheInv'
<1> USE DEF CacheInv
<1>1. ASSUME NEW l, Goto(h, l) PROVE \A g \in Conns : at'[g] = IF g = h THEN l ELSE at[g]
  BY <1>1 DEF Goto, TablesInv, HandlerTypes
<1>2. /\ UNCHANGED <<file, request, unread, gone>>
      /\ cache_index \in [Conns -> Nat \cup {-1}] /\ scan \in [Conns -> Nat]
  BY DEF Searches, FindCachedPage, Hit, DecrementRefCount, AddPage, StartEviction, ShiftPage, OverwriteLast,
         httpVars, fixed, net, TablesInv, HandlerTypes
<1>3. /\ Slots = 0 .. CacheSize - 1 /\ CacheSize \in Nat \ {0} /\ cache_count \in 0 .. CacheSize
      /\ cache \in [Slots -> PageRecord]
  BY CacheAssumption DEF Slots, CacheTypes
<1>4. FoundRight(h) /\ StaleRight(h)
  OBVIOUS
<1>5. \A i \in Slots : i < cache_count => IsPage(cache[i])
  BY DEF Filled
<1>6. CASE FindCachedPage(h)
  <2>1. at[h] = "find" /\ UNCHANGED <<cache, cache_count, local_content, shift, mutex>>
    BY <1>6 DEF FindCachedPage
  <2>2. cache_index[h] = -1 /\ file[h] \in Files /\ ~stale[h]
    BY <1>4, <2>1 DEF FoundRight, FilesFit, StaleRight, CacheTypes
  <2>3. CASE Goto(h, "body") /\ UNCHANGED <<cache_index, scan, stale>>
    <3>1. UNCHANGED cacheVars
      BY <2>1, <2>3 DEF cacheVars
    <3>2. FilesFit("body", file[h])
      BY <2>2 DEF FilesFit
    <3> QED
      BY <1>2, <2>1, <2>2, <2>3, <3>1, <3>2, CacheRelabel
  <2>4. CASE UNCHANGED <<at, cache_index, stale>>
    <3>1. CacheTypes' /\ Filled' /\ Moving'
      BY <1>2, <2>1, <2>4 DEF CacheTypes, Filled, Moving
    <3>2. ASSUME NEW g \in Conns PROVE FoundRight(g)' /\ StaleRight(g)'
      <4>1. FoundRight(g) /\ StaleRight(g)
        OBVIOUS
      <4> QED
        BY <1>2, <2>1, <2>4, <4>1 DEF FoundRight, StaleRight, Running
    <3> QED
      BY <3>1, <3>2
  <2>5. CASE /\ scan[h] < cache_count
             /\ shift = -1 => cache[scan[h]].name = file[h]
             /\ cache_index' = [cache_index EXCEPT ![h] = scan[h]]
             /\ Goto(h, "hit")
             /\ stale' = [stale EXCEPT ![h] = (shift # -1)]
    <3>1. CacheTypes' /\ Filled' /\ Moving'
      BY <1>2, <2>1, <2>5 DEF CacheTypes, Filled, Moving
    <3>2. FoundRight(h)' /\ StaleRight(h)'
      <4>1. /\ at'[h] = "hit" /\ cache_index'[h] = scan[h] /\ scan[h] # -1 /\ stale'[h] = (shift # -1)
            /\ file'[h] \in Files /\ file'[h] = file[h]
        BY <1>1, <1>2, <2>2, <2>5 DEF CacheTypes
      <4>2. FoundRight(h)'
        BY <2>1, <2>5, <4>1 DEF FoundRight, FilesFit
      <4>3. StaleRight(h)'
        BY <2>1, <2>5, <4>1 DEF StaleRight, Running
      <4> QED
        BY <4>2, <4>3
    <3>3. ASSUME NEW g \in Conns, g # h PROVE FoundRight(g)' /\ StaleRight(g)'
      <4>1. FoundRight(g) /\ StaleRight(g)
        OBVIOUS
      <4>2. at'[g] = at[g] /\ cache_index'[g] = cache_index[g] /\ stale'[g] = stale[g] /\ file'[g] = file[g]
        BY <1>1, <1>2, <2>5, <3>3 DEF CacheTypes
      <4> QED
        BY <2>1, <4>1, <4>2 DEF FoundRight, StaleRight, Running
    <3> QED
      BY <3>1, <3>2, <3>3
  <2>6. CASE scan[h] < cache_count
    <3>1. PICK match \in Matches(h, scan[h]) :
             IF match
             THEN /\ cache_index' = [cache_index EXCEPT ![h] = scan[h]]
                  /\ Goto(h, "hit")
                  /\ stale' = [stale EXCEPT ![h] = (shift # -1)]
             ELSE UNCHANGED <<at, cache_index, stale>>
      BY <1>2, <1>3, <1>6, <2>6 DEF FindCachedPage
    <3>2. CASE match
      <4>1. shift = -1 => cache[scan[h]].name = file[h]
        <5> SUFFICES ASSUME shift = -1 PROVE cache[scan[h]].name = file[h]
          OBVIOUS
        <5>1. shift # scan[h]
          BY <1>2
        <5>2. Matches(h, scan[h]) = {cache[scan[h]].name = file[h]}
          BY <5>1 DEF Matches
        <5>3. match = (cache[scan[h]].name = file[h])
          BY <3>1, <5>2, Zenon
        <5> QED
          BY <3>2, <5>3, Zenon
      <4> QED
        BY <2>5, <2>6, <3>1, <3>2, <4>1
    <3>3. CASE ~match
      BY <2>4, <3>1, <3>3
    <3> QED
      BY <3>2, <3>3
  <2> QED
    BY <1>2, <1>3, <1>6, <2>3, <2>6 DEF FindCachedPage
<1>7. ASSUME NEW l, Goto(h, l), l \notin {"hit", "shift"}, UNCHANGED <<cache_index, stale>>,
             CacheTypes', Filled', Moving', FoundRight(h)', StaleRight(h)',
             cache_count' >= cache_count,
             \A g \in Conns : g # h /\ at[g] = "shift" => mutex' = mutex,
             \A g \in Conns : g # h /\ cache_index[g] # -1 /\ Running(g) =>
                 (shift' # -1 => stale[g]) /\ (~stale[g] => cache'[cache_index[g]].name = cache[cache_index[g]].name),
             \A g \in Conns : g # h => local_content'[g] = local_content[g]
      PROVE  CacheInv'
  <2>1. ASSUME NEW g \in Conns, g # h PROVE FoundRight(g)' /\ StaleRight(g)'
    <3>1. FoundRight(g) /\ StaleRight(g)
      OBVIOUS
    <3>2. at'[g] = at[g] /\ cache_index'[g] = cache_index[g] /\ stale'[g] = stale[g] /\ file'[g] = file[g]
      BY <1>1, <1>2, <1>7, <2>1
    <3>3. cache_count' \in 0 .. CacheSize
      BY <1>7 DEF CacheTypes
    <3>4. FoundRight(g)'
      BY <1>2, <1>3, <1>7, <2>1, <3>1, <3>2, <3>3 DEF FoundRight
    <3>5. StaleRight(g)'
      BY <1>7, <2>1, <3>1, <3>2 DEF StaleRight, Running
    <3> QED
      BY <3>4, <3>5
  <2> QED
    BY <1>7, <2>1
<1>8. CASE Hit(h)
  <2> DEFINE i == cache_index[h]
             page == [cache[i] EXCEPT !.refs = @ + 1]
  <2>1. /\ at[h] = "hit" /\ mutex = Nobody /\ Goto(h, "resend")
        /\ UNCHANGED <<cache_count, cache_index, shift, stale, mutex>>
        /\ cache' = [cache EXCEPT ![i] = page]
        /\ local_content' = [local_content EXCEPT ![h] = <<cache[i].name, cache[i].part>>]
    BY <1>8 DEF Hit
  <2>2. i \in Slots /\ i < cache_count /\ IsPage(cache[i]) /\ shift = -1 /\ cache[i] \in PageRecord
    BY <1>2, <1>3, <1>4, <1>5, <2>1 DEF FoundRight, Moving
  <2>3. page \in PageRecord /\ page.valid /\ page.name = cache[i].name /\ page.part = cache[i].part
        /\ page.size = cache[i].size
    BY <2>2 DEF PageRecord, IsPage
  <2> HIDE DEF page
  <2>4. cache' \in [Slots -> PageRecord] /\ \A j \in Slots : cache'[j] = IF j = i THEN page ELSE cache[j]
    BY <1>3, <2>1, <2>2, <2>3
  <2>5. \A g \in Conns : local_content'[g] = IF g = h THEN <<cache[i].name, cache[i].part>> ELSE local_content[g]
    BY <2>1 DEF CacheTypes
  <2>6. CacheTypes'
    <3>1. local_content' = [g \in Conns |-> local_content'[g]]
      BY <2>1 DEF CacheTypes
    <3> QED
      BY <1>2, <2>1, <2>4, <3>1 DEF CacheTypes
  <2>7. Filled'
    BY <1>3, <2>1, <2>2, <2>3, <2>4 DEF Filled, IsPage
  <2>8. Moving'
    BY <2>1 DEF Moving
  <2>9. at'[h] = "resend"
    BY <1>1, <2>1
  <2>10. FoundRight(h)'
    BY <1>2, <1>4, <2>1, <2>2, <2>9 DEF FoundRight, FilesFit
  <2>11. StaleRight(h)'
    <3>1. ~stale[h] => cache[i].name = file[h]
      BY <1>2, <1>4, <2>1, <2>2 DEF StaleRight, Running, FoundRight
    <3>2. /\ cache'[i].name = cache[i].name /\ local_content'[h] = <<cache[i].name, cache[i].part>>
          /\ cache[i].part = Whole(cache[i].name)
      BY <2>2, <2>3, <2>4, <2>5 DEF IsPage
    <3> QED
      BY <1>2, <1>4, <2>1, <2>2, <2>9, <3>1, <3>2 DEF StaleRight
  <2>12. \A g \in Conns : cache_index[g] # -1 => cache'[cache_index[g]].name = cache[cache_index[g]].name
    <3> SUFFICES ASSUME NEW g \in Conns, cache_index[g] # -1
                 PROVE  cache'[cache_index[g]].name = cache[cache_index[g]].name
      OBVIOUS
    <3>1. cache_index[g] \in Slots
      BY <1>2, <1>3 DEF FoundRight
    <3> QED
      BY <2>3, <2>4, <3>1
  <2> HIDE DEF i
  <2> QED
    BY <1>3, <1>7, <2>1, <2>2, <2>5, <2>6, <2>7, <2>8, <2>10, <2>11, <2>12
<1>9. CASE DecrementRefCount(h)
  <2> DEFINE i == cache_index[h]
             page == [cache[i] EXCEPT !.refs = @ - 1]
  <2>1. at[h] = "release" /\ mutex = Nobody /\ Goto(h, "log")
        /\ UNCHANGED <<cache_index, local_content, shift, stale, mutex>>
    BY <1>9 DEF DecrementRefCount
  <2>2. i \in Slots /\ i < cache_count /\ IsPage(cache[i]) /\ shift = -1 /\ cache[i] \in PageRecord
    BY <1>2, <1>3, <1>4, <1>5, <2>1 DEF FoundRight, Moving
  <2>3. page \in PageRecord /\ page.valid /\ page.name = cache[i].name /\ page.part = cache[i].part
        /\ page.size = cache[i].size
    BY <2>2 DEF PageRecord, IsPage
  <2>4. cache' = [cache EXCEPT ![i] = page] /\ cache_count' = cache_count
    BY <1>9, <2>3 DEF DecrementRefCount
  <2> HIDE DEF page
  <2>5. cache' \in [Slots -> PageRecord] /\ \A j \in Slots : cache'[j] = IF j = i THEN page ELSE cache[j]
    BY <1>3, <2>2, <2>3, <2>4
  <2>6. CacheTypes' /\ Moving'
    BY <1>2, <2>1, <2>4, <2>5 DEF CacheTypes, Moving
  <2>7. Filled'
    BY <1>3, <2>2, <2>3, <2>4, <2>5 DEF Filled, IsPage
  <2>8. at'[h] = "log"
    BY <1>1, <2>1
  <2>9. FoundRight(h)'
    BY <1>2, <1>4, <2>1, <2>2, <2>4, <2>8 DEF FoundRight, FilesFit
  <2>10. \A g \in Conns : cache_index[g] # -1 => cache'[cache_index[g]].name = cache[cache_index[g]].name
    <3> SUFFICES ASSUME NEW g \in Conns, cache_index[g] # -1
                 PROVE  cache'[cache_index[g]].name = cache[cache_index[g]].name
      OBVIOUS
    <3>1. cache_index[g] \in Slots
      BY <1>2, <1>3 DEF FoundRight
    <3> QED
      BY <2>3, <2>5, <3>1
  <2>11. StaleRight(h)'
    BY <1>2, <1>4, <2>1, <2>2, <2>8, <2>10 DEF StaleRight, Running
  <2> HIDE DEF i
  <2> QED
    BY <1>3, <1>7, <2>1, <2>2, <2>4, <2>6, <2>7, <2>9, <2>10, <2>11
<1>10. \A name \in Files : PageOf(name) \in PageRecord /\ IsPage(PageOf(name)) /\ PageOf(name).name = name
  BY DEF PageOf, PageRecord, IsPage, Whole
<1>11. CASE AddPage(h)
  <2>1. /\ at[h] = "insert" /\ mutex = Nobody /\ Goto(h, "log") /\ cache_count # CacheSize
        /\ cache_count' = cache_count + 1
        /\ cache' = [cache EXCEPT ![cache_count] = PageOf(file[h])]
        /\ UNCHANGED <<cache_index, local_content, shift, stale, mutex>>
    BY <1>11 DEF AddPage
  <2>2. file[h] \in Files /\ cache_index[h] = -1 /\ shift = -1 /\ ~stale[h]
    BY <1>4, <2>1 DEF FoundRight, FilesFit, Moving, StaleRight, CacheTypes
  <2>3. cache_count \in Slots /\ cache_count' \in 0 .. CacheSize
    BY <1>3, <2>1
  <2>4. /\ cache' \in [Slots -> PageRecord]
        /\ \A j \in Slots : cache'[j] = IF j = cache_count THEN PageOf(file[h]) ELSE cache[j]
    BY <1>3, <1>10, <2>1, <2>2, <2>3
  <2>5. CacheTypes' /\ Moving'
    BY <1>2, <2>1, <2>2, <2>3, <2>4 DEF CacheTypes, Moving
  <2>6. Filled'
    <3> SUFFICES ASSUME NEW j \in Slots
                 PROVE  IF j < cache_count + 1 THEN IsPage(cache'[j]) ELSE cache'[j] = EmptyPage
      BY <2>1 DEF Filled, IsPage
    <3>1. CASE j = cache_count
      BY <1>3, <1>10, <2>2, <2>4, <3>1
    <3>2. CASE j # cache_count
      BY <1>3, <2>4, <3>2 DEF Filled
    <3> QED
      BY <3>1, <3>2
  <2>7. at'[h] = "log"
    BY <1>1, <2>1
  <2>8. FoundRight(h)' /\ StaleRight(h)'
    BY <1>2, <2>1, <2>2, <2>7 DEF FoundRight, FilesFit, StaleRight
  <2>9. \A g \in Conns : cache_index[g] # -1 => cache'[cache_index[g]].name = cache[cache_index[g]].name
    <3> SUFFICES ASSUME NEW g \in Conns, cache_index[g] # -1
                 PROVE  cache'[cache_index[g]].name = cache[cache_index[g]].name
      OBVIOUS
    <3>1. cache_index[g] \in Slots /\ cache_index[g] # cache_count
      BY <1>2, <1>3 DEF FoundRight
    <3> QED
      BY <2>4, <3>1
  <2> QED
    BY <1>3, <1>7, <2>1, <2>2, <2>5, <2>6, <2>8, <2>9
<1>12. CASE StartEviction(h)
  <2>1. /\ at[h] = "insert" /\ mutex = Nobody /\ Goto(h, "shift") /\ cache_count = CacheSize
        /\ mutex' = h /\ shift' = 0
        /\ stale' = [g \in Conns |-> stale[g] \/ (Running(g) /\ cache_index[g] # -1)]
        /\ UNCHANGED <<cache, cache_count, cache_index, local_content>>
    BY <1>12 DEF StartEviction
  <2>2. file[h] \in Files /\ cache_index[h] = -1
    BY <1>4, <2>1 DEF FoundRight, FilesFit
  <2>3. \A g \in Conns : stale'[g] <=> stale[g] \/ (Running(g) /\ cache_index[g] # -1)
    BY <2>1
  <2>4. stale' \in [Conns -> BOOLEAN]
    BY <2>1 DEF CacheTypes, Running
  <2>5. 0 \in Slots
    BY <1>3
  <2>6. CacheTypes' /\ Filled'
    BY <1>2, <2>1, <2>4, <2>5 DEF CacheTypes, Filled
  <2>7. Moving'
    BY <2>1, ConnsAreNumbers DEF Moving
  <2>8. ASSUME NEW g \in Conns PROVE FoundRight(g)' /\ StaleRight(g)'
    <3>1. FoundRight(g) /\ StaleRight(g)
      OBVIOUS
    <3>2. at'[g] = IF g = h THEN "shift" ELSE at[g]
      BY <1>1, <2>1
    <3>3. at[g] # "shift"
      BY <2>1, <3>1, ConnsAreNumbers DEF FoundRight
    <3>4. FoundRight(g)'
      BY <1>2, <2>1, <2>2, <3>1, <3>2, <3>3 DEF FoundRight, FilesFit
    <3>5. Running(g)' => Running(g)
      BY <2>1, <3>2 DEF Running
    <3>6. at'[g] = "resend" => cache_index[g] # -1 /\ Running(g)
      BY <3>1, <3>2 DEF FoundRight, Running
    <3>7. StaleRight(g)'
      BY <2>1, <2>3, <3>1, <3>5, <3>6 DEF StaleRight
    <3> QED
      BY <3>4, <3>7
  <2> QED
    BY <2>6, <2>7, <2>8
<1>13. CASE ShiftPage(h)
  <2>1. /\ at[h] = "shift" /\ shift < CacheSize - 1 /\ shift' = shift + 1
        /\ cache' = [cache EXCEPT ![shift] = cache[shift + 1]]
        /\ UNCHANGED <<at, mutex, cache_count, cache_index, local_content, stale>>
    BY <1>13 DEF ShiftPage, httpVars
  <2>2. shift # -1 /\ shift \in Slots /\ shift + 1 \in Slots /\ cache_count = CacheSize
    <3>1. mutex = h
      BY <1>4, <2>1 DEF FoundRight
    <3>2. shift # -1
      BY <3>1, ConnsAreNumbers DEF Moving
    <3> QED
      BY <1>3, <2>1, <3>2 DEF CacheTypes, Moving
  <2>3. /\ cache' \in [Slots -> PageRecord]
        /\ \A j \in Slots : cache'[j] = IF j = shift THEN cache[shift + 1] ELSE cache[j]
    BY <1>3, <2>1, <2>2
  <2>4. CacheTypes'
    BY <1>2, <2>1, <2>2, <2>3 DEF CacheTypes
  <2>5. Filled' /\ Moving'
    BY <1>3, <2>1, <2>2, <2>3 DEF Filled, Moving, IsPage
  <2>6. ASSUME NEW g \in Conns PROVE FoundRight(g)' /\ StaleRight(g)'
    <3>1. FoundRight(g) /\ StaleRight(g)
      OBVIOUS
    <3>2. FoundRight(g)'
      BY <1>2, <2>1, <3>1 DEF FoundRight
    <3>3. Running(g)' <=> Running(g)
      BY <2>1 DEF Running
    <3>4. StaleRight(g)'
      BY <1>2, <2>1, <2>2, <3>1, <3>3 DEF StaleRight
    <3> QED
      BY <3>2, <3>4
  <2> QED
    BY <2>4, <2>5, <2>6
<1>14. CASE OverwriteLast(h)
  <2>1. /\ at[h] = "shift" /\ shift = CacheSize - 1 /\ shift' = -1 /\ mutex' = Nobody /\ Goto(h, "log")
        /\ cache' = [cache EXCEPT ![shift] = PageOf(file[h])]
        /\ UNCHANGED <<cache_count, cache_index, local_content, stale>>
    BY <1>14 DEF OverwriteLast
  <2>2. mutex = h /\ file[h] \in Files /\ cache_index[h] = -1 /\ ~stale[h]
    BY <1>4, <2>1 DEF FoundRight, FilesFit, StaleRight, CacheTypes
  <2>3. shift \in Slots /\ shift # -1 /\ cache_count = CacheSize
    BY <1>3, <2>1 DEF Moving
  <2>4. /\ cache' \in [Slots -> PageRecord]
        /\ \A j \in Slots : cache'[j] = IF j = shift THEN PageOf(file[h]) ELSE cache[j]
    BY <1>3, <1>10, <2>1, <2>2, <2>3
  <2>5. CacheTypes' /\ Moving'
    BY <1>2, <2>1, <2>4 DEF CacheTypes, Moving
  <2>6. Filled'
    <3> SUFFICES ASSUME NEW j \in Slots PROVE IsPage(cache'[j])
      BY <1>3, <2>1, <2>3 DEF Filled, IsPage
    <3>1. IsPage(cache[j])
      BY <1>3, <1>5, <2>3
    <3> QED
      BY <1>10, <2>2, <2>4, <3>1
  <2>7. at'[h] = "log"
    BY <1>1, <2>1
  <2>8. FoundRight(h)' /\ StaleRight(h)'
    BY <1>2, <2>1, <2>2, <2>7 DEF FoundRight, FilesFit, StaleRight
  <2>9. ASSUME NEW g \in Conns, g # h
        PROVE  at[g] # "shift" /\ (cache_index[g] # -1 /\ Running(g) => stale[g])
    <3>1. FoundRight(g) /\ StaleRight(g)
      OBVIOUS
    <3> QED
      BY <2>2, <2>3, <2>9, <3>1 DEF FoundRight, StaleRight
  <2> QED
    BY <1>3, <1>7, <2>1, <2>5, <2>6, <2>8, <2>9
<1> QED
  BY <1>6, <1>8, <1>9, <1>11, <1>12, <1>13, <1>14 DEF Searches

LEMMA CacheStep ==
    ASSUME TablesInv, CacheInv, Next
    PROVE  CacheInv'
<1>1. ASSUME NEW h \in Conns, Kinds(h) PROVE CacheInv'
  BY <1>1, CacheAsks, CacheReplies, CacheSearches DEF Kinds
<1>2. ASSUME NEW h \in Conns, Step(h) PROVE CacheInv'
  BY <1>1, <1>2, StepKinds, CacheOutside
<1>3. CASE Loop
  BY <1>3, LoopKinds, CacheOutside
<1> QED
  BY <1>2, <1>3, CacheOutside DEF Next

LEMMA CacheIsInit ==
    ASSUME Init
    PROVE  CacheInv
<1>1. PICK w : CacheInit(w) /\ w \in Seq(Files) /\ Len(w) <= CacheSize
  <2>1. <<>> \in Seq(Files) /\ Len(<<>>) = 0 /\ CacheSize \in Nat
    BY CacheAssumption, EmptySeq
  <2>2. CASE CacheInit(<<>>)
    <3>1. Len(<<>>) <= CacheSize
      BY <2>1
    <3> QED
      BY <2>1, <2>2, <3>1, Zenon
  <2>3. CASE \E w \in WarmCaches : CacheInit(w)
    BY <2>3, CacheAssumption
  <2> QED
    BY <2>2, <2>3 DEF Init
<1>2. Slots = 0 .. CacheSize - 1 /\ CacheSize \in Nat \ {0} /\ Len(w) \in Nat
  BY <1>1, CacheAssumption DEF Slots
<1>3. \A i \in Slots : i < Len(w) => w[i + 1] \in Files
  BY <1>1, <1>2, ElementOfSeq
<1>4. \A name \in Files : PageOf(name) \in PageRecord /\ IsPage(PageOf(name))
  BY DEF PageOf, PageRecord, IsPage, Whole
<1>5. EmptyPage \in PageRecord
  BY DEF EmptyPage, PageRecord
<1>6. /\ cache \in [Slots -> PageRecord]
      /\ \A i \in Slots : cache[i] = IF i < Len(w) THEN PageOf(w[i + 1]) ELSE EmptyPage
  BY <1>1, <1>3, <1>4, <1>5 DEF CacheInit
<1>7. CacheTypes
  <2>1. file \in [Conns -> Names \cup {"bad", "none"}]
    BY DEF Init, HttpInit
  <2>2. stale \in [Conns -> BOOLEAN] /\ cache_count \in 0 .. CacheSize /\ shift = -1
        /\ local_content = [h \in Conns |-> local_content[h]]
    BY <1>1, <1>2 DEF CacheInit
  <2>3. request \in [Conns -> Requests] /\ mutex = Nobody
        /\ unread \in [Conns -> {"all", "rest", "none"}] /\ gone \in [Conns -> BOOLEAN]
    BY DEF Init, HttpInit
  <2> QED
    BY <1>6, <2>1, <2>2, <2>3 DEF CacheTypes
<1>8. Filled
  BY <1>1, <1>3, <1>4, <1>6 DEF Filled, CacheInit
<1>9. Moving
  BY <1>1 DEF Moving, CacheInit, Init, HttpInit
<1>10. \A h \in Conns : FoundRight(h) /\ StaleRight(h)
  <2>1. \A h \in Conns : at[h] = "new" /\ cache_index[h] = -1 /\ ~stale[h]
    BY <1>1 DEF Init, HttpInit, CacheInit
  <2> QED
    BY <2>1 DEF FoundRight, FilesFit, StaleRight
<1> QED
  BY <1>7, <1>8, <1>9, <1>10 DEF CacheInv

LEMMA CacheAlways ==
    ASSUME NoLateStart
    PROVE  Spec => [](TablesInv /\ CacheInv)
<1>1. Init => CacheInv
  BY CacheIsInit
<1>2. TablesInv /\ CacheInv /\ [Next]_vars => CacheInv'
  <2> SUFFICES ASSUME TablesInv, CacheInv, [Next]_vars PROVE CacheInv'
    OBVIOUS
  <2>1. CASE UNCHANGED vars
    <3>1. /\ UNCHANGED cacheVars /\ UNCHANGED <<mutex, request, at, file>>
          /\ file' \in [Conns -> Names \cup {"bad", "none"}]
          /\ unread' \in [Conns -> {"all", "rest", "none"}] /\ gone' \in [Conns -> BOOLEAN]
      BY <2>1 DEF vars, httpVars, fixed, net, CacheInv, CacheTypes
    <3> QED
      BY <3>1, CacheFrame
  <2> QED
    BY <2>1, CacheStep
<1> QED
  BY <1>1, <1>2, TablesAlways, PTL DEF Spec

(* Only the steps that search or fill the cache change it. *)
LEMMA CacheChanges ==
    ASSUME [Next]_vars
    PROVE  UNCHANGED cacheVars \/ \E h \in Conns : Searches(h)
<1>1. ASSUME NEW h \in Conns, Kinds(h) PROVE UNCHANGED cacheVars \/ Searches(h)
  BY <1>1 DEF Kinds, Asks, Replies, SendsPage, SendsCopy, Logs, Closes, cacheVars
<1>2. Arrives \/ (\E p \in Procs : Dies(p)) \/ Clients => UNCHANGED cacheVars
  BY DEF Arrives, Dies, Clients, cacheVars
<1>3. ASSUME NEW h \in Conns, Step(h) PROVE UNCHANGED cacheVars \/ \E g \in Conns : Searches(g)
  BY <1>1, <1>2, <1>3, StepKinds
<1>4. Loop => UNCHANGED cacheVars
  BY <1>2, LoopKinds
<1> QED
  BY <1>2, <1>3, <1>4 DEF Next, vars

PagesRight ==
    /\ Pages \in Seq(Files)
    /\ Len(Pages) = IF shift = -1 THEN cache_count ELSE cache_count - 1
    /\ \A i \in 1 .. Len(Pages) : Pages[i] = cache[IF shift = -1 \/ i <= shift THEN i - 1 ELSE i].name

LEMMA PagesAre == CacheInv => PagesRight
<1> SUFFICES ASSUME CacheInv PROVE PagesRight
  OBVIOUS
<1> DEFINE n == IF shift = -1 THEN cache_count ELSE cache_count - 1
<1>1. Slots = 0 .. CacheSize - 1 /\ CacheSize \in Nat \ {0} /\ cache_count \in 0 .. CacheSize /\ shift \in Slots \cup {-1}
  BY CacheAssumption DEF Slots, CacheInv, CacheTypes
<1>2. n \in Nat /\ (shift # -1 => cache_count = CacheSize)
  BY <1>1 DEF CacheInv, Moving
<1>3. ASSUME NEW i \in 1 .. n
      PROVE  cache[IF shift = -1 \/ i <= shift THEN i - 1 ELSE i].name \in Files
  <2> DEFINE j == IF shift = -1 \/ i <= shift THEN i - 1 ELSE i
  <2>1. j \in Slots /\ j < cache_count
    BY <1>1, <1>2
  <2> QED
    BY <2>1 DEF CacheInv, Filled, IsPage
<1>4. Pages = [i \in 1 .. n |-> cache[IF shift = -1 \/ i <= shift THEN i - 1 ELSE i].name]
  BY DEF Pages
<1> HIDE DEF n
<1>5. Pages \in [1 .. n -> Files] /\ DOMAIN Pages = 1 .. n
  BY <1>3, <1>4
<1>6. Pages \in Seq(Files) /\ Len(Pages) = n
  BY <1>2, <1>5
<1> QED
  BY <1>4, <1>6 DEF n, PagesRight

LEMMA PagesSame ==
    ASSUME CacheInv, CacheInv', UNCHANGED <<cache_count, shift>>,
           \A i \in Slots : i < cache_count => cache'[i].name = cache[i].name
    PROVE  Pages' = Pages
<1>1. Slots = 0 .. CacheSize - 1 /\ CacheSize \in Nat \ {0} /\ cache_count \in 0 .. CacheSize /\ shift \in Slots \cup {-1}
      /\ (shift # -1 => cache_count = CacheSize)
  BY CacheAssumption DEF Slots, CacheInv, CacheTypes, Moving
<1>2. /\ Pages \in Seq(Files)
      /\ Len(Pages) = IF shift = -1 THEN cache_count ELSE cache_count - 1
      /\ \A i \in 1 .. Len(Pages) : Pages[i] = cache[IF shift = -1 \/ i <= shift THEN i - 1 ELSE i].name
  BY PagesAre DEF PagesRight
<1>3. /\ Pages' \in Seq(Files)
      /\ Len(Pages') = IF shift = -1 THEN cache_count ELSE cache_count - 1
      /\ \A i \in 1 .. Len(Pages') : Pages'[i] = cache'[IF shift = -1 \/ i <= shift THEN i - 1 ELSE i].name
  <2>1. PagesRight'
    BY PagesAre, PTL
  <2> QED
    BY <2>1 DEF PagesRight
<1>4. ASSUME NEW i \in 1 .. Len(Pages) PROVE Pages'[i] = Pages[i]
  <2> DEFINE j == IF shift = -1 \/ i <= shift THEN i - 1 ELSE i
  <2>1. j \in Slots /\ j < cache_count
    BY <1>1, <1>2
  <2>2. Pages[i] = cache[j].name /\ Pages'[i] = cache'[j].name
    BY <1>2, <1>3
  <2> QED
    BY <2>1, <2>2
<1> QED
  BY <1>2, <1>3, <1>4, SeqEqual

(* Each step of the cache is one of the queue, or none. *)
LEMMA PagesStep ==
    ASSUME TablesInv, CacheInv, CacheInv', [Next]_vars
    PROVE  [Fifo!Evict \/ \E name \in Files : Fifo!Add(name)]_Pages
<1>1. Slots = 0 .. CacheSize - 1 /\ CacheSize \in Nat \ {0} /\ cache_count \in 0 .. CacheSize /\ shift \in Slots \cup {-1}
      /\ (shift # -1 => cache_count = CacheSize) /\ (shift = -1 <=> mutex = Nobody) /\ cache \in [Slots -> PageRecord]
  BY CacheAssumption DEF Slots, CacheInv, CacheTypes, Moving
<1>2. PagesRight /\ PagesRight'
  BY PagesAre, PTL
<1>3. CASE UNCHANGED cacheVars
  BY <1>3, PagesSame DEF cacheVars
<1>4. ASSUME NEW h \in Conns, Searches(h)
      PROVE  [Fifo!Evict \/ \E name \in Files : Fifo!Add(name)]_Pages
  <2>1. FoundRight(h) /\ cache_index[h] \in Nat \cup {-1}
    BY DEF CacheInv, TablesInv, HandlerTypes
  <2>2. CASE FindCachedPage(h)
    BY <2>2, PagesSame DEF FindCachedPage
  <2>3. CASE Hit(h)
    <3> DEFINE i == cache_index[h]
               page == [cache[i] EXCEPT !.refs = @ + 1]
    <3>1. i \in Slots /\ cache' = [cache EXCEPT ![i] = page] /\ UNCHANGED <<cache_count, shift>>
      BY <1>1, <2>1, <2>3 DEF Hit, FoundRight
    <3>2. page.name = cache[i].name
      BY <1>1, <3>1 DEF PageRecord
    <3> HIDE DEF page
    <3>3. \A j \in Slots : cache'[j].name = cache[j].name
      BY <1>1, <3>1, <3>2
    <3> QED
      BY <3>1, <3>3, PagesSame
  <2>4. CASE DecrementRefCount(h)
    <3> DEFINE i == cache_index[h]
               page == [cache[i] EXCEPT !.refs = @ - 1]
    <3>1. i \in Slots /\ i < cache_count /\ UNCHANGED shift
      BY <1>1, <2>1, <2>4 DEF DecrementRefCount, FoundRight
    <3>2. page.name = cache[i].name /\ page.valid
      BY <1>1, <3>1 DEF PageRecord, CacheInv, Filled, IsPage
    <3>3. cache' = [cache EXCEPT ![i] = page] /\ cache_count' = cache_count
      BY <2>4, <3>2 DEF DecrementRefCount
    <3> HIDE DEF page
    <3>4. \A j \in Slots : cache'[j].name = cache[j].name
      BY <1>1, <3>1, <3>2, <3>3
    <3> QED
      BY <3>1, <3>3, <3>4, PagesSame
  <2>5. CASE AddPage(h)
    <3>1. /\ mutex = Nobody /\ cache_count # CacheSize /\ cache_count' = cache_count + 1 /\ UNCHANGED shift
          /\ cache' = [cache EXCEPT ![cache_count] = PageOf(file[h])] /\ at[h] = "insert"
      BY <2>5 DEF AddPage
    <3>2. file[h] \in Files /\ shift = -1 /\ PageOf(file[h]).name = file[h]
      BY <1>1, <2>1, <3>1 DEF FoundRight, FilesFit, PageOf
    <3>3. cache_count \in Slots /\ \A j \in Slots : cache'[j] = IF j = cache_count THEN PageOf(file[h]) ELSE cache[j]
      BY <1>1, <3>1
    <3>4. Len(Pages) = cache_count /\ Len(Pages') = cache_count + 1
      BY <1>2, <3>1, <3>2 DEF PagesRight
    <3>5. /\ Append(Pages, file[h]) \in Seq(Files)
          /\ Len(Append(Pages, file[h])) = Len(Pages) + 1
          /\ \A i \in 1 .. Len(Pages) : Append(Pages, file[h])[i] = Pages[i]
          /\ Append(Pages, file[h])[Len(Pages) + 1] = file[h]
      BY <1>2, <3>2, AppendProperties DEF PagesRight
    <3>6. ASSUME NEW i \in 1 .. Len(Pages') PROVE Pages'[i] = Append(Pages, file[h])[i]
      <4>1. Pages'[i] = cache'[i - 1].name
        BY <1>2, <3>1, <3>2 DEF PagesRight
      <4>2. CASE i = cache_count + 1
        BY <1>1, <3>2, <3>3, <3>4, <3>5, <4>1, <4>2
      <4>3. CASE i <= cache_count
        <5>1. i \in 1 .. Len(Pages) /\ Pages[i] = cache[i - 1].name
          BY <1>1, <1>2, <3>2, <3>4, <4>3 DEF PagesRight
        <5>2. i - 1 \in Slots /\ i - 1 # cache_count
          BY <1>1, <4>3
        <5> QED
          BY <3>3, <3>5, <4>1, <5>1, <5>2
      <4> QED
        BY <1>1, <3>4, <4>2, <4>3
    <3>7. Pages' = Append(Pages, file[h])
      BY <1>2, <3>4, <3>5, <3>6, SeqEqual DEF PagesRight
    <3>8. Len(Pages) < CacheSize
      BY <1>1, <3>1, <3>4
    <3> QED
      BY <3>2, <3>7, <3>8 DEF Fifo!Add
  <2>6. CASE StartEviction(h)
    <3>1. /\ mutex = Nobody /\ cache_count = CacheSize /\ shift' = 0
          /\ UNCHANGED <<cache, cache_count>>
      BY <2>6 DEF StartEviction
    <3>2. shift = -1
      BY <1>1, <3>1
    <3>3. Len(Pages) = CacheSize /\ Len(Pages') = CacheSize - 1
      BY <1>1, <1>2, <3>1, <3>2 DEF PagesRight
    <3>4. Pages \in Seq(Files) /\ Pages' \in Seq(Files) /\ Pages # <<>>
      BY <1>1, <1>2, <3>3, EmptySeq DEF PagesRight
    <3>5. Tail(Pages) \in Seq(Files) /\ Len(Tail(Pages)) = CacheSize - 1
          /\ \A i \in 1 .. Len(Tail(Pages)) : Tail(Pages)[i] = Pages[i + 1]
      BY <3>3, <3>4, HeadTailProperties
    <3>6. ASSUME NEW i \in 1 .. Len(Pages') PROVE Pages'[i] = Tail(Pages)[i]
      <4>1. Pages'[i] = cache[i].name
        BY <1>2, <3>1 DEF PagesRight
      <4>2. i + 1 \in 1 .. Len(Pages) /\ i \in 1 .. Len(Tail(Pages))
        BY <1>1, <3>3, <3>5
      <4>3. Pages[i + 1] = cache[i].name
        BY <1>2, <3>2, <4>2 DEF PagesRight
      <4> QED
        BY <3>5, <4>1, <4>2, <4>3
    <3>7. Pages' = Tail(Pages)
      BY <3>3, <3>4, <3>5, <3>6, SeqEqual
    <3> QED
      BY <3>3, <3>7 DEF Fifo!Evict
  <2>7. CASE ShiftPage(h)
    <3>1. /\ at[h] = "shift" /\ shift < CacheSize - 1 /\ shift' = shift + 1 /\ UNCHANGED cache_count
          /\ cache' = [cache EXCEPT ![shift] = cache[shift + 1]]
      BY <2>7 DEF ShiftPage
    <3>2. shift # -1
      BY <1>1, <2>1, <3>1, ConnsAreNumbers DEF FoundRight
    <3>3. shift \in Slots /\ \A j \in Slots : cache'[j] = IF j = shift THEN cache[shift + 1] ELSE cache[j]
      BY <1>1, <3>1, <3>2
    <3>4. Len(Pages) = CacheSize - 1 /\ Len(Pages') = CacheSize - 1
      BY <1>1, <1>2, <3>1, <3>2 DEF PagesRight
    <3>5. ASSUME NEW i \in 1 .. Len(Pages) PROVE Pages'[i] = Pages[i]
      <4>1. i \in 1 .. CacheSize - 1 /\ i \in Slots /\ i - 1 \in Slots
        BY <1>1, <3>4
      <4>2. Pages[i] = cache[IF i <= shift THEN i - 1 ELSE i].name
        BY <1>2, <3>2 DEF PagesRight
      <4>3. Pages'[i] = cache'[IF i <= shift + 1 THEN i - 1 ELSE i].name
        BY <1>1, <1>2, <3>1, <3>2, <3>3, <3>4 DEF PagesRight
      <4>4. CASE i = shift + 1
        BY <1>1, <3>3, <4>1, <4>2, <4>3, <4>4
      <4>5. CASE i # shift + 1
        <5>1. i <= shift <=> i <= shift + 1
          BY <1>1, <3>2, <4>1, <4>5
        <5>2. (i <= shift => i - 1 # shift) /\ (~(i <= shift) => i # shift)
          BY <1>1, <3>2, <4>1, <4>5
        <5> QED
          BY <3>3, <4>1, <4>2, <4>3, <5>1, <5>2
      <4> QED
        BY <4>4, <4>5
    <3> QED
      BY <1>2, <3>4, <3>5, SeqEqual DEF PagesRight
  <2>8. CASE OverwriteLast(h)
    <3>1. /\ at[h] = "shift" /\ shift = CacheSize - 1 /\ shift' = -1 /\ UNCHANGED cache_count
          /\ cache' = [cache EXCEPT ![shift] = PageOf(file[h])]
      BY <2>8 DEF OverwriteLast
    <3>2. file[h] \in Files /\ shift # -1 /\ PageOf(file[h]).name = file[h]
      BY <1>1, <2>1, <3>1 DEF FoundRight, FilesFit, PageOf
    <3>3. cache_count = CacheSize /\ \A j \in Slots : cache'[j] = IF j = CacheSize - 1 THEN PageOf(file[h]) ELSE cache[j]
      BY <1>1, <3>1, <3>2
    <3>4. Len(Pages) = CacheSize - 1 /\ Len(Pages') = CacheSize
      BY <1>2, <3>1, <3>2, <3>3 DEF PagesRight
    <3>5. /\ Append(Pages, file[h]) \in Seq(Files)
          /\ Len(Append(Pages, file[h])) = CacheSize
          /\ \A i \in 1 .. CacheSize - 1 : Append(Pages, file[h])[i] = Pages[i]
          /\ Append(Pages, file[h])[CacheSize] = file[h]
      <4>1. /\ Append(Pages, file[h]) \in Seq(Files)
            /\ Len(Append(Pages, file[h])) = Len(Pages) + 1
            /\ \A i \in 1 .. Len(Pages) : Append(Pages, file[h])[i] = Pages[i]
            /\ Append(Pages, file[h])[Len(Pages) + 1] = file[h]
        BY <1>2, <3>2, AppendProperties DEF PagesRight
      <4>2. Len(Pages) + 1 = CacheSize
        BY <1>1, <3>4
      <4> QED
        BY <3>4, <4>1, <4>2
    <3>6. ASSUME NEW i \in 1 .. Len(Pages') PROVE Pages'[i] = Append(Pages, file[h])[i]
      <4>1. Pages'[i] = cache'[i - 1].name
        BY <1>2, <3>1 DEF PagesRight
      <4>2. CASE i = CacheSize
        BY <1>1, <3>2, <3>3, <3>5, <4>1, <4>2
      <4>3. CASE i # CacheSize
        <5>1. i \in 1 .. CacheSize - 1 /\ i - 1 \in Slots /\ i - 1 # CacheSize - 1 /\ i <= shift
          BY <1>1, <3>1, <3>4, <4>3
        <5>2. Pages[i] = cache[i - 1].name
          BY <1>2, <3>4, <5>1 DEF PagesRight
        <5> QED
          BY <3>3, <3>5, <4>1, <5>1, <5>2
      <4> QED
        BY <4>2, <4>3
    <3>7. Pages' = Append(Pages, file[h])
      BY <1>2, <3>4, <3>5, <3>6, SeqEqual DEF PagesRight
    <3>8. Len(Pages) < CacheSize
      BY <1>1, <3>4
    <3> QED
      BY <3>2, <3>7, <3>8 DEF Fifo!Add
  <2> QED
    BY <1>4, <2>2, <2>3, <2>4, <2>5, <2>6, <2>7, <2>8 DEF Searches
<1> QED
  BY <1>3, <1>4, CacheChanges

(* The entries that are moved one by one implement a queue of pages        *)
(* (server_cached.c:200-231): an eviction takes the oldest, and a page     *)
(* that was read goes to the end.                                          *)
THEOREM CacheImplementsFifo ==
    ASSUME NoLateStart
    PROVE  Spec => CacheIsFifo
<1>1. Init => Fifo!Init
  <2> SUFFICES ASSUME Init PROVE Fifo!Init
    OBVIOUS
  <2>1. CacheInv
    BY CacheIsInit
  <2>2. PICK w \in WarmCaches \cup {<<>>} : CacheInit(w)
    BY DEF Init
  <2>3. w \in Seq(Files) /\ Len(w) \in 0 .. CacheSize
    <3>1. CASE w \in WarmCaches
      BY <3>1, CacheAssumption
    <3>2. CASE w = <<>>
      BY <3>2, CacheAssumption, EmptySeq
    <3> QED
      BY <3>1, <3>2
  <2>4. PagesRight /\ shift = -1 /\ cache_count = Len(w)
    BY <2>1, <2>2, PagesAre DEF CacheInit
  <2>5. ASSUME NEW i \in 1 .. Len(Pages) PROVE Pages[i] = w[i]
    <3>1. i - 1 \in Slots /\ i - 1 < Len(w) /\ i - 1 + 1 = i
      BY <2>3, <2>4, CacheAssumption DEF PagesRight, Slots
    <3>2. cache[i - 1] = PageOf(w[i - 1 + 1])
      BY <2>2, <3>1 DEF CacheInit
    <3>3. cache[i - 1].name = w[i]
      BY <3>1, <3>2 DEF PageOf
    <3> QED
      BY <2>4, <3>3 DEF PagesRight
  <2>6. Pages = w
    BY <2>3, <2>4, <2>5, SeqEqual DEF PagesRight
  <2> QED
    BY <2>2, <2>6 DEF Fifo!Init
<1>2. TablesInv /\ CacheInv /\ CacheInv' /\ [Next]_vars => [Fifo!Evict \/ \E name \in Files : Fifo!Add(name)]_Pages
  BY PagesStep
<1> QED
  BY <1>1, <1>2, CacheAlways, PTL DEF Spec, CacheIsFifo, Fifo!Spec

--------------------------------------------------------------------------------
(* The reference counts. *)

(* The steps that leave the cache alone: a thread that found a page goes   *)
(* on with it, or dies with the server.                                    *)
QuietMove(g) ==
    \/ at'[g] = at[g]
    \/ at'[g] = "killed" /\ server' = "dead"
    \/ <<at[g], at'[g]>> \in {<<"resend", "release">>, <<"log", "close">>, <<"close", "ended">>}

LEMMA QuietMoves ==
    ASSUME TablesInv, CacheInv, [Next]_vars
    PROVE  \/ \E h \in Conns : Searches(h)
           \/ /\ UNCHANGED cacheVars
              /\ server' # "dead" => server # "dead"
              /\ \A g \in Conns : cache_index[g] # -1 => QuietMove(g)
<1> DEFINE Quiet == /\ UNCHANGED cacheVars
                    /\ server' # "dead" => server # "dead"
                    /\ \A g \in Conns : cache_index[g] # -1 => QuietMove(g)
<1>1. ASSUME NEW h \in Conns, NEW l, Goto(h, l), UNCHANGED cacheVars, server' # "dead" => server # "dead",
             cache_index[h] # -1 =>
                 <<at[h], l>> \in {<<"resend", "release">>, <<"log", "close">>, <<"close", "ended">>}
      PROVE  Quiet
  <2>1. \A g \in Conns : at'[g] = IF g = h THEN l ELSE at[g]
    BY <1>1 DEF Goto, TablesInv, HandlerTypes
  <2> QED
    BY <1>1, <2>1 DEF QuietMove
<1>2. ASSUME UNCHANGED <<at, cacheVars>>, server' # "dead" => server # "dead" PROVE Quiet
  BY <1>2 DEF QuietMove
<1>3. ASSUME NEW h \in Conns, Kinds(h) PROVE Quiet \/ Searches(h)
  <2>1. FoundRight(h)
    BY DEF CacheInv
  <2>2. CASE Asks(h)
    <3>1. at[h] \in {"recv", "discard", "open"} /\ UNCHANGED cacheVars /\ server' = server
      BY <2>2 DEF Asks, Receive, Discard, Open, loop
    <3>2. \E l \in {"bad", "open", "discard", "head", "absent"} : Goto(h, l)
      BY <2>2 DEF Asks, Receive, Parsed, Discard, Open
    <3> QED
      BY <1>1, <2>1, <3>1, <3>2 DEF FoundRight
  <2>3. CASE Replies(h, "absent", << <<"404">> >>, After404)
    <3>1. at[h] = "absent" /\ UNCHANGED cacheVars /\ server' = server /\ Goto(h, After404)
      BY <2>3 DEF Replies, loop, cacheVars
    <3> QED
      BY <1>1, <2>1, <3>1 DEF FoundRight
  <2>4. CASE Replies(h, "head", << <<"200">> >>, After200)
    <3>1. at[h] = "head" /\ UNCHANGED cacheVars /\ server' = server /\ Goto(h, After200)
      BY <2>4 DEF Replies, loop, cacheVars
    <3> QED
      BY <1>1, <2>1, <3>1 DEF FoundRight
  <2>5. CASE SendsPage(h)
    <3>1. at[h] = "body" /\ UNCHANGED cacheVars /\ server' = server /\ Goto(h, AfterBody)
      BY <2>5 DEF SendsPage, loop, cacheVars
    <3> QED
      BY <1>1, <2>1, <3>1 DEF FoundRight
  <2>6. CASE SendsCopy(h)
    <3>1. at[h] = "resend" /\ UNCHANGED cacheVars /\ server' = server /\ Goto(h, "release")
      BY <2>6 DEF SendsCopy, Replies, loop, cacheVars
    <3> QED
      BY <1>1, <3>1
  <2>7. CASE Logs(h)
    <3>1. /\ at[h] \in {"log", "log404"} /\ UNCHANGED cacheVars /\ server' = server
          /\ Goto(h, IF program = "proc" THEN "exit" ELSE "close")
      BY <2>7 DEF Logs, Log, loop, cacheVars
    <3>2. cache_index[h] # -1 => program = "cached" /\ at[h] = "log"
      BY <2>1, <3>1 DEF FoundRight, TablesInv, LabelsRight
    <3> QED
      BY <1>1, <3>1, <3>2
  <2>8. ASSUME NEW l \in {"ended", "stray"}, Closes(h, l) PROVE Quiet
    <3>1. /\ at[h] \in {"bad", "close", "exit", "stray"} /\ UNCHANGED cacheVars /\ Goto(h, l)
          /\ l = "stray" => at[h] = "bad"
          /\ program # "iter" => server' = server
      BY <2>8 DEF Closes, cacheVars
    <3>2. program = "iter" => server = "busy"
      BY <3>1 DEF TablesInv, OneByOne, Running
    <3>3. cache_index[h] # -1 => at[h] = "close" /\ l = "ended"
      BY <2>1, <3>1 DEF FoundRight
    <3>4. server' # "dead" => server # "dead"
      BY <3>1, <3>2
    <3> QED
      BY <1>1, <3>1, <3>3, <3>4
  <2> HIDE DEF Quiet
  <2> QED
    BY <1>3, <2>2, <2>3, <2>4, <2>5, <2>6, <2>7, <2>8 DEF Kinds
<1>4. ASSUME NEW p \in Procs, Dies(p) PROVE Quiet
  <2>1. /\ UNCHANGED cacheVars /\ (server' # "dead" => server # "dead")
        /\ \A g \in Conns : at'[g] = IF Proc(g) = p /\ Running(g) THEN "killed" ELSE at[g]
        /\ p = Server => server' = "dead"
    BY <1>4 DEF Dies, Exit, cacheVars
  <2>2. \A g \in Conns : cache_index[g] # -1 => Proc(g) = Server
    BY DEF TablesInv, LabelsRight, Proc
  <2> QED
    BY <2>1, <2>2 DEF QuietMove
<1>5. ASSUME Arrives PROVE Quiet
  <2>1. /\ UNCHANGED cacheVars /\ (server' # "dead" => server # "dead")
        /\ \A g \in Conns : at'[g] = at[g] \/ at[g] \in {"new", "start", "child"}
    BY <1>5, ArrivesMoves
  <2>2. \A g \in Conns : at[g] \in {"new", "start", "child"} => cache_index[g] = -1
    BY DEF CacheInv, FoundRight
  <2> QED
    BY <2>1, <2>2 DEF QuietMove
<1>6. ASSUME Setup, UNCHANGED cacheVars PROVE Quiet
  BY <1>2, <1>6 DEF Setup
<1>7. ASSUME Clients PROVE Quiet
  BY <1>2, <1>7 DEF Clients, ClientLeaves, ClientStops, ClientReads, loop
<1>8. ASSUME UNCHANGED vars PROVE Quiet
  BY <1>2, <1>8 DEF vars, httpVars, loop
<1> HIDE DEF Quiet
<1>9. ASSUME NEW h \in Conns, Step(h) PROVE Quiet \/ Searches(h)
  BY <1>3, <1>4, <1>5, <1>9, StepKinds
<1>10. ASSUME Loop PROVE Quiet
  BY <1>4, <1>5, <1>6, <1>10, LoopKinds
<1>11. Quiet \/ \E h \in Conns : Searches(h)
  BY <1>7, <1>8, <1>9, <1>10 DEF Next
<1> QED
  BY <1>11 DEF Quiet

LEMMA SetsOfConns ==
    ASSUME NEW S \in SUBSET Conns
    PROVE  IsFiniteSet(S) /\ Cardinality(S) \in 0 .. NConns /\ Cardinality(S) \in Nat
<1>1. IsFiniteSet(S) /\ Cardinality(S) <= Cardinality(Conns)
  BY ConnsAreNumbers, FS_Subset
<1>2. Cardinality(S) \in Nat
  BY <1>1, FS_CardinalityType
<1> QED
  BY <1>1, <1>2, ConnsAreNumbers, HttpAssumption

LEMMA CountsAreNumbers ==
    /\ IsFiniteSet(Takers) /\ Cardinality(Takers) \in 0 .. NConns
    /\ IsFiniteSet(Givers) /\ Cardinality(Givers) \in 0 .. NConns
    /\ \A i : IsFiniteSet(Users(i)) /\ Cardinality(Users(i)) \in Nat
<1>1. Takers \subseteq Conns /\ Givers \subseteq Conns /\ \A i : Users(i) \subseteq Conns
  BY DEF Takers, Givers, Users
<1>2. \A i : Users(i) \in SUBSET Conns
  BY <1>1
<1> QED
  BY <1>1, <1>2, SetsOfConns

(* Nobody takes or gives back a reference, and no page moves. *)
LEMMA RefsFrame ==
    ASSUME CacheInv, RefsInv, UNCHANGED <<cache, cache_count>>,
           Takers \subseteq Takers', Givers \subseteq Givers',
           IsFiniteSet(Takers'), IsFiniteSet(Givers'),
           server' # "dead" => server # "dead" /\ \A i \in Slots : Users(i)' = Users(i),
           (\A g \in Conns : ~stale'[g]) => \A g \in Conns : ~stale[g]
    PROVE  RefsInv'
<1>1. RefsBounded'
  <2>1. Cardinality(Takers) <= Cardinality(Takers') /\ Cardinality(Givers) <= Cardinality(Givers')
    BY FS_Subset
  <2>2. Cardinality(Takers) \in Int /\ Cardinality(Givers) \in Int
        /\ Cardinality(Takers') \in Int /\ Cardinality(Givers') \in Int
    BY CountsAreNumbers, FS_CardinalityType
  <2> SUFFICES ASSUME NEW i \in Slots, i < cache_count
               PROVE  1 - Cardinality(Givers') <= cache[i].refs /\ cache[i].refs <= 1 + Cardinality(Takers')
    BY DEF RefsBounded
  <2>3. 1 - Cardinality(Givers) <= cache[i].refs /\ cache[i].refs <= 1 + Cardinality(Takers)
    BY DEF RefsInv, RefsBounded
  <2>4. cache[i].refs \in Int
    BY DEF CacheInv, CacheTypes, PageRecord
  <2> QED
    BY <2>1, <2>2, <2>3, <2>4
<1>2. RefsRight'
  <2> SUFFICES ASSUME server' # "dead", \A g \in Conns : ~stale'[g], NEW i \in Slots, i < cache_count
               PROVE  cache[i].refs = 1 + Cardinality(Users(i)')
    BY DEF RefsRight
  <2>1. cache[i].refs = 1 + Cardinality(Users(i))
    BY DEF RefsInv, RefsRight
  <2> QED
    BY <2>1
<1> QED
  BY <1>1, <1>2 DEF RefsInv

(* What the step of a thread that searches, uses or fills the cache does   *)
(* to the counts.                                                          *)
LEMMA RefsSearches ==
    ASSUME TablesInv, CacheInv, RefsInv, NEW h \in Conns, Searches(h)
    PROVE  RefsInv'
<1> USE DEF CacheInv
<1>1. ASSUME NEW l, Goto(h, l) PROVE \A g \in Conns : at'[g] = IF g = h THEN l ELSE at[g]
  BY <1>1 DEF Goto, TablesInv, HandlerTypes
<1>2. UNCHANGED <<file, server>> /\ cache_index \in [Conns -> Nat \cup {-1}]
  BY DEF Searches, FindCachedPage, Hit, DecrementRefCount, AddPage, StartEviction, ShiftPage, OverwriteLast,
         httpVars, loop, TablesInv, HandlerTypes
<1>3. /\ Slots = 0 .. CacheSize - 1 /\ CacheSize \in Nat \ {0} /\ cache_count \in 0 .. CacheSize
      /\ cache \in [Slots -> PageRecord]
  BY CacheAssumption DEF Slots, CacheTypes
<1>4. FoundRight(h) /\ StaleRight(h)
  OBVIOUS
<1>5. Takers' \subseteq Conns /\ Givers' \subseteq Conns /\ \A i : Users(i) \subseteq Conns /\ Users(i)' \subseteq Conns
  BY DEF Takers, Givers, Users
<1>6. /\ IsFiniteSet(Takers') /\ IsFiniteSet(Givers') /\ \A i : IsFiniteSet(Users(i)')
      /\ Cardinality(Takers') \in Nat /\ Cardinality(Givers') \in Nat
      /\ Cardinality(Takers) \in Nat /\ Cardinality(Givers) \in Nat
  BY <1>5, SetsOfConns, CountsAreNumbers, FS_CardinalityType
<1>7. ASSUME NEW i \in Slots, i < cache_count
      PROVE  /\ cache[i].refs \in Int
             /\ 1 - Cardinality(Givers) <= cache[i].refs /\ cache[i].refs <= 1 + Cardinality(Takers)
  BY <1>3, <1>7 DEF PageRecord, RefsInv, RefsBounded
<1>8. ASSUME \A g \in Conns : g # h => at'[g] = at[g] /\ cache_index'[g] = cache_index[g],
             cache_index[h] = -1,
             cache_index'[h] = -1 \/ at'[h] = "hit"
      PROVE  /\ Takers' = Takers /\ Givers' = Givers
             /\ \A i \in Slots : Users(i)' = Users(i)
  <2>1. \A i \in Slots : i # -1
    BY <1>3
  <2> QED
    BY <1>8, <2>1 DEF Takers, Givers, Users
<1>9. CASE FindCachedPage(h)
  <2>1. at[h] = "find" /\ UNCHANGED <<cache, cache_count, local_content, shift, mutex>>
    BY <1>9 DEF FindCachedPage
  <2>2. cache_index[h] = -1 /\ ~stale[h]
    BY <1>4, <2>1 DEF FoundRight, StaleRight, CacheTypes
  <2>3. /\ \A g \in Conns : g # h => at'[g] = at[g] /\ cache_index'[g] = cache_index[g] /\ stale'[g] = stale[g]
        /\ cache_index'[h] = -1 \/ at'[h] = "hit"
    <3>1. CASE Goto(h, "body") /\ UNCHANGED <<cache_index, scan, stale>>
      BY <1>1, <2>2, <3>1
    <3>2. CASE UNCHANGED <<at, cache_index, stale>>
      BY <2>2, <3>2
    <3>3. CASE /\ cache_index' = [cache_index EXCEPT ![h] = scan[h]]
               /\ Goto(h, "hit")
               /\ stale' = [stale EXCEPT ![h] = (shift # -1)]
      BY <1>1, <1>2, <3>3 DEF CacheTypes
    <3> QED
      BY <1>9, <3>1, <3>2, <3>3 DEF FindCachedPage
  <2>4. Takers' = Takers /\ Givers' = Givers /\ \A i \in Slots : Users(i)' = Users(i)
    BY <1>8, <2>2, <2>3
  <2>5. (\A g \in Conns : ~stale'[g]) => \A g \in Conns : ~stale[g]
    BY <2>2, <2>3
  <2> QED
    BY <1>2, <1>6, <2>1, <2>4, <2>5, RefsFrame
<1>10. CASE StartEviction(h)
  <2>1. /\ at[h] = "insert" /\ Goto(h, "shift") /\ UNCHANGED <<cache, cache_count, cache_index>>
        /\ stale' = [g \in Conns |-> stale[g] \/ (Running(g) /\ cache_index[g] # -1)]
    BY <1>10 DEF StartEviction
  <2>2. cache_index[h] = -1
    BY <1>4, <2>1 DEF FoundRight
  <2>3. Takers' = Takers /\ Givers' = Givers /\ \A i \in Slots : Users(i)' = Users(i)
    BY <1>1, <1>8, <2>1, <2>2
  <2>4. (\A g \in Conns : ~stale'[g]) => \A g \in Conns : ~stale[g]
    BY <2>1
  <2> QED
    BY <1>2, <1>6, <2>1, <2>3, <2>4, RefsFrame
<1>11. CASE AddPage(h)
  <2>1. /\ at[h] = "insert" /\ Goto(h, "log") /\ cache_count # CacheSize
        /\ cache_count' = cache_count + 1
        /\ cache' = [cache EXCEPT ![cache_count] = PageOf(file[h])]
        /\ UNCHANGED <<cache_index, stale>>
    BY <1>11 DEF AddPage
  <2>2. cache_index[h] = -1
    BY <1>4, <2>1 DEF FoundRight
  <2>3. Takers' = Takers /\ Givers' = Givers /\ \A i \in Slots : Users(i)' = Users(i)
    BY <1>1, <1>8, <2>1, <2>2
  <2>4. cache_count \in Slots /\ PageOf(file[h]).refs = 1
    BY <1>3, <2>1 DEF PageOf
  <2>5. \A j \in Slots : cache'[j] = IF j = cache_count THEN PageOf(file[h]) ELSE cache[j]
    BY <1>3, <2>1, <2>4
  <2>6. Users(cache_count) = {}
    <3>1. \A g \in Conns : cache_index[g] # cache_count
      BY <1>2, <1>3 DEF FoundRight
    <3> QED
      BY <3>1 DEF Users
  <2>7. RefsBounded'
    <3> SUFFICES ASSUME NEW i \in Slots, i < cache_count'
                 PROVE  1 - Cardinality(Givers') <= cache'[i].refs /\ cache'[i].refs <= 1 + Cardinality(Takers')
      BY DEF RefsBounded
    <3>1. CASE i = cache_count
      BY <1>6, <2>4, <2>5, <3>1
    <3>2. CASE i # cache_count
      <4>1. i < cache_count /\ cache'[i] = cache[i]
        BY <1>3, <2>1, <2>5, <3>2
      <4> QED
        BY <1>7, <2>3, <4>1
    <3> QED
      BY <3>1, <3>2
  <2>8. RefsRight'
    <3> SUFFICES ASSUME server' # "dead", \A g \in Conns : ~stale'[g], NEW i \in Slots, i < cache_count'
                 PROVE  cache'[i].refs = 1 + Cardinality(Users(i)')
      BY DEF RefsRight
    <3>1. CASE i = cache_count
      BY <2>3, <2>4, <2>5, <2>6, <3>1, FS_EmptySet
    <3>2. CASE i # cache_count
      <4>1. i < cache_count /\ cache'[i] = cache[i]
        BY <1>3, <2>1, <2>5, <3>2
      <4>2. cache[i].refs = 1 + Cardinality(Users(i))
        BY <1>2, <2>1, <4>1 DEF RefsInv, RefsRight
      <4> QED
        BY <2>3, <4>1, <4>2
    <3> QED
      BY <3>1, <3>2
  <2> QED
    BY <2>7, <2>8 DEF RefsInv
<1>12. ASSUME Takers' = Takers, Givers' = Givers, \A i \in Slots : Users(i)' = Users(i),
              shift # -1, cache_count' = cache_count, UNCHANGED stale,
              \A i \in Slots : i < cache_count =>
                  cache'[i].refs = 1 \/ \E j \in Slots : j < cache_count /\ cache'[i] = cache[j]
       PROVE  RefsInv'
  <2>1. RefsBounded'
    <3> SUFFICES ASSUME NEW i \in Slots, i < cache_count
                 PROVE  1 - Cardinality(Givers') <= cache'[i].refs /\ cache'[i].refs <= 1 + Cardinality(Takers')
      BY <1>12 DEF RefsBounded
    <3>1. CASE cache'[i].refs = 1
      BY <1>6, <3>1
    <3>2. CASE \E j \in Slots : j < cache_count /\ cache'[i] = cache[j]
      BY <1>7, <1>12, <3>2
    <3> QED
      BY <1>12, <3>1, <3>2
  <2>2. RefsRight'
    <3> SUFFICES ASSUME server' # "dead", \A g \in Conns : ~stale'[g], NEW i \in Slots, i < cache_count
                 PROVE  cache'[i].refs = 1 + Cardinality(Users(i)')
      BY <1>12 DEF RefsRight
    <3>1. \A j \in Slots : Users(j) = {}
      <4>1. \A g \in Conns : at[g] \in {"resend", "release"} => cache_index[g] = -1
        BY <1>12 DEF StaleRight, Running
      <4> QED
        BY <1>3, <4>1 DEF Users
    <3>2. \A j \in Slots : j < cache_count => cache[j].refs = 1 + Cardinality(Users(j))
      BY <1>2, <1>12 DEF RefsInv, RefsRight
    <3>3. \A j \in Slots : j < cache_count => cache[j].refs = 1
      BY <3>1, <3>2, FS_EmptySet
    <3>4. cache'[i].refs = 1
      BY <1>12, <3>3
    <3> QED
      BY <1>12, <3>1, <3>4, FS_EmptySet
  <2> QED
    BY <2>1, <2>2 DEF RefsInv
<1>13. at[h] = "shift" => shift # -1 /\ cache_index[h] = -1 /\ cache_count = CacheSize
  BY <1>4, ConnsAreNumbers DEF FoundRight, Moving
<1>14. CASE ShiftPage(h)
  <2>1. /\ at[h] = "shift" /\ shift < CacheSize - 1
        /\ cache' = [cache EXCEPT ![shift] = cache[shift + 1]]
        /\ UNCHANGED <<at, cache_count, cache_index, stale>>
    BY <1>14 DEF ShiftPage, httpVars
  <2>2. shift \in Slots /\ shift + 1 \in Slots /\ shift + 1 < cache_count
    BY <1>3, <1>13, <2>1 DEF CacheTypes
  <2>3. \A i \in Slots : cache'[i] = IF i = shift THEN cache[shift + 1] ELSE cache[i]
    BY <1>3, <2>1, <2>2
  <2>4. Takers' = Takers /\ Givers' = Givers /\ \A i \in Slots : Users(i)' = Users(i)
    BY <2>1 DEF Takers, Givers, Users
  <2> QED
    BY <1>12, <1>13, <2>1, <2>2, <2>3, <2>4
<1>15. CASE OverwriteLast(h)
  <2>1. /\ at[h] = "shift" /\ shift = CacheSize - 1 /\ Goto(h, "log")
        /\ cache' = [cache EXCEPT ![shift] = PageOf(file[h])]
        /\ UNCHANGED <<cache_count, cache_index, stale>>
    BY <1>15 DEF OverwriteLast
  <2>2. PageOf(file[h]).refs = 1 /\ shift \in Slots
    BY <1>3, <2>1 DEF PageOf
  <2>3. \A i \in Slots : cache'[i] = IF i = shift THEN PageOf(file[h]) ELSE cache[i]
    BY <1>3, <2>1, <2>2
  <2>4. Takers' = Takers /\ Givers' = Givers /\ \A i \in Slots : Users(i)' = Users(i)
    BY <1>1, <1>8, <1>13, <2>1
  <2> QED
    BY <1>12, <1>13, <2>1, <2>2, <2>3, <2>4
<1>16. ASSUME NEW i \in Slots, i = cache_index[h], i < cache_count, NEW n \in Int,
              cache' \in [Slots -> PageRecord],
              \A j \in Slots : cache'[j].refs = IF j = i THEN n ELSE cache[j].refs,
              cache_count' = cache_count, UNCHANGED <<cache_index, stale>>,
              Takers \subseteq Takers', Givers \subseteq Givers',
              1 - Cardinality(Givers') <= n /\ n <= 1 + Cardinality(Takers'),
              \A j \in Slots : j # i => Users(j)' = Users(j),
              cache[i].refs = 1 + Cardinality(Users(i)) => n = 1 + Cardinality(Users(i)')
       PROVE  RefsInv'
  <2>1. Cardinality(Takers) <= Cardinality(Takers') /\ Cardinality(Givers) <= Cardinality(Givers')
    BY <1>6, <1>16, FS_Subset
  <2>2. RefsBounded'
    <3> SUFFICES ASSUME NEW j \in Slots, j < cache_count
                 PROVE  1 - Cardinality(Givers') <= cache'[j].refs /\ cache'[j].refs <= 1 + Cardinality(Takers')
      BY <1>16 DEF RefsBounded
    <3>1. CASE j = i
      BY <1>16, <3>1
    <3>2. CASE j # i
      <4>1. cache'[j].refs = cache[j].refs
        BY <1>16, <3>2
      <4> QED
        BY <1>6, <1>7, <2>1, <4>1
    <3> QED
      BY <3>1, <3>2
  <2>3. RefsRight'
    <3> SUFFICES ASSUME server' # "dead", \A g \in Conns : ~stale'[g], NEW j \in Slots, j < cache_count
                 PROVE  cache'[j].refs = 1 + Cardinality(Users(j)')
      BY <1>16 DEF RefsRight
    <3>1. cache[j].refs = 1 + Cardinality(Users(j))
      BY <1>2, <1>16 DEF RefsInv, RefsRight
    <3> QED
      BY <1>16, <3>1
  <2> QED
    BY <2>2, <2>3 DEF RefsInv
<1>17. CASE Hit(h)
  <2>1. /\ at[h] = "hit" /\ Goto(h, "resend") /\ UNCHANGED <<cache_count, cache_index, stale>>
        /\ cache' = [cache EXCEPT ![cache_index[h]].refs = @ + 1]
    BY <1>17 DEF Hit
  <2>2. PICK i \in Slots : i = cache_index[h] /\ i < cache_count
    BY <1>2, <1>3, <1>4, <2>1 DEF FoundRight
  <2>3. \A j \in Slots : cache'[j].refs = IF j = i THEN cache[i].refs + 1 ELSE cache[j].refs
    BY <1>3, <2>1, <2>2 DEF PageRecord
  <2>4. \A g \in Conns : at'[g] = IF g = h THEN "resend" ELSE at[g]
    BY <1>1, <2>1
  <2>5. Takers' = Takers \cup {h} /\ h \notin Takers /\ Givers' = Givers
    BY <1>3, <2>1, <2>2, <2>4 DEF Takers, Givers
  <2>6. Users(i)' = Users(i) \cup {h} /\ h \notin Users(i) /\ \A j \in Slots : j # i => Users(j)' = Users(j)
    BY <2>1, <2>2, <2>4 DEF Users
  <2>7. Cardinality(Takers') = Cardinality(Takers) + 1 /\ Cardinality(Users(i)') = Cardinality(Users(i)) + 1
    BY <2>5, <2>6, CountsAreNumbers, FS_AddElement
  <2>8. /\ cache[i].refs \in Int
        /\ 1 - Cardinality(Givers) <= cache[i].refs /\ cache[i].refs <= 1 + Cardinality(Takers)
    BY <1>7, <2>2
  <2>9. cache' \in [Slots -> PageRecord]
    <3> DEFINE page == [cache[i] EXCEPT !.refs = @ + 1]
    <3>1. page \in PageRecord
      BY <1>3, <2>2 DEF PageRecord
    <3>2. cache' = [cache EXCEPT ![i] = page]
      BY <2>1, <2>2
    <3> HIDE DEF page
    <3> QED
      BY <1>3, <3>1, <3>2
  <2>10. 1 - Cardinality(Givers') <= cache[i].refs + 1 /\ cache[i].refs + 1 <= 1 + Cardinality(Takers')
    BY <1>6, <2>5, <2>7, <2>8
  <2>11. cache[i].refs = 1 + Cardinality(Users(i)) => cache[i].refs + 1 = 1 + Cardinality(Users(i)')
    BY <2>7, CountsAreNumbers
  <2> DEFINE n == cache[i].refs + 1
  <2>12. /\ n \in Int
         /\ \A j \in Slots : cache'[j].refs = IF j = i THEN n ELSE cache[j].refs
         /\ 1 - Cardinality(Givers') <= n /\ n <= 1 + Cardinality(Takers')
         /\ cache[i].refs = 1 + Cardinality(Users(i)) => n = 1 + Cardinality(Users(i)')
    BY <2>3, <2>8, <2>10, <2>11
  <2>13. Takers \subseteq Takers' /\ Givers \subseteq Givers'
    BY <2>5
  <2> HIDE DEF n
  <2> QED
    BY <1>16, <2>1, <2>2, <2>6, <2>9, <2>12, <2>13, ZenonT(40)
<1>18. CASE DecrementRefCount(h)
  <2>1. at[h] = "release" /\ Goto(h, "log") /\ UNCHANGED <<cache_index, stale>>
    BY <1>18 DEF DecrementRefCount
  <2>2. PICK i \in Slots : i = cache_index[h] /\ i < cache_count
    BY <1>2, <1>3, <1>4, <2>1 DEF FoundRight
  <2>3. cache[i] \in PageRecord /\ cache[i].valid
    BY <1>3, <2>2 DEF Filled, IsPage
  <2>4. cache' = [cache EXCEPT ![i] = [cache[i] EXCEPT !.refs = @ - 1]] /\ cache_count' = cache_count
    BY <1>18, <2>2, <2>3 DEF DecrementRefCount, PageRecord
  <2>5. \A j \in Slots : cache'[j].refs = IF j = i THEN cache[i].refs - 1 ELSE cache[j].refs
    BY <1>3, <2>2, <2>4 DEF PageRecord
  <2>6. \A g \in Conns : at'[g] = IF g = h THEN "log" ELSE at[g]
    BY <1>1, <2>1
  <2>7. Takers' = Takers /\ Givers' = Givers \cup {h} /\ h \notin Givers
    BY <1>3, <2>1, <2>2, <2>6 DEF Takers, Givers
  <2>8. Users(i)' = Users(i) \ {h} /\ h \in Users(i) /\ \A j \in Slots : j # i => Users(j)' = Users(j)
    BY <2>1, <2>2, <2>6 DEF Users
  <2>9. Cardinality(Givers') = Cardinality(Givers) + 1 /\ Cardinality(Users(i)') = Cardinality(Users(i)) - 1
    <3>1. Cardinality(Givers') = Cardinality(Givers) + 1
      BY <2>7, CountsAreNumbers, FS_AddElement
    <3>2. Cardinality(Users(i) \ {h}) = Cardinality(Users(i)) - 1
      BY <2>8, CountsAreNumbers, FS_RemoveElement
    <3> QED
      BY <2>8, <3>1, <3>2
  <2>10. /\ cache[i].refs \in Int
         /\ 1 - Cardinality(Givers) <= cache[i].refs /\ cache[i].refs <= 1 + Cardinality(Takers)
    BY <1>7, <2>2
  <2>11. cache' \in [Slots -> PageRecord]
    <3> DEFINE page == [cache[i] EXCEPT !.refs = @ - 1]
    <3>1. page \in PageRecord
      BY <2>3 DEF PageRecord
    <3> HIDE DEF page
    <3> QED
      BY <1>3, <2>4, <3>1 DEF page
  <2>12. 1 - Cardinality(Givers') <= cache[i].refs - 1 /\ cache[i].refs - 1 <= 1 + Cardinality(Takers')
    BY <1>6, <2>7, <2>9, <2>10
  <2>13. cache[i].refs = 1 + Cardinality(Users(i)) => cache[i].refs - 1 = 1 + Cardinality(Users(i)')
    BY <2>9, CountsAreNumbers
  <2> DEFINE n == cache[i].refs - 1
  <2>14. /\ n \in Int
         /\ \A j \in Slots : cache'[j].refs = IF j = i THEN n ELSE cache[j].refs
         /\ 1 - Cardinality(Givers') <= n /\ n <= 1 + Cardinality(Takers')
         /\ cache[i].refs = 1 + Cardinality(Users(i)) => n = 1 + Cardinality(Users(i)')
    BY <2>5, <2>10, <2>12, <2>13
  <2>15. Takers \subseteq Takers' /\ Givers \subseteq Givers'
    BY <2>7
  <2> HIDE DEF n
  <2> QED
    BY <1>16, <2>1, <2>2, <2>4, <2>8, <2>11, <2>14, <2>15
<1> QED
  BY <1>9, <1>10, <1>11, <1>14, <1>15, <1>17, <1>18 DEF Searches

LEMMA RefsStep ==
    ASSUME TablesInv, CacheInv, RefsInv, [Next]_vars
    PROVE  RefsInv'
<1>1. CASE /\ UNCHANGED cacheVars
           /\ server' # "dead" => server # "dead"
           /\ \A g \in Conns : cache_index[g] # -1 => QuietMove(g)
  <2>1. UNCHANGED <<cache, cache_count, cache_index, stale>>
    BY <1>1 DEF cacheVars
  <2>2. /\ Takers \subseteq Takers' /\ Givers \subseteq Givers'
        /\ Takers' \subseteq Conns /\ Givers' \subseteq Conns
    BY <1>1, <2>1 DEF Takers, Givers, QuietMove
  <2>3. ASSUME server' # "dead" PROVE \A i \in Slots : Users(i)' = Users(i)
    <3>1. \A g \in Conns : cache_index[g] # -1 => (at'[g] \in {"resend", "release"} <=> at[g] \in {"resend", "release"})
      BY <1>1, <2>3 DEF QuietMove
    <3>2. \A i \in Slots : i # -1
      BY CacheAssumption DEF Slots
    <3> QED
      BY <2>1, <3>1, <3>2 DEF Users
  <2>4. IsFiniteSet(Takers') /\ IsFiniteSet(Givers')
    BY <2>2, SetsOfConns
  <2> QED
    BY <1>1, <2>1, <2>2, <2>3, <2>4, RefsFrame
<1> QED
  BY <1>1, QuietMoves, RefsSearches

LEMMA RefsInit ==
    ASSUME Init
    PROVE  RefsInv
<1>1. PICK w : CacheInit(w) /\ Len(w) \in Nat
  <2>1. \A w \in WarmCaches : Len(w) \in Nat
    BY CacheAssumption, LenProperties
  <2>2. Len(<<>>) \in Nat
    BY EmptySeq
  <2>3. CASE CacheInit(<<>>)
    BY <2>2, <2>3, Zenon
  <2>4. CASE \E w \in WarmCaches : CacheInit(w)
    BY <2>1, <2>4
  <2> QED
    BY <2>3, <2>4 DEF Init
<1>2. \A h \in Conns : cache_index[h] = -1
  BY <1>1 DEF CacheInit
<1>3. \A i \in Slots : i < cache_count => cache[i].refs = 1
  BY <1>1 DEF CacheInit, PageOf
<1>4. \A i \in Slots : Users(i) = {}
  BY <1>2, CacheAssumption DEF Users, Slots
<1>5. RefsRight
  BY <1>3, <1>4, FS_EmptySet DEF RefsRight
<1>6. RefsBounded
  BY <1>3, CountsAreNumbers DEF RefsBounded
<1> QED
  BY <1>5, <1>6 DEF RefsInv

LEMMA RefsAlways ==
    ASSUME NoLateStart
    PROVE  Spec => [](TablesInv /\ CacheInv /\ RefsInv)
<1>1. Init => RefsInv
  BY RefsInit
<1>2. TablesInv /\ CacheInv /\ RefsInv /\ [Next]_vars => RefsInv'
  BY RefsStep
<1> QED
  BY <1>1, <1>2, CacheAlways, PTL DEF Spec

(* The count of a page of the cache is one, for its place, plus the        *)
(* threads between taking their reference and giving it back               *)
(* (server_cached.c:150-181), until an eviction moves the entries under a  *)
(* thread that holds an index.                                             *)
THEOREM RefCountsStayBalanced ==
    ASSUME NoLateStart
    PROVE  Spec => []RefCountsBalance
<1>1. TablesInv /\ CacheInv /\ RefsInv => RefCountsBalance
  <2> SUFFICES ASSUME TablesInv, CacheInv, RefsInv, server # "dead", \A h \in Conns : ~stale[h],
                      NEW i \in 0 .. cache_count - 1
               PROVE  cache[i].refs = 1 + Cardinality(Users(i))
    BY DEF RefCountsBalance, Users
  <2>1. i \in Slots /\ i < cache_count
    BY CacheAssumption DEF CacheInv, CacheTypes, Slots
  <2> QED
    BY <2>1 DEF RefsInv, RefsRight
<1> QED
  BY <1>1, RefsAlways, PTL

--------------------------------------------------------------------------------
(* The answers and the log. *)

LEMMA CatNone == \A x : <<>> \o <<x>> = <<x>>
  OBVIOUS

LEMMA CatOne ==
    ASSUME NEW x, NEW y
    PROVE  <<x>> \o <<y>> = <<x, y>>
<1> DEFINE S == {x, y}
           s == <<x>>
           t == <<y>>
           u == <<x, y>>
<1>1. s \in Seq(S) /\ t \in Seq(S) /\ u \in Seq(S)
  OBVIOUS
<1>2. Len(s) = 1 /\ Len(t) = 1 /\ Len(u) = 2
  OBVIOUS
<1>3. s[1] = x /\ t[1] = y /\ u[1] = x /\ u[2] = y
  OBVIOUS
<1> HIDE DEF s, t, u, S
<1>4. /\ s \o t \in Seq(S) /\ Len(s \o t) = Len(s) + Len(t)
      /\ \A i \in 1 .. Len(s) + Len(t) : (s \o t)[i] = IF i <= Len(s) THEN s[i] ELSE t[i - Len(s)]
  BY <1>1, ConcatProperties
<1>5. \A i \in 1 .. 2 : (s \o t)[i] = u[i]
  BY <1>2, <1>3, <1>4
<1>6. s \o t = u
  BY <1>1, <1>2, <1>4, <1>5, SeqEqual
<1> QED
  BY <1>6 DEF s, t, u

LEMMA CatTwo ==
    ASSUME NEW x, NEW y, NEW z
    PROVE  <<x>> \o <<y, z>> = <<x, y, z>>
<1> DEFINE S == {x, y, z}
           s == <<x>>
           t == <<y, z>>
           u == <<x, y, z>>
<1>1. s \in Seq(S) /\ t \in Seq(S) /\ u \in Seq(S)
  OBVIOUS
<1>2. Len(s) = 1 /\ Len(t) = 2 /\ Len(u) = 3
  OBVIOUS
<1>3. s[1] = x /\ t[1] = y /\ t[2] = z /\ u[1] = x /\ u[2] = y /\ u[3] = z
  OBVIOUS
<1> HIDE DEF s, t, u, S
<1>4. /\ s \o t \in Seq(S) /\ Len(s \o t) = Len(s) + Len(t)
      /\ \A i \in 1 .. Len(s) + Len(t) : (s \o t)[i] = IF i <= Len(s) THEN s[i] ELSE t[i - Len(s)]
  BY <1>1, ConcatProperties
<1>5. \A i \in 1 .. 3 : (s \o t)[i] = u[i]
  BY <1>2, <1>3, <1>4
<1>6. s \o t = u
  BY <1>1, <1>2, <1>4, <1>5, SeqEqual
<1> QED
  BY <1>6 DEF s, t, u

LEMMA Lengths ==
    /\ Len(<<>>) = 0
    /\ \A x, y, z : Len(<<x>>) = 1 /\ Len(<<x, y>>) = 2 /\ Len(<<x, y, z>>) = 3
  OBVIOUS

LEMMA AnswersSame ==
    ASSUME NEW h \in Conns, program' = program, file'[h] = file[h], cache_index'[h] = cache_index[h],
           h \in starved' <=> h \in starved
    PROVE  Answers(h)' = Answers(h)
  BY DEF Answers

(* A handler's connection is its client's, and what it sends goes there. *)
LEMMA SendsToClient ==
    ASSUME TablesInv, AnswersInv, NEW h \in Conns, at[h] \in Talking, NEW items, Deliver(h, items)
    PROVE  /\ UNCHANGED <<unread, gone, stuck>>
           /\ reply' = [c \in Conns |-> reply'[c]]
           /\ \A g \in Conns : g # h => reply'[g] = reply[g]
           /\ reply'[h] = IF gone[h] THEN reply[h] ELSE reply[h] \o items
<1>1. Peer(h).kind = "conn" /\ Peer(h).of = h
  <2>1. Peer(h) = Fd("conn", h)
    BY DEF TablesInv, ConnRight
  <2> QED
    BY <2>1 DEF Fd
<1>2. /\ UNCHANGED <<unread, gone, stuck>>
      /\ reply' = IF ~gone[h] THEN [reply EXCEPT ![h] = @ \o items] ELSE reply
  BY <1>1 DEF Deliver
<1>3. reply = [c \in Conns |-> reply[c]]
  BY DEF AnswersInv, ReplyTypes
<1>4. CASE gone[h]
  BY <1>2, <1>3, <1>4
<1>5. CASE ~gone[h]
  BY <1>2, <1>3, <1>5
<1> QED
  BY <1>4, <1>5

(* A handler that does nothing, or dies, or has not read its request. *)
LEMMA AnswerKept ==
    ASSUME AnswersInv, NEW g \in Conns, UNCHANGED <<program, request>>,
           \/ at'[g] = at[g] \/ at'[g] = "killed"
           \/ at[g] \in {"new", "start", "child"} /\ at'[g] \in {"start", "child", "recv"},
           reply'[g] = reply[g], file'[g] = file[g], cache_index'[g] = cache_index[g],
           unread'[g] = unread[g], g \in starved' <=> g \in starved,
           gone[g] => gone'[g], stale[g] => stale'[g],
           \A size : <<g, size>> \in logged' <=> <<g, size>> \in logged
    PROVE  AnswerRight(g)' /\ LogRight(g)'
<1>1. AnswerRight(g) /\ LogRight(g)
  BY DEF AnswersInv
<1>2. Answers(g)' = Answers(g)
  BY AnswersSame
<1>3. CASE at'[g] = at[g]
  <2>1. Answered(g)' <=> Answered(g)
    BY <1>3 DEF Answered
  <2>2. AnswerRight(g)'
    BY <1>1, <1>2, <1>3, <2>1 DEF AnswerRight, AsAsked
  <2>3. LogRight(g)'
    BY <1>1, <1>3 DEF LogRight
  <2> QED
    BY <2>2, <2>3
<1>4. CASE at'[g] = "killed"
  <2>1. AnswerRight(g)'
    BY <1>1, <1>4 DEF AnswerRight, Answered
  <2>2. LogRight(g)'
    BY <1>1, <1>4 DEF LogRight
  <2> QED
    BY <2>1, <2>2
<1>5. CASE at[g] \in {"new", "start", "child"} /\ at'[g] \in {"start", "child", "recv"}
  <2>1. AnswerRight(g)'
    BY <1>1, <1>5 DEF AnswerRight, Answered
  <2>2. LogRight(g)'
    BY <1>1, <1>5 DEF LogRight
  <2> QED
    BY <2>1, <2>2
<1> QED
  BY <1>3, <1>4, <1>5

(* Handler h moves, and the others stay where they are. *)
LEMMA AnswersFrame ==
    ASSUME AnswersInv, NEW h \in Conns, UNCHANGED <<program, request, gone, stuck>>,
           starved' \subseteq starved \cup {h},
           reply' = [c \in Conns |-> reply'[c]],
           \A g \in Conns : g # h =>
               /\ at'[g] = at[g] /\ reply'[g] = reply[g] /\ file'[g] = file[g]
               /\ cache_index'[g] = cache_index[g] /\ (stale[g] => stale'[g])
               /\ unread'[g] = unread[g] /\ (g \in starved' <=> g \in starved)
               /\ \A size : <<g, size>> \in logged' <=> <<g, size>> \in logged,
           \E n \in 0 .. 3 : Len(reply'[h]) = n,
           AnswerRight(h)', LogRight(h)'
    PROVE  AnswersInv'
<1>1. ASSUME NEW g \in Conns PROVE AnswerRight(g)' /\ LogRight(g)'
  <2>1. CASE g = h
    BY <2>1
  <2>2. CASE g # h
    BY <2>2, AnswerKept
  <2> QED
    BY <2>1, <2>2
<1>2. ReplyTypes'
  <2>1. ASSUME NEW g \in Conns PROVE \E n \in 0 .. 3 : Len(reply'[g]) = n
    BY DEF AnswersInv, ReplyTypes
  <2> QED
    BY <2>1 DEF AnswersInv, ReplyTypes
<1> QED
  BY <1>1, <1>2 DEF AnswersInv

(* Where one request is answered at a time by a process, a descriptor is   *)
(* free for the file and for the log.                                      *)
LEMMA RoomLeft ==
    ASSUME TablesInv, NEW h \in Conns, at[h] \in {"open", "log"}, program \in {"iter", "proc"}
    PROVE  FreeFds(Proc(h)) # {}
<1> USE DEF TablesInv
<1>1. PICK f \in {1, 2} : f # sock[h]
  OBVIOUS
<1>2. f \in Fds /\ f # 0 /\ Proc(h) \in Procs
  BY FdsAreNumbers, ProcIsProc
<1>3. EntryRight(Proc(h), f) /\ desc[Proc(h)][f] \in Entry
  BY <1>2 DEF HandlerTypes
<1>4. Running(h) /\ Proc(h) = (IF program = "proc" THEN h ELSE Server) /\ h # Server
  BY ConnsAreNumbers DEF Running, Proc
<1>5. \A c \in Conns : Proc(c) = Proc(h) /\ Running(c) => c = h
  BY <1>4 DEF OneByOne, Proc
<1>6. \A c \in Conns : cache_index[c] = -1
  BY DEF LabelsRight
<1>7. desc[Proc(h)][f].kind # "listen"
  BY <1>2, <1>3 DEF EntryRight
<1>8. desc[Proc(h)][f].kind # "conn"
  <2> SUFFICES ASSUME desc[Proc(h)][f].kind = "conn" PROVE FALSE
    OBVIOUS
  <2> DEFINE c == desc[Proc(h)][f].of
  <2>1. c \in Conns
    BY <1>3 DEF EntryRight
  <2>2. CASE Proc(h) = Proc(c) /\ at[c] \in Talking \cup {"child"} /\ f = sock[c]
    <3>1. Running(c)
      BY <2>2 DEF Running, Talking
    <3> QED
      BY <1>1, <1>5, <2>1, <2>2, <3>1
  <2>3. CASE Proc(h) = Server
    <3>1. program = "iter" /\ at[c] # "start" /\ server \notin {"fork", "forked"}
      BY <1>4, <2>1, <2>3 DEF LabelsRight, ServerRight
    <3> QED
      BY <1>3, <2>2, <3>1 DEF EntryRight
  <2> QED
    BY <1>3, <2>2, <2>3 DEF EntryRight
<1>9. desc[Proc(h)][f].kind # "file"
  <2> SUFFICES ASSUME desc[Proc(h)][f].kind = "file" PROVE FALSE
    OBVIOUS
  <2> DEFINE c == desc[Proc(h)][f].of
  <2>1. c \in Conns /\ Proc(h) = Proc(c) /\ at[c] \in {"head", "body", "find"}
    BY <1>3, <1>6 DEF EntryRight
  <2>2. Running(c)
    BY <2>1 DEF Running
  <2> QED
    BY <1>5, <2>1, <2>2
<1>10. desc[Proc(h)][f].kind = "free"
  BY <1>3, <1>7, <1>8, <1>9 DEF Entry
<1> QED
  BY <1>2, <1>10 DEF FreeFds

LEMMA AnswersAsks ==
    ASSUME TablesInv, CacheInv, AnswersInv, NEW h \in Conns, Asks(h)
    PROVE  AnswersInv'
<1> USE DEF AnswersInv
<1>1. ASSUME NEW l, Goto(h, l) PROVE at'[h] = l /\ \A g \in Conns : g # h => at'[g] = at[g]
  BY <1>1 DEF Goto, TablesInv, HandlerTypes
<1>2. AnswerRight(h) /\ LogRight(h) /\ FoundRight(h)
  BY DEF CacheInv
<1>3. reply = [c \in Conns |-> reply[c]] /\ \E n \in 0 .. 3 : Len(reply[h]) = n
  BY DEF ReplyTypes
<1>4. UNCHANGED <<cache_index, stale>>
  BY DEF Asks, cacheVars
<1>5. ASSUME UNCHANGED <<program, request, gone, stuck, reply, logged>>,
             starved' \subseteq starved \cup {h}, starved \subseteq starved',
             \A g \in Conns : g # h => at'[g] = at[g] /\ file'[g] = file[g] /\ unread'[g] = unread[g],
             AnswerRight(h)', LogRight(h)'
      PROVE  AnswersInv'
  <2>1. /\ reply' = [c \in Conns |-> reply'[c]] /\ \E n \in 0 .. 3 : Len(reply'[h]) = n
        /\ \A g \in Conns : reply'[g] = reply[g]
    BY <1>3, <1>5
  <2> QED
    BY <1>4, <1>5, <2>1, AnswersFrame
<1>6. ASSUME NEW old \in {Names, {}}, Receive(h, old)
      PROVE  AnswersInv'
  <2>1. /\ at[h] = "recv"
        /\ UNCHANGED <<program, request, starved, gone, stuck, reply, logged>>
        /\ \A g \in Conns : g # h => unread'[g] = unread[g]
    BY <1>6, ReceiveReads
  <2>2. PICK name \in Names \cup {"bad"} :
              /\ file' = [file EXCEPT ![h] = name]
              /\ gone[h] \/ name = request[h].file \/ unread'[h] = "rest"
              /\ IF name = "bad" THEN Goto(h, "bad") ELSE Goto(h, "open") \/ Goto(h, "discard")
    BY <1>6, ReceiveReads
  <2>3. file'[h] = name /\ \A g \in Conns : g # h => file'[g] = file[g]
    BY <2>2 DEF CacheInv, CacheTypes
  <2>4. at'[h] = (IF name = "bad" THEN "bad" ELSE at'[h]) /\ at'[h] \in {"bad", "open", "discard"}
        /\ (at'[h] = "bad" => name = "bad")
        /\ \A g \in Conns : g # h => at'[g] = at[g]
    BY <1>1, <2>2
  <2>5. reply[h] = <<>>
    BY <1>2, <2>1 DEF AnswerRight
  <2>6. ASSUME at'[h] = "bad" PROVE reply'[h] \in Answers(h)'
    <3>1. file'[h] = "bad" /\ reply'[h] = <<>>
      BY <2>1, <2>3, <2>4, <2>5, <2>6
    <3>2. "bad" # "missing" /\ "bad" \notin Files /\ h \notin starved'
      BY <1>2, <2>1, HttpAssumption DEF AnswerRight
    <3>3. Answers(h)' = { <<>> }
      BY <3>1, <3>2, Zenon DEF Answers
    <3> QED
      BY <3>1, <3>3
  <2>7. ~gone'[h] => AsAsked(h)'
    BY <2>1, <2>2, <2>3 DEF AsAsked
  <2>8. AnswerRight(h)'
    <3>1. h \notin starved'
      BY <1>2, <2>1 DEF AnswerRight
    <3> QED
      BY <2>1, <2>4, <2>5, <2>6, <2>7, <3>1 DEF AnswerRight, Answered
  <2>9. LogRight(h)'
    BY <1>2, <2>1, <2>4 DEF LogRight
  <2> QED
    BY <1>5, <2>1, <2>3, <2>4, <2>8, <2>9
<1>7. CASE Discard(h)
  <2>1. at[h] = "discard" /\ Goto(h, "open")
        /\ UNCHANGED <<program, request, starved, unread, gone, stuck, reply, logged, file>>
    BY <1>7 DEF Discard, fixed, net
  <2>2. at'[h] = "open" /\ \A g \in Conns : g # h => at'[g] = at[g]
    BY <1>1, <2>1
  <2>3. AnswerRight(h)'
    BY <1>2, <2>1, <2>2 DEF AnswerRight, Answered, AsAsked
  <2>4. LogRight(h)'
    BY <1>2, <2>1, <2>2 DEF LogRight
  <2> QED
    BY <1>5, <2>1, <2>2, <2>3, <2>4
<1>8. CASE Open(h)
  <2>1. at[h] = "open" /\ UNCHANGED <<program, request, unread, gone, stuck, reply, logged, file>>
    BY <1>8 DEF Open, net
  <2>2. \/ Goto(h, "head") /\ UNCHANGED starved
        \/ /\ Goto(h, "absent") /\ (file[h] \notin Files \/ FreeFds(Proc(h)) = {})
           /\ starved' = IF file[h] \in Files THEN starved \cup {h} ELSE starved
    BY <1>8 DEF Open
  <2>3. /\ at'[h] \in {"head", "absent"} /\ \A g \in Conns : g # h => at'[g] = at[g]
        /\ starved' \subseteq starved \cup {h} /\ starved \subseteq starved' /\ h \notin starved
    BY <1>1, <1>2, <2>1, <2>2 DEF AnswerRight
  <2>4. /\ h \in starved' => program \in {"thread", "cached"} /\ at'[h] = "absent"
        /\ at'[h] = "absent" => file'[h] = "missing" \/ h \in starved'
    <3>1. program \in {"iter", "proc"} => FreeFds(Proc(h)) # {}
      BY <2>1, RoomLeft
    <3>2. file[h] \in Names /\ program \in {"iter", "thread", "cached", "proc"}
      BY <1>2, <2>1, ProgramsAssumption DEF FoundRight, FilesFit, TablesInv, HandlerTypes
    <3>3. CASE Goto(h, "head") /\ UNCHANGED starved
      <4>1. at'[h] = "head"
        BY <1>1, <3>3
      <4> QED
        BY <2>3, <3>3, <4>1
    <3>4. CASE /\ Goto(h, "absent") /\ (file[h] \notin Files \/ FreeFds(Proc(h)) = {})
               /\ starved' = IF file[h] \in Files THEN starved \cup {h} ELSE starved
      <4>1. at'[h] = "absent"
        BY <1>1, <3>4
      <4> QED
        BY <2>1, <2>3, <3>1, <3>2, <3>4, <4>1 DEF Names
    <3> QED
      BY <2>2, <3>3, <3>4
  <2>5. AnswerRight(h)'
    BY <1>2, <2>1, <2>3, <2>4 DEF AnswerRight, Answered, AsAsked
  <2>6. LogRight(h)'
    BY <1>2, <2>1, <2>3 DEF LogRight
  <2> QED
    BY <1>5, <2>1, <2>3, <2>5, <2>6
<1> QED
  BY <1>6, <1>7, <1>8 DEF Asks

LEMMA AnswersReplies ==
    ASSUME TablesInv, CacheInv, AnswersInv, NEW h \in Conns,
           \/ Replies(h, "absent", << <<"404">> >>, After404)
           \/ Replies(h, "head", << <<"200">> >>, After200)
           \/ SendsPage(h)
           \/ program = "cached" /\ SendsCopy(h)
    PROVE  AnswersInv'
<1> USE DEF AnswersInv
<1>1. ASSUME NEW l, Goto(h, l) PROVE at'[h] = l /\ \A g \in Conns : g # h => at'[g] = at[g]
  BY <1>1 DEF Goto, TablesInv, HandlerTypes
<1>2. AnswerRight(h) /\ LogRight(h) /\ FoundRight(h) /\ StaleRight(h)
  BY DEF CacheInv
<1>3. \E n \in 0 .. 3 : Len(reply[h]) = n
  BY DEF ReplyTypes
<1>4. ASSUME NEW items, Deliver(h, items), NEW l, Goto(h, l), at[h] \in Talking,
             UNCHANGED <<program, request, starved, file, logged, cache_index, stale>>,
             ~gone[h] => \E n \in 0 .. 3 : Len(reply[h] \o items) = n,
             AnswerRight(h)', LogRight(h)'
      PROVE  AnswersInv'
  <2>1. /\ UNCHANGED <<unread, gone, stuck>>
        /\ reply' = [c \in Conns |-> reply'[c]]
        /\ \A g \in Conns : g # h => reply'[g] = reply[g]
        /\ reply'[h] = IF gone[h] THEN reply[h] ELSE reply[h] \o items
    BY <1>4, SendsToClient
  <2>2. \E n \in 0 .. 3 : Len(reply'[h]) = n
    BY <1>3, <1>4, <2>1
  <2>3. \A g \in Conns : g # h => at'[g] = at[g]
    BY <1>1, <1>4
  <2> QED
    BY <1>4, <2>1, <2>2, <2>3, AnswersFrame
<1>5. CASE Replies(h, "absent", << <<"404">> >>, After404)
  <2>1. /\ at[h] = "absent" /\ Deliver(h, << <<"404">> >>) /\ Goto(h, After404)
        /\ UNCHANGED <<program, request, starved, file, logged, cache_index, stale>>
    BY <1>5 DEF Replies, fixed, cacheVars
  <2>2. at'[h] = After404 /\ at[h] \in Talking
    BY <1>1, <2>1 DEF Talking
  <2>3. reply[h] = <<>> /\ (~gone[h] => reply'[h] = << <<"404">> >>) /\ (gone[h] => reply'[h] = <<>>)
        /\ UNCHANGED <<unread, gone>>
    <3>1. reply[h] = <<>>
      BY <1>2, <2>1 DEF AnswerRight
    <3>2. UNCHANGED <<unread, gone>> /\ reply'[h] = IF gone[h] THEN reply[h] ELSE reply[h] \o << <<"404">> >>
      BY <2>1, <2>2, SendsToClient
    <3>3. <<>> \o << <<"404">> >> = << <<"404">> >>
      BY CatNone
    <3> QED
      BY <3>1, <3>2, <3>3, Zenon
  <2>4. file[h] \in Names /\ cache_index[h] = -1 /\ program \in {"iter", "thread", "cached", "proc"}
    BY <1>2, <2>1, ProgramsAssumption DEF FoundRight, FilesFit, TablesInv, HandlerTypes
  <2>5. ~gone[h] => reply'[h] \in Answers(h)'
    <3>1. << <<"404">> >> \in Answers(h)
      <4>1. file[h] # "bad" /\ (file[h] = "missing" \/ h \in starved)
        BY <1>2, <2>1, <2>4, HttpAssumption DEF Names, AnswerRight
      <4>2. h \notin starved => file[h] \notin Files
        BY <4>1, HttpAssumption
      <4>3. Answers(h) = { << <<"404">> >> }
        BY <4>1, <4>2, Zenon DEF Answers
      <4> QED
        BY <4>3
    <3>2. Answers(h)' = Answers(h)
      BY <2>1, AnswersSame
    <3> QED
      BY <2>3, <3>1, <3>2
  <2>6. ~gone[h] => AsAsked(h)
    BY <1>2, <2>1 DEF AnswerRight
  <2>7. AnswerRight(h)'
    BY <1>2, <2>1, <2>2, <2>3, <2>5, <2>6 DEF AnswerRight, After404, AsAsked
  <2>8. LogRight(h)'
    BY <1>2, <2>1, <2>2, <2>3, Lengths DEF LogRight, After404
  <2>9. ~gone[h] => \E n \in 0 .. 3 : Len(reply[h] \o << <<"404">> >>) = n
    BY <2>3, Lengths
  <2> QED
    BY <1>4, <2>1, <2>2, <2>7, <2>8, <2>9
<1>6. CASE Replies(h, "head", << <<"200">> >>, After200)
  <2>1. /\ at[h] = "head" /\ Deliver(h, << <<"200">> >>) /\ Goto(h, After200)
        /\ UNCHANGED <<program, request, starved, file, logged, cache_index, stale>>
    BY <1>6 DEF Replies, fixed, cacheVars
  <2>2. at'[h] = After200 /\ at[h] \in Talking
    BY <1>1, <2>1 DEF Talking
  <2>3. reply[h] = <<>> /\ (~gone[h] => reply'[h] = << <<"200">> >>) /\ (gone[h] => reply'[h] = <<>>)
        /\ UNCHANGED <<unread, gone>>
    <3>1. reply[h] = <<>>
      BY <1>2, <2>1 DEF AnswerRight
    <3>2. UNCHANGED <<unread, gone>> /\ reply'[h] = IF gone[h] THEN reply[h] ELSE reply[h] \o << <<"200">> >>
      BY <2>1, <2>2, SendsToClient
    <3>3. <<>> \o << <<"200">> >> = << <<"200">> >>
      BY CatNone
    <3> QED
      BY <3>1, <3>2, <3>3, Zenon
  <2>4. ~gone[h] => AsAsked(h)
    BY <1>2, <2>1 DEF AnswerRight
  <2>5. AnswerRight(h)'
    BY <1>2, <2>1, <2>2, <2>3, <2>4 DEF AnswerRight, After200, Answered, AsAsked
  <2>6. LogRight(h)'
    BY <1>2, <2>1, <2>2 DEF LogRight, After200
  <2>7. ~gone[h] => \E n \in 0 .. 3 : Len(reply[h] \o << <<"200">> >>) = n
    BY <2>3, Lengths
  <2> QED
    BY <1>4, <2>1, <2>2, <2>5, <2>6, <2>7
<1>7. CASE SendsPage(h)
  <2> DEFINE page == Page(file[h], "all", file[h])
  <2>1. /\ at[h] = "body" /\ Deliver(h, <<page>>) /\ Goto(h, AfterBody)
        /\ UNCHANGED <<program, request, starved, file, logged, cache_index, stale>>
    BY <1>7 DEF SendsPage, fixed, cacheVars
  <2>2. at'[h] = AfterBody /\ at[h] \in Talking
    BY <1>1, <2>1 DEF Talking
  <2>3. ~gone[h] => reply[h] = << <<"200">> >>
    BY <1>2, <2>1 DEF AnswerRight
  <2>4. file[h] \in Files /\ cache_index[h] = -1 /\ file[h] \notin {"bad", "missing"} /\ h \notin starved
    BY <1>2, <2>1, HttpAssumption DEF FoundRight, FilesFit, AnswerRight
  <2>5. << <<"200">>, page >> \in Answers(h)
    BY <2>4 DEF Answers
  <2>6. Answers(h)' = Answers(h)
    BY <2>1, AnswersSame
  <2> HIDE DEF page
  <2>7. << <<"200">> >> \o <<page>> = << <<"200">>, page >>
    BY CatOne
  <2>8. (~gone[h] => reply'[h] = << <<"200">>, page >>) /\ UNCHANGED <<unread, gone>>
    BY <2>1, <2>2, <2>3, <2>7, SendsToClient
  <2>9. ~gone[h] => AsAsked(h)
    BY <1>2, <2>1 DEF AnswerRight
  <2>10. AnswerRight(h)'
    BY <2>1, <2>2, <2>4, <2>5, <2>6, <2>8, <2>9 DEF AnswerRight, AfterBody, AsAsked
  <2>11. LogRight(h)'
    BY <1>2, <2>1, <2>2 DEF LogRight, AfterBody
  <2>12. ~gone[h] => \E n \in 0 .. 3 : Len(reply[h] \o <<page>>) = n
    <3>1. Len(<< <<"200">>, page >>) = 2
      BY Lengths
    <3> SUFFICES ASSUME ~gone[h] PROVE Len(<< <<"200">>, page >>) \in 0 .. 3
      BY <2>3, <2>7
    <3> QED
      BY <3>1
  <2> QED
    BY <1>4, <2>1, <2>2, <2>10, <2>11, <2>12
<1>8. CASE program = "cached" /\ SendsCopy(h)
  <2> DEFINE page == Page(local_content[h][1], local_content[h][2], cache[cache_index[h]].size)
  <2>1. /\ at[h] = "resend" /\ Deliver(h, << <<"200">>, page >>) /\ Goto(h, "release")
        /\ UNCHANGED <<program, request, starved, file, logged, cache_index, stale>>
    BY <1>8 DEF SendsCopy, Replies, fixed, cacheVars
  <2>2. at'[h] = "release" /\ at[h] \in Talking
    BY <1>1, <2>1 DEF Talking
  <2>3. ~gone[h] => reply[h] = << <<"200">> >>
    BY <1>2, <2>1 DEF AnswerRight
  <2>4. file[h] \in Files /\ cache_index[h] # -1 /\ file[h] \notin {"bad", "missing"} /\ h \notin starved
    BY <1>2, <2>1, HttpAssumption DEF FoundRight, FilesFit, AnswerRight
  <2>5. ASSUME ~stale[h] PROVE page = Page(file[h], Whole(file[h]), file[h])
    <3>1. local_content[h] = <<file[h], Whole(file[h])>> /\ cache[cache_index[h]].name = file[h]
      BY <1>2, <2>1, <2>4, <2>5 DEF StaleRight, Running
    <3>2. cache_index[h] \in Slots /\ cache_index[h] < cache_count
      BY <1>2, <2>4, CacheAssumption DEF FoundRight, TablesInv, HandlerTypes, CacheInv, CacheTypes, Slots
    <3>3. cache[cache_index[h]].size = file[h]
      BY <3>1, <3>2 DEF CacheInv, Filled, IsPage
    <3> QED
      BY <3>1, <3>3
  <2>6. << <<"200">>, <<"200">>, Page(file[h], Whole(file[h]), file[h]) >> \in Answers(h)
    BY <2>4 DEF Answers, Whole
  <2>7. Answers(h)' = Answers(h)
    BY <2>1, AnswersSame
  <2> HIDE DEF page
  <2>8. << <<"200">> >> \o << <<"200">>, page >> = << <<"200">>, <<"200">>, page >>
    BY CatTwo
  <2>9. (~gone[h] => reply'[h] = << <<"200">>, <<"200">>, page >>) /\ UNCHANGED <<unread, gone>>
    BY <2>1, <2>2, <2>3, <2>8, SendsToClient
  <2>10. ~gone[h] => AsAsked(h)
    BY <1>2, <2>1 DEF AnswerRight
  <2>11. ~gone[h] /\ ~stale[h] => reply'[h] \in Answers(h)'
    BY <2>5, <2>6, <2>7, <2>9
  <2>12. AnswerRight(h)'
    BY <2>1, <2>2, <2>4, <2>9, <2>10, <2>11 DEF AnswerRight, AsAsked
  <2>13. LogRight(h)'
    BY <1>2, <2>1, <2>2 DEF LogRight
  <2>14. ~gone[h] => \E n \in 0 .. 3 : Len(reply[h] \o << <<"200">>, page >>) = n
    <3>1. Len(<< <<"200">>, <<"200">>, page >>) = 3
      BY Lengths
    <3> SUFFICES ASSUME ~gone[h] PROVE Len(<< <<"200">>, <<"200">>, page >>) \in 0 .. 3
      BY <2>3, <2>8
    <3> QED
      BY <3>1
  <2> QED
    BY <1>4, <2>1, <2>2, <2>12, <2>13, <2>14
<1> QED
  BY <1>5, <1>6, <1>7, <1>8

LEMMA AnswersLogs ==
    ASSUME TablesInv, CacheInv, AnswersInv, NEW h \in Conns, Logs(h)
    PROVE  AnswersInv'
<1> USE DEF AnswersInv
<1> DEFINE size == IF program = "cached" THEN LoggedSize(h) ELSE file[h]
           l == IF program = "proc" THEN "exit" ELSE "close"
<1>1. /\ at[h] \in {"log", "log404"} /\ Goto(h, l)
      /\ logged' = IF FreeFds(Proc(h)) # {} THEN logged \cup {<<h, size>>} ELSE logged
      /\ UNCHANGED <<program, request, starved, unread, gone, stuck, reply, file, cache_index, stale>>
  BY DEF Logs, Log, fixed, net, cacheVars
<1>2. at'[h] = l /\ \A g \in Conns : g # h => at'[g] = at[g]
  BY <1>1 DEF Goto, TablesInv, HandlerTypes
<1>3. AnswerRight(h) /\ LogRight(h) /\ FoundRight(h) /\ StaleRight(h)
  BY DEF CacheInv
<1>4. reply' = [c \in Conns |-> reply'[c]] /\ \E n \in 0 .. 3 : Len(reply'[h]) = n
  BY <1>1 DEF ReplyTypes
<1>5. AnswerRight(h)'
  <2>1. Answers(h)' = Answers(h)
    BY <1>1, AnswersSame
  <2> QED
    BY <1>1, <1>2, <1>3, <2>1 DEF AnswerRight, Answered, AsAsked
<1>6. ASSUME size \in Files, ~stale[h] PROVE size = file[h]
  <2>1. CASE program # "cached"
    BY <2>1
  <2>2. CASE program = "cached"
    <3>1. at[h] # "log404"
      BY <1>6, <2>2, HttpAssumption DEF LoggedSize
    <3>2. CASE cache_index[h] = -1
      BY <2>2, <3>1, <3>2 DEF LoggedSize
    <3>3. CASE cache_index[h] # -1
      <4>1. cache[cache_index[h]].name = file[h]
        BY <1>1, <1>3, <1>6, <3>1, <3>3 DEF StaleRight, Running
      <4>2. cache_index[h] \in Slots /\ cache_index[h] < cache_count
        BY <1>3, <3>3, CacheAssumption DEF FoundRight, TablesInv, HandlerTypes, CacheInv, CacheTypes, Slots
      <4>3. cache[cache_index[h]].size = file[h]
        BY <4>1, <4>2 DEF CacheInv, Filled, IsPage
      <4> QED
        BY <2>2, <3>1, <3>3, <4>3 DEF LoggedSize
    <3> QED
      BY <3>2, <3>3
  <2> QED
    BY <2>1, <2>2
<1>7. program = "proc" => size = file[h] /\ FreeFds(Proc(h)) # {}
  <2>1. program = "proc" => at[h] = "log"
    BY <1>1 DEF TablesInv, LabelsRight
  <2> QED
    BY <2>1, RoomLeft
<1> HIDE DEF size
<1>8. \A s : <<h, s>> \in logged' => <<h, s>> \in logged \/ s = size
  BY <1>1
<1>9. \A s \in Files : <<h, s>> \notin logged
  BY <1>1, <1>3 DEF LogRight
<1>10. LogRight(h)'
  <2>1. program = "proc" => <<h, file[h]>> \in logged'
    BY <1>1, <1>7
  <2> QED
    BY <1>1, <1>2, <1>6, <1>8, <1>9, <2>1 DEF LogRight
<1>11. \A g \in Conns : g # h => \A s : <<g, s>> \in logged' <=> <<g, s>> \in logged
  BY <1>1
<1> QED
  BY <1>1, <1>2, <1>4, <1>5, <1>10, <1>11, AnswersFrame

LEMMA AnswersSearches ==
    ASSUME TablesInv, CacheInv, AnswersInv, NEW h \in Conns, Searches(h)
    PROVE  AnswersInv'
<1> USE DEF AnswersInv
<1>1. ASSUME NEW l, Goto(h, l) PROVE at'[h] = l /\ \A g \in Conns : g # h => at'[g] = at[g]
  BY <1>1 DEF Goto, TablesInv, HandlerTypes
<1>2. UNCHANGED <<program, request, starved, unread, gone, stuck, reply, file, logged>> /\ program = "cached"
  BY DEF Searches, FindCachedPage, Hit, DecrementRefCount, AddPage, StartEviction, ShiftPage, OverwriteLast,
         httpVars, fixed, net
<1>3. AnswerRight(h) /\ LogRight(h) /\ FoundRight(h)
  BY DEF CacheInv
<1>4. reply' = [c \in Conns |-> reply'[c]] /\ \E n \in 0 .. 3 : Len(reply'[h]) = n
  BY <1>2 DEF ReplyTypes
<1>5. ASSUME \A g \in Conns : g # h => /\ at'[g] = at[g] /\ cache_index'[g] = cache_index[g]
                                       /\ stale[g] => stale'[g],
             AnswerRight(h)', LogRight(h)'
      PROVE  AnswersInv'
  BY <1>2, <1>4, <1>5, AnswersFrame
<1>6. ASSUME at[h] = "find", at'[h] \in {"find", "hit", "body"},
             \A g \in Conns : g # h => /\ at'[g] = at[g] /\ cache_index'[g] = cache_index[g]
                                       /\ stale[g] => stale'[g]
      PROVE  AnswersInv'
  <2>1. AnswerRight(h)'
    BY <1>2, <1>3, <1>6 DEF AnswerRight, Answered, AsAsked
  <2>2. LogRight(h)'
    BY <1>2, <1>3, <1>6 DEF LogRight
  <2> QED
    BY <1>5, <1>6, <2>1, <2>2
<1>7. ASSUME <<at[h], at'[h]>> \in {<<"hit", "resend">>, <<"release", "log">>, <<"insert", "log">>,
                                    <<"insert", "shift">>, <<"shift", "shift">>, <<"shift", "log">>},
             UNCHANGED cache_index, stale[h] => stale'[h],
             \A g \in Conns : g # h => at'[g] = at[g] /\ (stale[g] => stale'[g])
      PROVE  AnswersInv'
  <2>1. Answers(h)' = Answers(h)
    BY <1>2, <1>7, AnswersSame
  <2>2. \/ at[h] = "hit" /\ at'[h] = "resend"
        \/ at[h] \in {"release", "insert", "shift"} /\ at'[h] \in {"log", "shift"}
    BY <1>7
  <2>3. AnswerRight(h)'
    BY <1>2, <1>3, <1>7, <2>1, <2>2 DEF AnswerRight, Answered, AsAsked
  <2>4. LogRight(h)'
    BY <1>2, <1>3, <2>2 DEF LogRight
  <2> QED
    BY <1>5, <1>7, <2>3, <2>4
<1>8. CASE FindCachedPage(h)
  <2>1. at[h] = "find"
    BY <1>8 DEF FindCachedPage
  <2>2. CASE Goto(h, "body") /\ UNCHANGED <<cache_index, scan, stale>>
    BY <1>1, <1>6, <2>1, <2>2
  <2>3. CASE UNCHANGED <<at, cache_index, stale>>
    BY <1>6, <2>1, <2>3
  <2>4. CASE /\ cache_index' = [cache_index EXCEPT ![h] = scan[h]]
             /\ Goto(h, "hit")
             /\ stale' = [stale EXCEPT ![h] = (shift # -1)]
    <3>1. \A g \in Conns : g # h => cache_index'[g] = cache_index[g] /\ stale'[g] = stale[g]
      BY <2>4 DEF TablesInv, HandlerTypes, CacheInv, CacheTypes
    <3> QED
      BY <1>1, <1>6, <2>1, <2>4, <3>1
  <2> QED
    BY <1>8, <2>2, <2>3, <2>4 DEF FindCachedPage
<1>9. CASE StartEviction(h)
  <2>1. /\ at[h] = "insert" /\ Goto(h, "shift") /\ UNCHANGED cache_index
        /\ \A g \in Conns : stale[g] => stale'[g]
    BY <1>9 DEF StartEviction
  <2> QED
    BY <1>1, <1>7, <2>1
<1>10. CASE Hit(h) \/ DecrementRefCount(h) \/ AddPage(h) \/ OverwriteLast(h)
  <2>1. /\ UNCHANGED <<cache_index, stale>>
        /\ \/ at[h] = "hit" /\ Goto(h, "resend")
           \/ at[h] \in {"release", "insert", "shift"} /\ Goto(h, "log")
    BY <1>10 DEF Hit, DecrementRefCount, AddPage, OverwriteLast
  <2> QED
    BY <1>1, <1>7, <2>1
<1>11. CASE ShiftPage(h)
  <2>1. at[h] = "shift" /\ UNCHANGED <<at, cache_index, stale>>
    BY <1>11 DEF ShiftPage, httpVars
  <2> QED
    BY <1>7, <2>1
<1> QED
  BY <1>8, <1>9, <1>10, <1>11 DEF Searches

LEMMA AnswersCloses ==
    ASSUME TablesInv, CacheInv, AnswersInv, NEW h \in Conns, NEW l \in {"ended", "stray"}, Closes(h, l)
    PROVE  AnswersInv'
<1> USE DEF AnswersInv
<1>1. /\ at[h] \in {"bad", "close", "exit", "stray"} /\ Goto(h, l)
      /\ l = "stray" => at[h] = "bad"
      /\ UNCHANGED <<program, request, starved, unread, gone, stuck, reply, file, logged, cache_index, stale>>
  BY DEF Closes, fixed, net, cacheVars
<1>2. at'[h] = l /\ \A g \in Conns : g # h => at'[g] = at[g]
  BY <1>1 DEF Goto, TablesInv, HandlerTypes
<1>3. AnswerRight(h) /\ LogRight(h)
  OBVIOUS
<1>4. reply' = [c \in Conns |-> reply'[c]] /\ \E n \in 0 .. 3 : Len(reply'[h]) = n
  BY <1>1 DEF ReplyTypes
<1>5. AnswerRight(h)'
  <2>1. Answers(h)' = Answers(h)
    BY <1>1, AnswersSame
  <2> QED
    BY <1>1, <1>2, <1>3, <2>1 DEF AnswerRight, Answered, AsAsked
<1>6. at[h] \in {"bad", "stray"} => Len(reply[h]) # 2
  BY <1>3, Lengths DEF AnswerRight
<1>7. LogRight(h)'
  BY <1>1, <1>2, <1>3, <1>6 DEF LogRight
<1> QED
  BY <1>1, <1>2, <1>4, <1>5, <1>7, AnswersFrame

LEMMA AnswersOutside ==
    ASSUME TablesInv, CacheInv, AnswersInv,
           \/ Setup /\ UNCHANGED cacheVars
           \/ Arrives
           \/ \E p \in Procs : Dies(p)
           \/ Clients
           \/ UNCHANGED vars
    PROVE  AnswersInv'
<1>0. stuck \in [Conns -> BOOLEAN]
  BY DEF AnswersInv, ReplyTypes
<1>1. ASSUME UNCHANGED <<program, request, starved, unread, reply, file, logged, cache_index, stale>>,
             stuck' \in [Conns -> BOOLEAN],
             \A g \in Conns :
                 /\ \/ at'[g] = at[g] \/ at'[g] = "killed"
                    \/ at[g] \in {"new", "start", "child"} /\ at'[g] \in {"start", "child", "recv"}
                 /\ gone[g] => gone'[g]
      PROVE  AnswersInv'
  <2>1. \A g \in Conns : AnswerRight(g)' /\ LogRight(g)'
    BY <1>1, AnswerKept
  <2>2. ReplyTypes'
    BY <1>1 DEF AnswersInv, ReplyTypes
  <2> QED
    BY <2>1, <2>2 DEF AnswersInv
<1>2. CASE Setup /\ UNCHANGED cacheVars
  BY <1>0, <1>1, <1>2 DEF Setup, fixed, net, cacheVars
<1>3. CASE Arrives
  BY <1>0, <1>1, <1>3, ArrivesMoves DEF cacheVars
<1>4. ASSUME NEW p \in Procs, Dies(p) PROVE AnswersInv'
  <2>1. /\ UNCHANGED <<program, request, starved, unread, gone, stuck, reply, file, logged, cache_index, stale>>
        /\ \A g \in Conns : at'[g] = at[g] \/ at'[g] = "killed"
    BY <1>4 DEF Dies, Exit, fixed, net, cacheVars
  <2> QED
    BY <1>0, <1>1, <2>1
<1>5. CASE Clients
  <2>1. /\ UNCHANGED <<program, request, starved, unread, at, reply, file, logged, cache_index, stale>>
        /\ \A g \in Conns : gone[g] => gone'[g]
        /\ stuck' \in [Conns -> BOOLEAN]
    BY <1>0, <1>5 DEF Clients, ClientLeaves, ClientStops, ClientReads, fixed, cacheVars, CacheInv, CacheTypes
  <2> QED
    BY <1>1, <2>1
<1>6. CASE UNCHANGED vars
  BY <1>0, <1>1, <1>6 DEF vars, httpVars, fixed, net, cacheVars
<1> QED
  BY <1>2, <1>3, <1>4, <1>5, <1>6

LEMMA AnswersStep ==
    ASSUME TablesInv, CacheInv, AnswersInv, [Next]_vars
    PROVE  AnswersInv'
<1>1. ASSUME NEW h \in Conns, Kinds(h) PROVE AnswersInv'
  BY <1>1, AnswersAsks, AnswersReplies, AnswersLogs, AnswersSearches, AnswersCloses DEF Kinds
<1>2. ASSUME NEW h \in Conns, Step(h) PROVE AnswersInv'
  BY <1>1, <1>2, StepKinds, AnswersOutside
<1>3. CASE Loop
  BY <1>3, LoopKinds, AnswersOutside
<1> QED
  BY <1>2, <1>3, AnswersOutside DEF Next

LEMMA AnswersInit ==
    ASSUME Init
    PROVE  AnswersInv
<1>1. reply = [c \in Conns |-> <<>>] /\ at = [h \in Conns |-> "new"] /\ logged = {}
  BY DEF Init, HttpInit
<1>2. \A h \in Conns : reply[h] = <<>> /\ at[h] = "new"
  BY <1>1
<1>3. ReplyTypes /\ starved = {}
  BY <1>1, <1>2, Lengths DEF ReplyTypes, Init, HttpInit
<1>4. \A h \in Conns : AnswerRight(h) /\ LogRight(h)
  BY <1>1, <1>2, <1>3 DEF AnswerRight, LogRight, Answered
<1> QED
  BY <1>3, <1>4 DEF AnswersInv

LEMMA AnswersAlways ==
    ASSUME NoLateStart
    PROVE  Spec => [](TablesInv /\ CacheInv /\ RefsInv /\ AnswersInv)
<1>1. Init => AnswersInv
  BY AnswersInit
<1>2. TablesInv /\ CacheInv /\ AnswersInv /\ [Next]_vars => AnswersInv'
  BY AnswersStep
<1> QED
  BY <1>1, <1>2, RefsAlways, PTL DEF Spec

(* Whichever of the four programs serves, a client that waits gets the     *)
(* answer to its own request, or to what the first part of it shows when   *)
(* it comes in parts, and the line of the log is about it                  *)
(* (client_function of each program); the variables keep their types.      *)
THEOREM EveryClientIsServedRight ==
    ASSUME NoLateStart
    PROVE  Spec => []ServedRight
<1>1. TablesInv /\ AnswersInv => AnswersRight /\ LogsRight
  <2> SUFFICES ASSUME TablesInv, AnswersInv PROVE AnswersRight /\ LogsRight
    OBVIOUS
  <2>1. AnswersRight
    BY DEF AnswersInv, ReplyTypes, AnswerRight, AnswersRight, AsAsked
  <2>2. LogsRight
    BY DEF AnswersInv, LogRight, LogsRight
  <2> QED
    BY <2>1, <2>2
<1>2. TablesInv /\ CacheInv /\ RefsInv /\ AnswersInv => TypeOK
  <2> SUFFICES ASSUME TablesInv, CacheInv, RefsInv, AnswersInv PROVE TypeOK
    OBVIOUS
  <2> USE DEF TablesInv, HandlerTypes, CacheInv, CacheTypes
  <2>1. /\ Slots = 0 .. CacheSize - 1 /\ CacheSize \in Nat \ {0} /\ NConns \in Nat
    BY CacheAssumption, HttpAssumption DEF Slots
  <2>2. ASSUME NEW i \in Slots PROVE cache[i] \in PageKind /\ (cache[i].valid <=> i < cache_count)
    <3>1. cache[i] \in PageRecord
      OBVIOUS
    <3>2. CASE i < cache_count
      <4>1. /\ 1 - Cardinality(Givers) <= cache[i].refs /\ cache[i].refs <= 1 + Cardinality(Takers)
            /\ Cardinality(Takers) \in 0 .. NConns /\ Cardinality(Givers) \in 0 .. NConns
        BY <3>2, CountsAreNumbers DEF RefsInv, RefsBounded
      <4>2. cache[i].refs \in -NConns .. NConns + 1
        BY <2>1, <3>1, <4>1 DEF PageRecord
      <4>3. cache[i].valid
        BY <3>2 DEF Filled, IsPage
      <4> QED
        BY <3>1, <3>2, <4>2, <4>3 DEF PageRecord, PageKind
    <3>3. CASE ~(i < cache_count)
      <4>1. cache[i] = EmptyPage
        BY <3>3 DEF Filled
      <4>2. EmptyPage \in PageKind /\ EmptyPage.valid = FALSE
        BY <2>1 DEF EmptyPage, PageKind
      <4> QED
        BY <3>3, <4>1, <4>2
    <3> QED
      BY <3>2, <3>3
  <2>3. cache \in [Slots -> PageKind]
    BY <2>2
  <2>4. ASSUME NEW h \in Conns PROVE cache_index[h] \in Slots \cup {-1} /\ Len(reply[h]) <= 3
    <3>1. FoundRight(h) /\ \E n \in 0 .. 3 : Len(reply[h]) = n
      BY DEF AnswersInv, ReplyTypes
    <3> QED
      BY <2>1, <3>1 DEF FoundRight
  <2>5. cache_index \in [Conns -> Slots \cup {-1}]
    BY <2>4
  <2>6. file \in [Conns -> Names \cup {"bad", "none", "silent"}]
    OBVIOUS
  <2> QED
    BY <2>2, <2>3, <2>4, <2>5, <2>6 DEF TypeOK, Entry, AnswersInv, ReplyTypes
<1> QED
  BY <1>1, <1>2, AnswersAlways, PTL DEF ServedRight
================================================================================
