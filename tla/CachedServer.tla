------------------------------ MODULE CachedServer ------------------------------
(***************************************************************************)
(* server_cached.c of project3: the threaded server with a cache of pages. *)
(* A thread looks its file up without the mutex, and uses the index it     *)
(* found after that, part of the time under the mutex.  A page that was    *)
(* read from disk enters the cache under the mutex; when the cache is full *)
(* the entries move down by one, one after the other.                      *)
(***************************************************************************)
EXTENDS ThreadServer

CONSTANTS
    CacheSize,      \* CACHE_SIZE
    WarmCaches,     \* what earlier requests may have left: sequences of files
    Leaks           \* and how many descriptors (see Hit)

Slots == 0 .. CacheSize - 1

ASSUME CacheAssumption ==
    /\ CacheSize \in Nat \ {0}
    /\ Leaks \subseteq 0 .. NFds - 1
    /\ \A w \in WarmCaches : w \in Seq(Files) /\ Len(w) <= CacheSize

VARIABLES
    cache, cache_count,
    cache_index,     \* each thread's cache_index
    scan,            \* how far its search has come
    local_content,   \* its copy of the content of a page
    shift,           \* the entry being overwritten while the entries move down
    stale            \* history: an eviction began after the thread looked its file up

cacheVars == <<cache, cache_count, cache_index, scan, local_content, shift, stale>>

EmptyPage == [name |-> "none", part |-> "none", size |-> "none", refs |-> 0, valid |-> FALSE]

(* The content kept of a file is what the last read left in the buffer:    *)
(* of a file longer than the buffer its end, and what is in memory behind  *)
(* it; of any other at least the file.                                     *)
PageOf(name) == [name |-> name, part |-> IF name \in Big THEN "end" ELSE "all",
                 size |-> name, refs |-> 1, valid |-> TRUE]

CacheInit(w) ==
    /\ cache_count = Len(w)
    /\ cache = [i \in Slots |-> IF i < Len(w) THEN PageOf(w[i + 1]) ELSE EmptyPage]
    /\ cache_index = [h \in Conns |-> -1]
    /\ scan = [h \in Conns |-> 0]
    /\ local_content = [h \in Conns |-> <<"none", "none">>]
    /\ shift = -1
    /\ stale = [h \in Conns |-> FALSE]

(* The program has answered requests before; each that was answered from   *)
(* the cache left a descriptor open.                                       *)
WarmStart ==
    /\ server = "accept"
    /\ \E n \in Leaks :
          desc = [p \in Procs |-> [f \in Fds |->
                    CASE p = Server /\ f = 0 -> Fd("listen", Nobody)
                      [] p = Server /\ f \in 1 .. n -> Fd("file", Nobody)
                      [] OTHER -> FreeFd]]

(* find_cached_page, one entry a step.  An entry that is being overwritten *)
(* may compare either way.                                                 *)
Matches(h, i) == IF shift = i THEN BOOLEAN ELSE {cache[i].name = file[h]}

(* Mutant: a search that finds nothing returns the last index. *)
FindReturnsLast(h) ==
    /\ at[h] = "find"
    /\ IF cache_count > 0
       THEN cache_index' = [cache_index EXCEPT ![h] = cache_count - 1] /\ Goto(h, "hit")
       ELSE Goto(h, "body") /\ UNCHANGED cache_index
    /\ UNCHANGED <<fixed, net, loop, desc, sock, file, mutex, logged>>
    /\ UNCHANGED <<cache, cache_count, scan, local_content, shift, stale>>

FindCachedPage(h) ==
    /\ at[h] = "find"
    /\ IF scan[h] >= cache_count
       THEN Goto(h, "body") /\ UNCHANGED <<cache_index, scan, stale>>
       ELSE \E match \in Matches(h, scan[h]) :
              IF match
              THEN /\ cache_index' = [cache_index EXCEPT ![h] = scan[h]]
                   /\ Goto(h, "hit")
                   /\ stale' = [stale EXCEPT ![h] = (shift # -1)]
                   /\ UNCHANGED scan
              ELSE /\ scan' = [scan EXCEPT ![h] = @ + 1]
                   /\ UNCHANGED <<at, cache_index, stale>>
    /\ UNCHANGED <<fixed, net, loop, desc, sock, file, mutex, logged>>
    /\ UNCHANGED <<cache, cache_count, local_content, shift>>

(* A hit: under the mutex the page gets a reference and its content is     *)
(* copied.                                                                 *)
Hit(h) ==
    /\ at[h] = "hit"
    /\ mutex = Nobody
    /\ cache' = [cache EXCEPT ![cache_index[h]].refs = @ + 1]
    /\ local_content' = [local_content EXCEPT
                            ![h] = <<cache[cache_index[h]].name, cache[cache_index[h]].part>>]
    /\ Goto(h, "resend")
    /\ UNCHANGED <<fixed, net, loop, desc, sock, file, mutex, logged>>
    /\ UNCHANGED <<cache_count, cache_index, scan, shift, stale>>

(* The headers go out a second time, then the copy, with the size that the *)
(* entry has now.                                                          *)
SendCached(h) ==
    /\ at[h] = "resend"
    /\ Send(h, << <<"200">>, Page(local_content[h][1], local_content[h][2],
                                   cache[cache_index[h]].size) >>, "release")
    /\ UNCHANGED <<fixed, slot, sock, file, mutex, logged>>
    /\ UNCHANGED cacheVars

(* Mutant: the reference is kept. *)
KeepRef(h) ==
    /\ at[h] = "release"
    /\ mutex = Nobody
    /\ Goto(h, "log")
    /\ UNCHANGED <<fixed, net, loop, desc, sock, file, mutex, logged>>
    /\ UNCHANGED cacheVars

(* Mutant: a page without references is dropped, valid or not. *)
DropUnused(h) ==
    /\ at[h] = "release"
    /\ mutex = Nobody
    /\ LET page == [cache[cache_index[h]] EXCEPT !.refs = @ - 1]
           Drop == page.refs = 0
       IN /\ cache' = [cache EXCEPT ![cache_index[h]] = IF Drop THEN EmptyPage ELSE page]
          /\ cache_count' = IF Drop THEN cache_count - 1 ELSE cache_count
    /\ Goto(h, "log")
    /\ UNCHANGED <<fixed, net, loop, desc, sock, file, mutex, logged>>
    /\ UNCHANGED <<cache_index, scan, local_content, shift, stale>>

(* decrement_ref_count; the file that was opened stays open.               *)
DecrementRefCount(h) ==
    /\ at[h] = "release"
    /\ mutex = Nobody
    /\ LET page == [cache[cache_index[h]] EXCEPT !.refs = @ - 1]
           Drop == page.refs = 0 /\ ~page.valid
       IN /\ cache' = [cache EXCEPT ![cache_index[h]] = IF Drop THEN EmptyPage ELSE page]
          /\ cache_count' = IF Drop THEN cache_count - 1 ELSE cache_count
    /\ Goto(h, "log")
    /\ UNCHANGED <<fixed, net, loop, desc, sock, file, mutex, logged>>
    /\ UNCHANGED <<cache_index, scan, local_content, shift, stale>>

(* The page that was read enters a cache that has room. *)
AddPage(h) ==
    /\ at[h] = "insert"
    /\ mutex = Nobody
    /\ cache_count # CacheSize
    /\ cache' = [cache EXCEPT ![cache_count] = PageOf(file[h])]
    /\ cache_count' = cache_count + 1
    /\ Goto(h, "log")
    /\ UNCHANGED <<fixed, net, loop, desc, sock, file, mutex, logged>>
    /\ UNCHANGED <<cache_index, scan, local_content, shift, stale>>

(* The cache is full: an eviction begins. *)
StartEviction(h) ==
    /\ at[h] = "insert"
    /\ mutex = Nobody
    /\ cache_count = CacheSize
    /\ mutex' = h
    /\ shift' = 0
    /\ Goto(h, "shift")
    /\ stale' = [g \in Conns |-> stale[g] \/ (Running(g) /\ cache_index[g] # -1)]
    /\ UNCHANGED <<fixed, net, loop, desc, sock, file, logged>>
    /\ UNCHANGED <<cache, cache_count, cache_index, scan, local_content>>

(* One entry moves down. *)
ShiftPage(h) ==
    /\ at[h] = "shift"
    /\ shift < CacheSize - 1
    /\ cache' = [cache EXCEPT ![shift] = cache[shift + 1]]
    /\ shift' = shift + 1
    /\ UNCHANGED httpVars
    /\ UNCHANGED <<cache_count, cache_index, scan, local_content, stale>>

(* Mutant: the mutex is not given back. *)
OverwriteKeepsMutex(h) ==
    /\ at[h] = "shift"
    /\ shift = CacheSize - 1
    /\ cache' = [cache EXCEPT ![shift] = PageOf(file[h])]
    /\ shift' = -1
    /\ Goto(h, "log")
    /\ UNCHANGED <<fixed, net, loop, desc, sock, file, mutex, logged>>
    /\ UNCHANGED <<cache_count, cache_index, scan, local_content, stale>>

(* The last entry is overwritten. *)
OverwriteLast(h) ==
    /\ at[h] = "shift"
    /\ shift = CacheSize - 1
    /\ cache' = [cache EXCEPT ![shift] = PageOf(file[h])]
    /\ shift' = -1
    /\ mutex' = Nobody
    /\ Goto(h, "log")
    /\ UNCHANGED <<fixed, net, loop, desc, sock, file, logged>>
    /\ UNCHANGED <<cache_count, cache_index, scan, local_content, stale>>

(* strcpy copies up to a NUL, which neither the buffer nor an entry need   *)
(* contain: where it leaves its own entry, whose other fields are set next *)
(* or not looked at, it may end the program.                               *)
CopyOverruns(h) ==
    /\ at[h] = "shift" \/ (at[h] \in {"hit", "insert"} /\ mutex = Nobody)
    /\ Exit(Server)
    /\ UNCHANGED <<fixed, net, slot, sock, file, mutex, logged>>
    /\ UNCHANGED cacheVars

(* The size of the answer as the log shows it: that of an entry of the     *)
(* cache after a hit, and an uninitialised one after a 404.                *)
LoggedSize(h) ==
    CASE at[h] = "log404" -> "garbage"
      [] at[h] # "log404" /\ cache_index[h] = -1 -> file[h]
      [] OTHER -> cache[cache_index[h]].size

CachedAccept(h) == ThreadAccept(h) /\ UNCHANGED cacheVars

CachedStart(h) == ThreadStart(h) /\ UNCHANGED cacheVars
CachedReceive(h) == Receive(h, {}) /\ UNCHANGED cacheVars
CachedDiscard(h) == Discard(h) /\ UNCHANGED cacheVars
CachedOpen(h) == Open(h) /\ UNCHANGED cacheVars
CachedAbsent(h) == Absent(h, "log404") /\ UNCHANGED cacheVars
CachedHead(h) == Head200(h, "find") /\ UNCHANGED cacheVars
CachedBody(h) == Body(h, "insert") /\ UNCHANGED cacheVars
CachedLog(h) == Log(h, LoggedSize(h), "close") /\ UNCHANGED cacheVars
CachedClose(h) == ThreadClose(h) /\ UNCHANGED cacheVars

CachedStep(h) ==
    \/ CachedStart(h) \/ CachedReceive(h) \/ CachedDiscard(h) \/ CachedOpen(h)
    \/ CachedAbsent(h) \/ CachedHead(h) \/ FindCachedPage(h)
    \/ Hit(h) \/ SendCached(h) \/ DecrementRefCount(h)
    \/ CachedBody(h) \/ AddPage(h) \/ StartEviction(h) \/ ShiftPage(h) \/ OverwriteLast(h)
    \/ CopyOverruns(h)
    \/ CachedLog(h) \/ CachedClose(h)

CachedLoop ==
    \/ (Setup \/ AcceptFails \/ CreateFails) /\ UNCHANGED cacheVars
    \/ \E h \in Conns : CachedAccept(h)
================================================================================
