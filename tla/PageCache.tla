------------------------------- MODULE PageCache -------------------------------
(***************************************************************************)
(* What the cache of server_cached.c promises: it holds the last pages     *)
(* read from disk, and when it is full the oldest makes room.              *)
(***************************************************************************)
EXTENDS Naturals, Sequences

CONSTANTS Names, Size, Starts

VARIABLE pages      \* the names of the pages, the oldest first

Init == pages \in Starts

Evict == Len(pages) = Size /\ pages' = Tail(pages)

Add(name) == Len(pages) < Size /\ pages' = Append(pages, name)

Spec == Init /\ [][Evict \/ \E name \in Names : Add(name)]_pages
================================================================================
