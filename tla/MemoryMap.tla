------------------------------- MODULE MemoryMap -------------------------------
(***************************************************************************)
(* prctl(PR_SET_MM) of project4/sys.c: the threads of a process describe   *)
(* its memory anew.  Some calls change one address of the description,     *)
(* which is read, checked and stored under the mmap lock for reading and   *)
(* arg_lock; others change all of it at once, the auxiliary vector, or the *)
(* file that is said to be executed.                                       *)
(***************************************************************************)
EXTENDS Integers, Sequences

CONSTANTS
    Threads,
    Segments,       \* among "code", "data", "brk", "arg" and "env"
    MinAddr, MaxAddr,  \* mmap_min_addr, and the last address below TASK_SIZE
    Backed,         \* the addresses for which find_vma finds something
    AuxSize,        \* AT_VECTOR_SIZE
    Given,          \* the whole descriptions that are given
    Vectors,        \* the auxiliary vectors that are given
    Files, Executable, Exe,   \* files, those that may be executed, the first
    DataLimits,     \* the possible values of RLIMIT_DATA
    Nothing

Addrs == MinAddr .. MaxAddr

ASSUME MemoryMapAssumption ==
    /\ MinAddr \in Nat /\ MaxAddr \in Nat /\ 0 < MinAddr /\ MinAddr < MaxAddr
    /\ Segments \subseteq {"code", "data", "brk", "arg", "env"}
    /\ {"data", "brk"} \subseteq Segments
    /\ AuxSize \in Nat /\ AuxSize > 2
    /\ Vectors \subseteq Seq(Nat) /\ \A v \in Vectors : 0 < Len(v) /\ Len(v) =< AuxSize
    /\ Executable \subseteq Files /\ Exe \in Executable
    /\ DataLimits \subseteq Nat /\ DataLimits # {}
    /\ Nothing \notin Threads

VARIABLES
    map,      \* the addresses in mm_struct
    limit,    \* RLIMIT_DATA
    auxv,     \* saved_auxv
    exe,      \* exe_file
    mapped,   \* the files that are mapped
    doing,    \* what each thread is in the middle of, or None
    locked    \* the thread with arg_lock, which has the mmap lock for reading

mapVars == <<map, limit, auxv, exe, mapped, doing, locked>>

Fields == (Segments \X {"start", "end"}) \cup {<<"stack", "start">>}
Maps == [Fields -> Addrs]

(* The calls that threads are in the middle of. *)
FieldCalls == [op : {"field"}, new : Maps, f : Fields, a : Addrs]
MapCalls == [op : {"map", "auxv", "exe", "exchange"}, new : Maps \cup {Nothing},
             v : Vectors \cup {Nothing}, x : Files \cup {Nothing}]

Size(m, s) == m[<<s, "end">>] - m[<<s, "start">>]

(* check_data_rlimit *)
DataSize(m) == Size(m, "brk") + Size(m, "data")

(* Mutant: the order of the pairs is not checked. *)
ValidInRange(m) == DataSize(m) =< limit

Ordered(m) ==
    \A s \in Segments : Size(m, s) >= (IF s = "code" THEN 1 ELSE 0)

(* validate_prctl_map_addr, for addresses in range *)
Valid(m) == Ordered(m) /\ DataSize(m) =< limit

(* As execve leaves it, with the map m and the limit n. *)
Loaded(m, n) ==
    /\ limit = n
    /\ map = m
    /\ auxv = [i \in 1 .. AuxSize |-> 0]
    /\ exe = Exe
    /\ mapped = {Exe}
    /\ doing = [t \in Threads |-> Nothing]
    /\ locked = Nothing

Loadable(m, n) == Ordered(m) /\ Size(m, "brk") + Size(m, "data") =< n

MapInit == \E m \in Maps, n \in DataLimits : Loadable(m, n) /\ Loaded(m, n)

Begin(t, what) ==
    /\ doing[t] = Nothing
    /\ doing' = [doing EXCEPT ![t] = what]

------------------------------------------------------------------------------
(* prctl_set_mm with the number of a field. *)

(* Mutant: no lock is held between the reading and the storing. *)
CopyUnlocked(t, f, a) ==
    /\ Begin(t, [op |-> "field", new |-> [map EXCEPT ![f] = a], f |-> f, a |-> a])
    /\ UNCHANGED <<map, limit, auxv, exe, mapped, locked>>

Copy(t, f, a) ==
    /\ locked = Nothing
    /\ Begin(t, [op |-> "field", new |-> [map EXCEPT ![f] = a], f |-> f, a |-> a])
    /\ locked' = t
    /\ UNCHANGED <<map, limit, auxv, exe, mapped>>

(* The copy is stored if it is valid.  What lies on the stack must be      *)
(* there.                                                                  *)
Store(t) ==
    /\ doing[t] # Nothing /\ doing[t].op = "field"
    /\ map' = IF /\ Valid(doing[t].new)
                 /\ doing[t].f[1] \in {"stack", "arg", "env"} => doing[t].a \in Backed
              THEN doing[t].new ELSE map
    /\ doing' = [doing EXCEPT ![t] = Nothing]
    /\ locked' = IF locked = t THEN Nothing ELSE locked
    /\ UNCHANGED <<limit, auxv, exe, mapped>>

(* The vector as it is copied in, with AT_NULL at the end. *)
Terminated(v) == [i \in 1 .. Len(v) |-> IF i > AuxSize - 2 THEN 0 ELSE v[i]]

(* prctl_set_auxv: what was given replaces the beginning. *)
SetAuxv(t, v) ==
    /\ doing[t] = Nothing
    /\ auxv' = [i \in 1 .. AuxSize |-> IF i =< Len(v) THEN Terminated(v)[i] ELSE auxv[i]]
    /\ UNCHANGED <<map, limit, exe, mapped, doing, locked>>

------------------------------------------------------------------------------
(* prctl_set_mm_map *)

(* The new description is checked before anything is changed. *)
SetMap(t, m, v, x) ==
    /\ Valid(m)
    /\ Begin(t, [op |-> IF x = Nothing THEN "map" ELSE "exe", new |-> m, v |-> v, x |-> x])
    /\ UNCHANGED <<map, limit, auxv, exe, mapped, locked>>

StoreMap(t) ==
    /\ doing[t] # Nothing /\ doing[t].op = "map"
    /\ locked = Nothing
    /\ map' = doing[t].new
    /\ doing' = [doing EXCEPT ![t] = IF @.v = Nothing THEN Nothing ELSE [@ EXCEPT !.op = "auxv"]]
    /\ UNCHANGED <<limit, auxv, exe, mapped, locked>>

(* The vector is padded with zeros, so that all of the old one goes.  The  *)
(* mmap lock is still held, arg_lock is not.                               *)
StoreAuxv(t) ==
    /\ doing[t] # Nothing /\ doing[t].op = "auxv"
    /\ auxv' = [i \in 1 .. AuxSize |->
                   IF i =< Len(doing[t].v) THEN Terminated(doing[t].v)[i] ELSE 0]
    /\ doing' = [doing EXCEPT ![t] = Nothing]
    /\ UNCHANGED <<map, limit, exe, mapped, locked>>

------------------------------------------------------------------------------
(* prctl_set_mm_exe_file, on its own or before a new description. *)

SetExe(t, x) ==
    /\ Begin(t, [op |-> "exe", new |-> Nothing, v |-> Nothing, x |-> x])
    /\ UNCHANGED <<map, limit, auxv, exe, mapped, locked>>

(* Under the mmap lock, which is let go again. *)
CheckExe(t) ==
    /\ doing[t] # Nothing /\ doing[t].op = "exe"
    /\ doing' = [doing EXCEPT ![t] =
          IF @.x \in Executable /\ exe \notin mapped
          THEN [@ EXCEPT !.op = "exchange"] ELSE Nothing]
    /\ UNCHANGED <<map, limit, auxv, exe, mapped, locked>>

(* xchg, lockless *)
ExchangeExe(t) ==
    /\ doing[t] # Nothing /\ doing[t].op = "exchange"
    /\ exe' = doing[t].x
    /\ doing' = [doing EXCEPT ![t] = IF @.new = Nothing THEN Nothing ELSE [@ EXCEPT !.op = "map"]]
    /\ UNCHANGED <<map, limit, auxv, mapped, locked>>

------------------------------------------------------------------------------
(* The rest of the kernel, with the mmap lock for writing: brk, mmap and   *)
(* munmap.                                                                 *)
NoReader == \A t \in Threads : doing[t] # Nothing => doing[t].op \notin {"field", "auxv"}

Brk(t, a) ==
    /\ doing[t] = Nothing /\ NoReader
    /\ LET m == [map EXCEPT ![<<"brk", "end">>] = a] IN
       /\ Valid(m)
       /\ map' = m
    /\ UNCHANGED <<limit, auxv, exe, mapped, doing, locked>>

MapFile(t, x) ==
    /\ doing[t] = Nothing /\ NoReader
    /\ mapped' \in {mapped \cup {x}, mapped \ {x}}
    /\ UNCHANGED <<map, limit, auxv, exe, doing, locked>>

MapNext ==
    \E t \in Threads :
        \/ \E f \in Fields, a \in Addrs : Copy(t, f, a)
        \/ \E a \in Addrs : Brk(t, a)
        \/ \E v \in Vectors : SetAuxv(t, v)
        \/ \E m \in Given \cap Maps, v \in Vectors \cup {Nothing}, x \in Files \cup {Nothing} : SetMap(t, m, v, x)
        \/ \E x \in Files : SetExe(t, x) \/ MapFile(t, x)
        \/ Store(t) \/ StoreMap(t) \/ StoreAuxv(t) \/ CheckExe(t) \/ ExchangeExe(t)

MapSpec == MapInit /\ [][MapNext]_mapVars
------------------------------------------------------------------------------
(* Every variable stays in its range; what is executed is executable. *)
MapTypeOK ==
    /\ map \in Maps
    /\ limit \in DataLimits
    /\ auxv \in [1 .. AuxSize -> Nat]
    /\ exe \in Executable
    /\ mapped \subseteq Files
    /\ doing \in [Threads -> {Nothing} \cup FieldCalls \cup MapCalls]
    /\ locked \in Threads \cup {Nothing}

(* The segments never end before they start, although each call checks the *)
(* pair it changes half of, and another thread may change the other half   *)
(* (lines 2071-2079, 2274-2283).                                           *)
MapOrdered == Ordered(map)

(* No way of describing the memory gets round the limit of data, whatever  *)
(* order the two segments it counts are changed in (lines 2084-2091).      *)
DataWithinLimit == DataSize(map) =< limit

(* "Make sure the last entry is always AT_NULL": whichever of the calls    *)
(* wrote whichever part of the vector last (lines 2142-2144, 2233-2235).   *)
AuxvTerminated == auxv[AuxSize - 1] = 0 /\ auxv[AuxSize] = 0

(* A call changes the address it names and no other, though it writes all  *)
(* of them back as it read them: nothing another thread or brk did since   *)
(* is undone (lines 2274-2283, 2361-2374).                                 *)
OneFieldChanges ==
    [][\A t \in Threads, f \in Fields :
          Store(t) /\ map'[f] # map[f] => f = doing[t].f]_mapVars

(* Whatever calls of however many threads describe the memory: what they   *)
(* checked holds of what is there in the end.                              *)
DescriptionHolds == MapTypeOK /\ MapOrdered /\ DataWithinLimit /\ AuxvTerminated
==============================================================================
