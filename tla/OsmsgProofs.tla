----------------------------- MODULE OsmsgProofs -----------------------------
(***************************************************************************)
(* What is proved of the message system calls and of osmsg on the kernel   *)
(* of the exercise, on which the calls follow one another: one processor   *)
(* and no preemption inside a call (SwitchPoints = {}), for any number of  *)
(* processes, users, messages and objects.                                 *)
(***************************************************************************)
EXTENDS Osmsg, TLAPS, WellFoundedInduction, FiniteSetTheorems, SequenceTheorems

(* The object at position i of the queue; NULL before and behind it. *)
At(i) == IF i \in DOMAIN queue THEN queue[i] ELSE NULL

InQueue == {queue[i] : i \in DOMAIN queue}

(* No message before position i is for the user that p reads for. *)
NoneBefore(p, i) == \A j \in DOMAIN queue : j < i => to[queue[j]] # user[p]

(* The objects that are in the hands of a call. *)
InHand == {curr[p] : p \in {q \in Procs : pc[q] \in {"send_link", "send_publish", "get_free"}}}

(* The links lead along the queue, and it holds no object twice. *)
LinksRight ==
    /\ head = At(1)
    /\ \A i \in DOMAIN queue : next[queue[i]] = At(i + 1)
    /\ \A i, j \in DOMAIN queue : queue[i] = queue[j] => i = j

OneCall == \A p, q \in Procs : pc[p] \in KernelLabels /\ pc[q] \in KernelLabels => p = q

(* The objects in the queue hold messages to users. *)
QueueFilled == \A i \in DOMAIN queue : to[queue[i]] \in Users /\ msg[queue[i]] \in Msgs

(* Where the locals of a call stand in the queue, label by label. *)
Sending(p) ==
    pc[p] \in {"send_link", "send_publish"} =>
        /\ curr[p] \in Nodes \ InQueue
        /\ to[curr[p]] \in Users /\ msg[curr[p]] \in Msgs
        /\ pc[p] = "send_publish" => next[curr[p]] = At(1)

Scanning(p) ==
    pc[p] = "get_scan" =>
        \E i \in 1 .. Len(queue) + 1 :
            curr[p] = At(i) /\ prev[p] = At(i - 1) /\ NoneBefore(p, i)

Taking(p) ==
    pc[p] \in {"get_copy", "get_unlink"} =>
        \E i \in DOMAIN queue :
            /\ curr[p] = At(i) /\ prev[p] = At(i - 1)
            /\ to[curr[p]] = user[p] /\ NoneBefore(p, i)

Freeing(p) ==
    pc[p] = "get_free" =>
        /\ curr[p] \in Nodes \ InQueue
        /\ \E i \in 1 .. Len(queue) + 1 : next[curr[p]] = At(i) /\ NoneBefore(p, i)

Looking(p) ==
    pc[p] = "get_more" =>
        \E i \in 1 .. Len(queue) + 1 : curr[p] = At(i) /\ NoneBefore(p, i)

CallRight(p) ==
    /\ Sending(p) /\ Scanning(p) /\ Taking(p) /\ Freeing(p) /\ Looking(p)
    /\ pc[p] \in KernelLabels \ {"send_link", "send_publish"} => user[p] \in Users

ListInv ==
    /\ TypeOK /\ OneCall /\ ListMatchesQueue /\ QueueFilled
    /\ \A p \in Procs : CallRight(p)
------------------------------------------------------------------------------
(* The kernel of the exercise: a step of one call finds no other call. *)

LEMMA Alone ==
    ASSUME ListInv, SwitchPoints = {}, NEW p \in Procs, NEW a, NEW b \in Labels, Step(p, a, b)
    PROVE  /\ \A q \in Procs \ {p} : pc[q] = "user" /\ pc'[q] = "user"
           /\ pc[p] = a /\ pc'[p] = b
           /\ pc' \in [Procs -> Labels]
           /\ OneCall'
           /\ \A q \in Procs \ {p} : CallRight(q)'
<1>1. pc \in [Procs -> Labels]
  BY DEF ListInv, TypeOK
<1>2. /\ \A q \in Procs \ {p} : pc[q] = "user" /\ pc'[q] = "user"
      /\ pc[p] = a /\ pc'[p] = b
      /\ pc' \in [Procs -> Labels]
  BY <1>1 DEF Step
<1>3. "user" \notin KernelLabels
  BY DEF KernelLabels
<1>4. OneCall'
  BY <1>2, <1>3 DEF OneCall
<1>5. \A q \in Procs \ {p} : CallRight(q)'
  BY <1>2, <1>3 DEF CallRight, Sending, Scanning, Taking, Freeing, Looking, KernelLabels
<1> QED
  BY <1>2, <1>4, <1>5

(* The two parts of ListMatchesQueue. *)
LEMMA ListParts ==
    queue \in Seq(Nodes) =>
        (ListMatchesQueue <=> (LinksRight /\ allocated = InQueue \cup InHand))
<1> SUFFICES ASSUME queue \in Seq(Nodes)
             PROVE  ListMatchesQueue <=> (LinksRight /\ allocated = InQueue \cup InHand)
  OBVIOUS
<1>1. DOMAIN queue = 1 .. Len(queue) /\ Len(queue) \in Nat /\ (queue = <<>> <=> Len(queue) = 0)
  OBVIOUS
<1>2. At(1) = IF queue = <<>> THEN NULL ELSE queue[1]
  BY <1>1 DEF At
<1>3. \A i \in DOMAIN queue : At(i + 1) = IF i = Len(queue) THEN NULL ELSE queue[i + 1]
  BY <1>1 DEF At
<1>4. LinksRight <=> /\ head = IF queue = <<>> THEN NULL ELSE queue[1]
                     /\ \A i \in DOMAIN queue :
                           next[queue[i]] = IF i = Len(queue) THEN NULL ELSE queue[i + 1]
                     /\ \A i, j \in DOMAIN queue : queue[i] = queue[j] => i = j
  BY <1>2, <1>3 DEF LinksRight
<1> QED
  BY <1>4 DEF ListMatchesQueue, InQueue, InHand

LEMMA HandOf ==
    ASSUME ListInv, SwitchPoints = {}, NEW p \in Procs, NEW a, NEW b \in Labels, Step(p, a, b)
    PROVE  /\ InHand = IF a \in {"send_link", "send_publish", "get_free"} THEN {curr[p]} ELSE {}
           /\ InHand' = IF b \in {"send_link", "send_publish", "get_free"} THEN {curr'[p]} ELSE {}
BY Alone DEF InHand

(* What the steps that leave list and queue alone leave true. *)
LEMMA ListStands ==
    ASSUME ListInv, SwitchPoints = {}, NEW p \in Procs, NEW a, NEW b \in Labels, Step(p, a, b),
           UNCHANGED <<head, fields, allocated, queue>>,
           a \notin {"send_link", "send_publish", "get_free"},
           b \notin {"send_link", "send_publish", "get_free"}
    PROVE  /\ ListMatchesQueue' /\ QueueFilled'
           /\ \A i : At(i)' = At(i)
<1>1. InHand = {} /\ InHand' = {}
  BY HandOf
<1>2. LinksRight /\ allocated = InQueue \cup InHand /\ queue \in Seq(Nodes)
  BY ListParts DEF ListInv, TypeOK
<1>3. LinksRight' /\ InQueue' = InQueue /\ \A i : At(i)' = At(i)
  BY <1>2 DEF LinksRight, At, InQueue, fields
<1>4. ListMatchesQueue'
  <2>1. (queue \in Seq(Nodes) =>
            (ListMatchesQueue <=> (LinksRight /\ allocated = InQueue \cup InHand)))'
    BY ListParts, PTL
  <2> QED
    BY <1>1, <1>2, <1>3, <2>1
<1>5. QueueFilled'
  BY DEF ListInv, QueueFilled, fields
<1> QED
  BY <1>3, <1>4, <1>5

(* A sequence without one of its entries. *)
LEMMA CutOut ==
    ASSUME NEW S, NEW s \in Seq(S), NEW i \in DOMAIN s
    PROVE  /\ SubSeq(s, 1, i - 1) \o SubSeq(s, i + 1, Len(s)) \in Seq(S)
           /\ Len(SubSeq(s, 1, i - 1) \o SubSeq(s, i + 1, Len(s))) = Len(s) - 1
           /\ \A j \in 1 .. Len(s) - 1 :
                 (SubSeq(s, 1, i - 1) \o SubSeq(s, i + 1, Len(s)))[j] = IF j < i THEN s[j] ELSE s[j + 1]
<1>1. i \in 1 .. Len(s) /\ Len(s) \in Nat
  OBVIOUS
<1>2. /\ SubSeq(s, 1, i - 1) \in Seq(S) /\ Len(SubSeq(s, 1, i - 1)) = i - 1
      /\ \A j \in 1 .. i - 1 : SubSeq(s, 1, i - 1)[j] = s[j]
  BY <1>1
<1>3. /\ SubSeq(s, i + 1, Len(s)) \in Seq(S) /\ Len(SubSeq(s, i + 1, Len(s))) = Len(s) - i
      /\ \A j \in 1 .. Len(s) - i : SubSeq(s, i + 1, Len(s))[j] = s[i + j]
  BY <1>1
<1> DEFINE a == SubSeq(s, 1, i - 1)
           b == SubSeq(s, i + 1, Len(s))
<1>4. /\ a \in Seq(S) /\ Len(a) = i - 1 /\ \A j \in 1 .. i - 1 : a[j] = s[j]
      /\ b \in Seq(S) /\ Len(b) = Len(s) - i /\ \A j \in 1 .. Len(s) - i : b[j] = s[i + j]
  BY <1>2, <1>3
<1> HIDE DEF a, b
<1>5. /\ a \o b \in Seq(S) /\ Len(a \o b) = Len(s) - 1
      /\ \A j \in 1 .. Len(s) - 1 : (a \o b)[j] = IF j =< i - 1 THEN a[j] ELSE b[j - (i - 1)]
  <2>1. /\ a \o b \in Seq(S) /\ Len(a \o b) = Len(a) + Len(b)
        /\ \A j \in 1 .. Len(a) + Len(b) :
              (a \o b)[j] = IF j =< Len(a) THEN a[j] ELSE b[j - Len(a)]
    BY <1>4, ConcatProperties
  <2>2. Len(a) = i - 1 /\ Len(a) + Len(b) = Len(s) - 1
    BY <1>1, <1>4
  <2> QED
    BY <2>1, <2>2
<1>6. ASSUME NEW j \in 1 .. Len(s) - 1
      PROVE  (a \o b)[j] = IF j < i THEN s[j] ELSE s[j + 1]
  <2>1. CASE j < i
    BY <1>1, <1>4, <1>5, <2>1
  <2>2. CASE ~(j < i)
    <3>1. (a \o b)[j] = b[j - (i - 1)]
      BY <1>1, <1>5, <2>2
    <3>2. j - (i - 1) \in 1 .. Len(s) - i
      BY <1>1, <2>2
    <3>3. b[j - (i - 1)] = s[i + (j - (i - 1))]
      BY <1>4, <3>2
    <3>4. i + (j - (i - 1)) = j + 1
      BY <1>1
    <3> QED
      BY <2>2, <3>1, <3>3, <3>4
  <2> QED
    BY <2>1, <2>2
<1> QED
  BY <1>5, <1>6 DEF a, b

LEMMA WithoutPlace ==
    ASSUME NEW S, NEW s \in Seq(S), NEW i \in DOMAIN s,
           \A j, k \in DOMAIN s : s[j] = s[k] => j = k
    PROVE  /\ Without(s, s[i]) \in Seq(S)
           /\ Len(Without(s, s[i])) = Len(s) - 1
           /\ \A j \in 1 .. Len(s) - 1 :
                 Without(s, s[i])[j] = IF j < i THEN s[j] ELSE s[j + 1]
<1>1. (CHOOSE j \in DOMAIN s : s[j] = s[i]) = i
  OBVIOUS
<1>2. Without(s, s[i]) = SubSeq(s, 1, i - 1) \o SubSeq(s, i + 1, Len(s))
  BY <1>1 DEF Without
<1> DEFINE c == SubSeq(s, 1, i - 1) \o SubSeq(s, i + 1, Len(s))
<1>3. /\ c \in Seq(S) /\ Len(c) = Len(s) - 1
      /\ \A j \in 1 .. Len(s) - 1 : c[j] = IF j < i THEN s[j] ELSE s[j + 1]
  BY CutOut
<1> HIDE DEF c
<1> QED
  BY <1>2, <1>3 DEF c
------------------------------------------------------------------------------
(* Each step of a call keeps the invariant. *)

LEMMA StartKeeps ==
    ASSUME ListInv, SwitchPoints = {}, NEW p \in Procs, NEW u \in Users, GetStart(p, u)
    PROVE  ListInv'
<1>1. Step(p, "user", "get_scan") /\ "get_scan" \in Labels
  BY DEF GetStart, Labels, KernelLabels
<1>2. ListMatchesQueue' /\ QueueFilled' /\ \A i : At(i)' = At(i)
  BY <1>1, ListStands DEF GetStart
<1>3. TypeOK'
  BY <1>1, Alone DEF GetStart, ListInv, TypeOK, fields, results, copies
<1>4. CallRight(p)'
  <2>1. /\ pc'[p] = "get_scan" /\ user'[p] = u
        /\ curr'[p] = head /\ prev'[p] = NULL /\ queue' = queue /\ queue \in Seq(Nodes)
    BY <1>1, Alone DEF GetStart, ListInv, TypeOK
  <2>2. head = At(1) /\ At(0) = NULL
    BY <2>1, ListParts DEF ListInv, LinksRight, At
  <2>3. NoneBefore(p, 1)'
    BY <2>1 DEF NoneBefore
  <2>4. 1 \in 1 .. Len(queue') + 1
    BY <2>1
  <2>5. Scanning(p)'
    BY <1>2, <2>1, <2>2, <2>3, <2>4 DEF Scanning
  <2> QED
    BY <2>1, <2>5 DEF CallRight, Sending, Taking, Freeing, Looking
<1> QED
  BY <1>1, <1>2, <1>3, <1>4, Alone DEF ListInv

LEMMA NothingKeeps ==
    ASSUME ListInv, SwitchPoints = {}, NEW p \in Procs, GetNothing(p)
    PROVE  ListInv'
<1>1. Step(p, "get_scan", "user") /\ "user" \in Labels
  BY DEF GetNothing, Labels, KernelLabels
<1>2. ListMatchesQueue' /\ QueueFilled'
  BY <1>1, ListStands DEF GetNothing
<1>3. TypeOK'
  BY <1>1, Alone DEF GetNothing, Return, EndCall, ListInv, TypeOK, fields, copies
<1>4. CallRight(p)'
  BY <1>1, Alone DEF CallRight, Sending, Scanning, Taking, Freeing, Looking, KernelLabels
<1> QED
  BY <1>1, <1>2, <1>3, <1>4, Alone DEF ListInv

LEMMA FoundKeeps ==
    ASSUME ListInv, SwitchPoints = {}, NEW p \in Procs, GetFound(p)
    PROVE  ListInv'
<1>1. Step(p, "get_scan", "get_copy") /\ "get_copy" \in Labels
  BY DEF GetFound, Labels, KernelLabels
<1>2. ListMatchesQueue' /\ QueueFilled' /\ \A i : At(i)' = At(i)
  BY <1>1, ListStands DEF GetFound
<1>3. TypeOK'
  BY <1>1, Alone DEF GetFound, ListInv, TypeOK, fields, results, copies
<1>4. CallRight(p)'
  <2>1. /\ pc[p] = "get_scan" /\ pc'[p] = "get_copy"
        /\ UNCHANGED <<user, curr, prev, queue, to>> /\ curr[p] # NULL /\ to[curr[p]] = user[p]
    BY <1>1, Alone DEF GetFound, fields
  <2>2. CallRight(p)
    BY DEF ListInv
  <2>3. PICK i \in 1 .. Len(queue) + 1 : curr[p] = At(i) /\ prev[p] = At(i - 1) /\ NoneBefore(p, i)
    BY <2>1, <2>2 DEF CallRight, Scanning
  <2>4. i \in DOMAIN queue'
    BY <2>1, <2>3 DEF At
  <2>5. NoneBefore(p, i)'
    BY <2>1, <2>3 DEF NoneBefore
  <2>6. At(i)' = At(i) /\ At(i - 1)' = At(i - 1)
    BY <1>2
  <2>7. Taking(p)'
    BY <2>1, <2>3, <2>4, <2>5, <2>6 DEF Taking
  <2>8. user'[p] \in Users
    BY <2>1, <2>2 DEF CallRight, KernelLabels
  <2> QED
    BY <2>1, <2>7, <2>8 DEF CallRight, Sending, Scanning, Freeing, Looking
<1> QED
  BY <1>1, <1>2, <1>3, <1>4, Alone DEF ListInv

LEMMA SkipKeeps ==
    ASSUME ListInv, SwitchPoints = {}, NEW p \in Procs, GetSkip(p)
    PROVE  ListInv'
<1>1. Step(p, "get_scan", "get_scan") /\ "get_scan" \in Labels
  BY DEF GetSkip, Labels, KernelLabels
<1>2. ListMatchesQueue' /\ QueueFilled' /\ \A i : At(i)' = At(i)
  BY <1>1, ListStands DEF GetSkip
<1>3. /\ curr \in [Procs -> Nodes \cup {NULL}] /\ prev \in [Procs -> Nodes \cup {NULL}]
      /\ next \in [Nodes -> Nodes \cup {NULL}] /\ queue \in Seq(Nodes)
  BY DEF ListInv, TypeOK
<1>4. TypeOK'
  BY <1>1, Alone DEF GetSkip, ListInv, TypeOK, fields, results, copies
<1>5. CallRight(p)'
  <2>1. /\ pc[p] = "get_scan" /\ pc'[p] = "get_scan"
        /\ UNCHANGED <<user, queue, to>> /\ curr[p] # NULL /\ to[curr[p]] # user[p]
        /\ prev'[p] = curr[p] /\ curr'[p] = next[curr[p]]
    BY <1>1, <1>3, Alone DEF GetSkip, fields
  <2>2. CallRight(p)
    BY DEF ListInv
  <2>3. PICK i \in 1 .. Len(queue) + 1 : curr[p] = At(i) /\ prev[p] = At(i - 1) /\ NoneBefore(p, i)
    BY <2>1, <2>2 DEF CallRight, Scanning
  <2>4. i \in DOMAIN queue /\ curr[p] = queue[i]
    BY <2>1, <2>3 DEF At
  <2>5. next[queue[i]] = At(i + 1)
    BY <1>3, <2>4, ListParts DEF ListInv, LinksRight
  <2>6. NoneBefore(p, i + 1)'
    BY <1>3, <2>1, <2>3, <2>4 DEF NoneBefore
  <2>7. At(i)' = At(i) /\ At(i + 1)' = At(i + 1) /\ i + 1 \in 1 .. Len(queue') + 1 /\ (i + 1) - 1 = i
    BY <1>2, <1>3, <2>1, <2>4
  <2>8. Scanning(p)'
    BY <2>1, <2>3, <2>4, <2>5, <2>6, <2>7 DEF Scanning
  <2>9. user'[p] \in Users
    BY <2>1, <2>2 DEF CallRight, KernelLabels
  <2> QED
    BY <2>1, <2>8, <2>9 DEF CallRight, Sending, Taking, Freeing, Looking
<1> QED
  BY <1>1, <1>2, <1>4, <1>5, Alone DEF ListInv

(* The message that a call is about to copy and to unlink, and the queue   *)
(* without it.                                                             *)
LEMMA TakenPlace ==
    ASSUME ListInv, NEW p \in Procs, pc[p] \in {"get_copy", "get_unlink"}
    PROVE  \E i \in DOMAIN queue :
             /\ curr[p] = queue[i] /\ prev[p] = At(i - 1)
             /\ to[queue[i]] = user[p] /\ NoneBefore(p, i)
             /\ Without(queue, curr[p]) \in Seq(Nodes)
             /\ Len(Without(queue, curr[p])) = Len(queue) - 1
             /\ \A j \in 1 .. Len(queue) - 1 :
                   Without(queue, curr[p])[j] = IF j < i THEN queue[j] ELSE queue[j + 1]
<1>1. CallRight(p)
  BY DEF ListInv
<1>2. PICK i \in DOMAIN queue : /\ curr[p] = At(i) /\ prev[p] = At(i - 1)
                                /\ to[curr[p]] = user[p] /\ NoneBefore(p, i)
  BY <1>1 DEF CallRight, Taking
<1>3. curr[p] = queue[i]
  BY <1>2 DEF At
<1>4. queue \in Seq(Nodes) /\ \A j, k \in DOMAIN queue : queue[j] = queue[k] => j = k
  BY ListParts DEF ListInv, TypeOK, LinksRight
<1>5. /\ Without(queue, queue[i]) \in Seq(Nodes)
      /\ Len(Without(queue, queue[i])) = Len(queue) - 1
      /\ \A j \in 1 .. Len(queue) - 1 :
            Without(queue, queue[i])[j] = IF j < i THEN queue[j] ELSE queue[j + 1]
  BY <1>4, WithoutPlace
<1> QED
  BY <1>2, <1>3, <1>5

(* Taking it out takes it and no other object out. *)
LEMMA TakenOut ==
    ASSUME ListInv, NEW p \in Procs, pc[p] \in {"get_copy", "get_unlink"},
           NEW w, w = Without(queue, curr[p])
    PROVE  {w[j] : j \in DOMAIN w} = InQueue \ {curr[p]} /\ curr[p] \in InQueue
<1>1. PICK i \in DOMAIN queue :
             /\ curr[p] = queue[i] /\ w \in Seq(Nodes) /\ Len(w) = Len(queue) - 1
             /\ \A j \in 1 .. Len(queue) - 1 : w[j] = IF j < i THEN queue[j] ELSE queue[j + 1]
  BY TakenPlace
<1>2. queue \in Seq(Nodes) /\ LinksRight
  BY ListParts DEF ListInv, TypeOK
<1>3. /\ DOMAIN queue = 1 .. Len(queue) /\ Len(queue) \in Nat
      /\ DOMAIN w = 1 .. Len(queue) - 1 /\ i \in 1 .. Len(queue)
  BY <1>1, <1>2
<1>4. ASSUME NEW j \in DOMAIN w
      PROVE  w[j] \in InQueue /\ w[j] # queue[i]
  <2> DEFINE k == IF j < i THEN j ELSE j + 1
  <2>1. j \in 1 .. Len(queue) - 1
    BY <1>3
  <2>2. w[j] = queue[k]
    BY <1>1, <2>1
  <2>3. k \in DOMAIN queue /\ k # i
    BY <1>3, <2>1
  <2> QED
    BY <1>2, <2>2, <2>3 DEF InQueue, LinksRight
<1>5. ASSUME NEW j \in DOMAIN queue, queue[j] # queue[i]
      PROVE  \E k \in DOMAIN w : w[k] = queue[j]
  <2>1. CASE j < i
    <3>1. j \in 1 .. Len(queue) - 1
      BY <1>3, <2>1
    <3> QED
      BY <1>1, <1>3, <2>1, <3>1
  <2>2. CASE i < j
    <3>1. j - 1 \in 1 .. Len(queue) - 1 /\ ~(j - 1 < i) /\ (j - 1) + 1 = j
      BY <1>3, <2>2
    <3> QED
      BY <1>1, <1>3, <3>1
  <2> QED
    BY <1>3, <1>5, <2>1, <2>2
<1> QED
  BY <1>1, <1>4, <1>5 DEF InQueue

OnTop(n) == <<n>> \o queue

LEMMA PutOnTop ==
    ASSUME queue \in Seq(Nodes), NEW n \in Nodes, NEW w, w = OnTop(n)
    PROVE  {w[j] : j \in DOMAIN w} = InQueue \cup {n}
<1>1. /\ DOMAIN queue = 1 .. Len(queue) /\ Len(queue) \in Nat
      /\ DOMAIN w = 1 .. Len(queue) + 1 /\ w[1] = n
      /\ \A i \in 1 .. Len(queue) : w[i + 1] = queue[i]
  BY DEF OnTop
<1>2. ASSUME NEW j \in DOMAIN w
      PROVE  w[j] \in InQueue \cup {n}
  <2>1. CASE j = 1
    BY <1>1, <2>1
  <2>2. CASE j # 1
    <3>1. j - 1 \in 1 .. Len(queue) /\ (j - 1) + 1 = j
      BY <1>1, <2>2
    <3>2. w[j] = queue[j - 1]
      BY <1>1, <3>1
    <3> QED
      BY <1>1, <3>1, <3>2 DEF InQueue
  <2> QED
    BY <2>1, <2>2
<1>3. \A i \in DOMAIN queue : i + 1 \in DOMAIN w /\ w[i + 1] = queue[i]
  BY <1>1
<1>4. 1 \in DOMAIN w /\ w[1] = n
  BY <1>1
<1>5. ASSUME NEW x \in InQueue \cup {n}
      PROVE  x \in {w[j] : j \in DOMAIN w}
  BY <1>3, <1>4 DEF InQueue
<1> QED
  BY <1>2, <1>5

LEMMA UnlinkedSet ==
    ASSUME ListInv, NEW p \in Procs, GetUnlink(p)
    PROVE  InQueue' = InQueue \ {curr[p]}
<1>1. InQueue' = {queue'[j] : j \in DOMAIN queue'}
  BY DEF InQueue
<1>2. queue' = Without(queue, curr[p]) /\ pc[p] = "get_unlink"
  BY DEF GetUnlink, Step
<1>3. {queue'[j] : j \in DOMAIN queue'} = InQueue \ {curr[p]}
  BY <1>2, TakenOut
<1> QED
  BY <1>1, <1>3

LEMMA PublishedSet ==
    ASSUME ListInv, NEW p \in Procs, SendPublish(p)
    PROVE  InQueue' = InQueue \cup {curr[p]}
<1>1. InQueue' = {queue'[j] : j \in DOMAIN queue'}
  BY DEF InQueue
<1>2. CallRight(p) /\ pc[p] = "send_publish"
  BY DEF ListInv, SendPublish, Step
<1>3. queue' = OnTop(curr[p]) /\ curr[p] \in Nodes /\ queue \in Seq(Nodes)
  BY <1>2 DEF SendPublish, OnTop, ListInv, TypeOK, CallRight, Sending
<1>4. \A w : w = OnTop(curr[p]) => {w[j] : j \in DOMAIN w} = InQueue \cup {curr[p]}
  BY <1>3, PutOnTop
<1> QED
  BY <1>1, <1>3, <1>4

LEMMA CopyKeeps ==
    ASSUME ListInv, SwitchPoints = {}, NEW p \in Procs, GetCopy(p)
    PROVE  ListInv'
<1>1. Step(p, "get_copy", "get_unlink") /\ "get_unlink" \in Labels
  BY DEF GetCopy, Labels, KernelLabels
<1>2. ListMatchesQueue' /\ QueueFilled' /\ \A i : At(i)' = At(i)
  BY <1>1, ListStands DEF GetCopy
<1>3. PICK i \in DOMAIN queue : curr[p] = queue[i] /\ prev[p] = At(i - 1)
                                /\ to[queue[i]] = user[p] /\ NoneBefore(p, i)
  BY <1>1, Alone, TakenPlace
<1>4. msg[curr[p]] \in Msgs
  BY <1>3 DEF ListInv, QueueFilled
<1>5. TypeOK'
  <2> DEFINE Buffer == [text : Msgs \cup {None}, from : Msgs \cup {None}]
  <2>1. out' \in [Procs -> Buffer]
    <3>1. out[p] \in Buffer
      BY DEF ListInv, TypeOK
    <3>2. [out[p] EXCEPT !.text = msg[curr[p]]] \in Buffer
      BY <1>4, <3>1
    <3>3. [out EXCEPT ![p].text = msg[curr[p]]] = [out EXCEPT ![p] = [out[p] EXCEPT !.text = msg[curr[p]]]]
      BY DEF ListInv, TypeOK
    <3>4. [text |-> msg[curr[p]], from |-> msg[curr[p]]] \in Buffer
      BY <1>4
    <3>5. \A b \in Buffer :
            [out EXCEPT ![p] = b] \in [Procs -> Buffer]
      BY DEF ListInv, TypeOK
    <3>6. \/ out' = out
          \/ \E b \in Buffer : out' = [out EXCEPT ![p] = b]
      BY <3>2, <3>3, <3>4 DEF GetCopy
    <3> QED
      BY <3>5, <3>6 DEF ListInv, TypeOK
  <2> QED
    BY <1>1, <1>4, <2>1, Alone DEF GetCopy, ListInv, TypeOK, fields, results
<1>6. CallRight(p)'
  <2>1. /\ pc[p] = "get_copy" /\ pc'[p] = "get_unlink"
        /\ UNCHANGED <<user, curr, prev, queue, to>>
    BY <1>1, Alone DEF GetCopy, fields
  <2>2. NoneBefore(p, i)'
    BY <1>3, <2>1 DEF NoneBefore
  <2>3. At(i)' = At(i) /\ At(i - 1)' = At(i - 1) /\ At(i) = queue[i]
    BY <1>2 DEF At
  <2>4. Taking(p)'
    BY <1>3, <2>1, <2>2, <2>3 DEF Taking
  <2>5. user'[p] \in Users
    BY <2>1 DEF ListInv, CallRight, KernelLabels
  <2> QED
    BY <2>1, <2>4, <2>5 DEF CallRight, Sending, Scanning, Freeing, Looking
<1> QED
  BY <1>1, <1>2, <1>5, <1>6, Alone DEF ListInv

LEMMA UnlinkKeeps ==
    ASSUME ListInv, SwitchPoints = {}, NEW p \in Procs, GetUnlink(p)
    PROVE  ListInv'
<1>1. Step(p, "get_unlink", "get_free") /\ "get_free" \in Labels
  BY DEF GetUnlink, Labels, KernelLabels
<1>2. PICK i \in DOMAIN queue :
             /\ curr[p] = queue[i] /\ prev[p] = At(i - 1)
             /\ to[queue[i]] = user[p] /\ NoneBefore(p, i)
             /\ queue' \in Seq(Nodes)
             /\ Len(queue') = Len(queue) - 1
             /\ \A j \in 1 .. Len(queue) - 1 :
                   queue'[j] = IF j < i THEN queue[j] ELSE queue[j + 1]
  BY <1>1, Alone, TakenPlace DEF GetUnlink
<1>3. /\ queue \in Seq(Nodes) /\ DOMAIN queue = 1 .. Len(queue) /\ Len(queue) \in Nat
      /\ next \in [Nodes -> Nodes \cup {NULL}] /\ NULL \notin Nodes
      /\ prev \in [Procs -> Nodes \cup {NULL}]
  BY MsgQueueAssumption DEF ListInv, TypeOK
<1>4. LinksRight /\ allocated = InQueue \cup InHand
  BY <1>3, ListParts DEF ListInv
<1>5. DOMAIN queue' = 1 .. Len(queue) - 1 /\ i \in 1 .. Len(queue)
  BY <1>2, <1>3
<1>6. \A j \in Nat : At(j)' = IF j < i THEN At(j) ELSE At(j + 1)
  BY <1>2, <1>3, <1>5 DEF At
<1>7. next[queue[i]] = At(i + 1)
  BY <1>4 DEF LinksRight
<1>8. \A j \in DOMAIN queue : queue[j] \in Nodes
  BY <1>3
<1> DEFINE place(j) == IF j < i THEN j ELSE j + 1
<1>8a. \A j \in DOMAIN queue' : place(j) \in DOMAIN queue \ {i} /\ queue'[j] = queue[place(j)]
  BY <1>2, <1>3, <1>5
<1>8b. \A j, k \in DOMAIN queue' : place(j) = place(k) => j = k
  BY <1>5
<1> HIDE DEF place
<1>9. LinksRight'
  <2>1. \A j, k \in DOMAIN queue' : queue'[j] = queue'[k] => j = k
    BY <1>4, <1>8a, <1>8b DEF LinksRight
  <2>2. CASE prev[p] = NULL
    <3>1. i = 1
      BY <1>2, <1>3, <1>5, <1>8, <2>2 DEF At
    <3>2. head' = At(1)'
      BY <1>2, <1>6, <1>7, <2>2, <3>1 DEF GetUnlink
    <3>3. ASSUME NEW j \in DOMAIN queue'
          PROVE  next'[queue'[j]] = At(j + 1)'
      <4>1. queue'[j] = queue[j + 1] /\ j + 1 \in DOMAIN queue /\ j + 1 \in Nat
        BY <1>2, <1>3, <1>5, <3>1
      <4>2. next'[queue'[j]] = At((j + 1) + 1)
        BY <1>4, <2>2, <4>1 DEF GetUnlink, LinksRight
      <4>3. (j + 1) \in Nat /\ ~(j + 1 < i)
        BY <1>5, <3>1
      <4> QED
        BY <1>6, <4>2, <4>3
    <3> QED
      BY <2>1, <3>2, <3>3 DEF LinksRight
  <2>3. CASE prev[p] # NULL
    <3>1. i - 1 \in DOMAIN queue /\ prev[p] = queue[i - 1] /\ 1 < i
      BY <1>2, <1>3, <1>5, <2>3 DEF At
    <3>2. head' = At(1)'
      BY <1>4, <1>6, <2>3, <3>1 DEF GetUnlink, LinksRight
    <3>3. next' = [next EXCEPT ![queue[i - 1]] = At(i + 1)]
      BY <1>2, <1>7, <2>3, <3>1 DEF GetUnlink
    <3>4. ASSUME NEW j \in DOMAIN queue'
          PROVE  next'[queue'[j]] = At(j + 1)'
      <4>1. j \in Nat /\ j + 1 \in Nat /\ j \in DOMAIN queue /\ j + 1 \in DOMAIN queue
        BY <1>3, <1>5
      <4>2. CASE j = i - 1
        <5>1. queue'[j] = queue[i - 1] /\ queue[i - 1] \in Nodes
          BY <1>2, <1>5, <1>8, <3>1, <4>2
        <5>2. next'[queue'[j]] = At(i + 1)
          BY <1>3, <3>3, <5>1
        <5>3. At(j + 1)' = At((j + 1) + 1) /\ (j + 1) + 1 = i + 1
          BY <1>5, <1>6, <4>1, <4>2
        <5> QED
          BY <5>2, <5>3
      <4>3. CASE j < i - 1
        <5>1. queue'[j] = queue[j] /\ queue[j] # queue[i - 1] /\ queue[j] \in Nodes
          BY <1>2, <1>4, <1>5, <1>8, <3>1, <4>1, <4>3 DEF LinksRight
        <5>2. next'[queue'[j]] = At(j + 1)
          BY <1>3, <1>4, <3>3, <4>1, <5>1 DEF LinksRight
        <5> QED
          BY <1>5, <1>6, <4>1, <4>3, <5>2
      <4>4. CASE i - 1 < j
        <5>1. queue'[j] = queue[j + 1]
          BY <1>2, <1>5, <4>1, <4>4
        <5>2. queue[j + 1] # queue[i - 1] /\ queue[j + 1] \in Nodes
          BY <1>4, <1>5, <1>8, <3>1, <4>1, <4>4 DEF LinksRight
        <5>3. next'[queue'[j]] = At((j + 1) + 1)
          BY <1>3, <1>4, <3>3, <4>1, <5>1, <5>2 DEF LinksRight
        <5> QED
          BY <1>5, <1>6, <4>1, <4>4, <5>3
      <4> QED
        BY <1>5, <4>1, <4>2, <4>3, <4>4
    <3> QED
      BY <2>1, <3>2, <3>4 DEF LinksRight
  <2> QED
    BY <2>2, <2>3
<1>10. InQueue' = InQueue \ {queue[i]}
  BY <1>2, UnlinkedSet
<1>11. ListMatchesQueue'
  <2>1. InHand = {} /\ InHand' = {queue[i]}
    BY <1>1, <1>2, HandOf DEF GetUnlink
  <2>2. allocated' = InQueue' \cup InHand'
    BY <1>4, <1>10, <2>1 DEF GetUnlink, InQueue
  <2>3. (queue \in Seq(Nodes) =>
            (ListMatchesQueue <=> (LinksRight /\ allocated = InQueue \cup InHand)))'
    BY ListParts, PTL
  <2> QED
    BY <1>2, <1>9, <2>2, <2>3
<1>12. QueueFilled'
  BY <1>8a DEF ListInv, QueueFilled, GetUnlink
<1>13. TypeOK'
  <2>1. next' \in [Nodes -> Nodes \cup {NULL}] /\ head' \in Nodes \cup {NULL}
    <3>1. next[curr[p]] \in Nodes \cup {NULL}
      BY <1>2, <1>3, <1>8
    <3> QED
      BY <1>3, <3>1 DEF GetUnlink, ListInv, TypeOK
  <2> QED
    BY <1>1, <1>2, <2>1, Alone DEF GetUnlink, ListInv, TypeOK, results, copies
<1>14. CallRight(p)'
  <2>1. pc[p] = "get_unlink" /\ pc'[p] = "get_free" /\ UNCHANGED <<user, curr, to>>
    BY <1>1, Alone DEF GetUnlink
  <2>2. curr'[p] \in Nodes \ InQueue'
    BY <1>2, <1>8, <1>10, <2>1
  <2>3. next'[curr[p]] = At(i + 1)
    <3>1. CASE prev[p] = NULL
      BY <1>2, <1>7, <3>1 DEF GetUnlink
    <3>2. CASE prev[p] # NULL
      <4>1. i - 1 \in DOMAIN queue /\ prev[p] = queue[i - 1]
        BY <1>2, <1>3, <1>5, <3>2 DEF At
      <4>2. queue[i - 1] # queue[i]
        BY <1>3, <1>4, <1>5, <4>1 DEF LinksRight
      <4> QED
        BY <1>2, <1>3, <1>7, <1>8, <3>2, <4>1, <4>2 DEF GetUnlink
    <3> QED
      BY <3>1, <3>2
  <2>4. At(i)' = At(i + 1)
    BY <1>5, <1>6
  <2>5. NoneBefore(p, i)'
    BY <1>2, <1>3, <1>5, <2>1, SMTT(30) DEF NoneBefore
  <2>6. i \in 1 .. Len(queue') + 1
    BY <1>2, <1>3, <1>5
  <2>7. Freeing(p)'
    BY <2>1, <2>2, <2>3, <2>4, <2>5, <2>6 DEF Freeing
  <2>8. user'[p] \in Users
    BY <2>1 DEF ListInv, CallRight, KernelLabels
  <2> QED
    BY <2>1, <2>7, <2>8 DEF CallRight, Sending, Scanning, Taking, Looking
<1> QED
  BY <1>1, <1>11, <1>12, <1>13, <1>14, Alone DEF ListInv

LEMMA FreeKeeps ==
    ASSUME ListInv, SwitchPoints = {}, NEW p \in Procs, GetFree(p)
    PROVE  ListInv'
<1>1. Step(p, "get_free", "get_more") /\ "get_more" \in Labels
  BY DEF GetFree, Labels, KernelLabels
<1>2. /\ pc[p] = "get_free" /\ pc'[p] = "get_more" /\ UNCHANGED <<head, fields, user, prev, queue>>
      /\ allocated' = allocated \ {curr[p]} /\ curr' = [curr EXCEPT ![p] = next[@]]
  BY <1>1, Alone DEF GetFree
<1>3. CallRight(p) /\ queue \in Seq(Nodes)
  BY DEF ListInv, TypeOK
<1>4. curr[p] \in Nodes \ InQueue
  BY <1>2, <1>3 DEF CallRight, Freeing
<1>5. /\ curr \in [Procs -> Nodes \cup {NULL}] /\ next \in [Nodes -> Nodes \cup {NULL}]
      /\ curr'[p] = next[curr[p]]
  BY <1>2 DEF ListInv, TypeOK
<1>6. LinksRight /\ allocated = InQueue \cup InHand
  BY <1>3, ListParts DEF ListInv
<1>7. InHand = {curr[p]} /\ InHand' = {}
  BY <1>1, HandOf
<1>8. LinksRight' /\ InQueue' = InQueue /\ \A i : At(i)' = At(i)
  BY <1>2, <1>6 DEF LinksRight, At, InQueue, fields
<1>9. ListMatchesQueue'
  <2>1. (queue \in Seq(Nodes) =>
            (ListMatchesQueue <=> (LinksRight /\ allocated = InQueue \cup InHand)))'
    BY ListParts, PTL
  <2>2. allocated' = InQueue' \cup InHand'
    BY <1>2, <1>4, <1>6, <1>7, <1>8
  <2> QED
    BY <1>2, <1>3, <1>8, <2>1, <2>2
<1>10. QueueFilled'
  BY <1>2 DEF ListInv, QueueFilled, fields
<1>11. TypeOK'
  BY <1>1, <1>2, <1>4, <1>5, Alone DEF GetFree, ListInv, TypeOK, fields, results, copies
<1>12. CallRight(p)'
  <2>1. PICK i \in 1 .. Len(queue) + 1 : next[curr[p]] = At(i) /\ NoneBefore(p, i)
    BY <1>2, <1>3 DEF CallRight, Freeing
  <2>2. NoneBefore(p, i)'
    BY <1>2, <2>1 DEF NoneBefore, fields
  <2>3. Looking(p)'
    BY <1>2, <1>5, <1>8, <2>1, <2>2 DEF Looking
  <2>4. user'[p] \in Users
    BY <1>2, <1>3 DEF CallRight, KernelLabels
  <2> QED
    BY <1>2, <2>3, <2>4 DEF CallRight, Sending, Scanning, Taking, Freeing
<1> QED
  BY <1>1, <1>9, <1>10, <1>11, <1>12, Alone DEF ListInv

LEMMA MoreSkipKeeps ==
    ASSUME ListInv, SwitchPoints = {}, NEW p \in Procs, GetMoreSkip(p)
    PROVE  ListInv'
<1>1. Step(p, "get_more", "get_more") /\ "get_more" \in Labels
  BY DEF GetMoreSkip, Labels, KernelLabels
<1>2. ListMatchesQueue' /\ QueueFilled' /\ \A i : At(i)' = At(i)
  BY <1>1, ListStands DEF GetMoreSkip
<1>3. /\ curr \in [Procs -> Nodes \cup {NULL}] /\ queue \in Seq(Nodes)
      /\ next \in [Nodes -> Nodes \cup {NULL}]
  BY DEF ListInv, TypeOK
<1>4. TypeOK'
  BY <1>1, Alone DEF GetMoreSkip, ListInv, TypeOK, fields, results, copies
<1>5. CallRight(p)'
  <2>1. /\ pc[p] = "get_more" /\ pc'[p] = "get_more"
        /\ UNCHANGED <<user, queue, to>> /\ curr[p] # NULL /\ to[curr[p]] # user[p]
        /\ curr'[p] = next[curr[p]]
    BY <1>1, <1>3, Alone DEF GetMoreSkip, fields
  <2>2. CallRight(p)
    BY DEF ListInv
  <2>3. PICK i \in 1 .. Len(queue) + 1 : curr[p] = At(i) /\ NoneBefore(p, i)
    BY <2>1, <2>2 DEF CallRight, Looking
  <2>4. i \in DOMAIN queue /\ curr[p] = queue[i]
    BY <2>1, <2>3 DEF At
  <2>5. next[queue[i]] = At(i + 1)
    BY <1>3, <2>4, ListParts DEF ListInv, LinksRight
  <2>6. NoneBefore(p, i + 1)'
    BY <1>3, <2>1, <2>3, <2>4 DEF NoneBefore
  <2>7. At(i + 1)' = At(i + 1) /\ i + 1 \in 1 .. Len(queue') + 1
    BY <1>2, <1>3, <2>1, <2>4
  <2>8. Looking(p)'
    BY <2>1, <2>4, <2>5, <2>6, <2>7 DEF Looking
  <2>9. user'[p] \in Users
    BY <2>1, <2>2 DEF CallRight, KernelLabels
  <2> QED
    BY <2>1, <2>8, <2>9 DEF CallRight, Sending, Scanning, Taking, Freeing
<1> QED
  BY <1>1, <1>2, <1>4, <1>5, Alone DEF ListInv

LEMMA AnswerKeeps ==
    ASSUME ListInv, SwitchPoints = {}, NEW p \in Procs, GetAnswer(p)
    PROVE  ListInv'
<1>1. Step(p, "get_more", "user") /\ "user" \in Labels
  BY DEF GetAnswer, Labels, KernelLabels
<1>2. ListMatchesQueue' /\ QueueFilled'
  BY <1>1, ListStands DEF GetAnswer
<1>3. TypeOK'
  BY <1>1, Alone DEF GetAnswer, Return, EndCall, ListInv, TypeOK, fields, copies
<1>4. CallRight(p)'
  BY <1>1, Alone DEF CallRight, Sending, Scanning, Taking, Freeing, Looking, KernelLabels
<1> QED
  BY <1>1, <1>2, <1>3, <1>4, Alone DEF ListInv

LEMMA RejectedKeeps ==
    ASSUME ListInv, SwitchPoints = {}, NEW p \in Procs, SendRejected(p)
    PROVE  ListInv'
<1>1. Step(p, "user", "user") /\ "user" \in Labels
  BY DEF SendRejected, Labels, KernelLabels
<1>2. ListMatchesQueue' /\ QueueFilled'
  BY <1>1, ListStands DEF SendRejected
<1>3. TypeOK'
  BY <1>1, Alone DEF SendRejected, SendReturn, EndCall, ListInv, TypeOK, fields, copies
<1>4. CallRight(p)'
  BY <1>1, Alone DEF CallRight, Sending, Scanning, Taking, Freeing, Looking, KernelLabels
<1> QED
  BY <1>1, <1>2, <1>3, <1>4, Alone DEF ListInv

LEMMA FillKeeps ==
    ASSUME ListInv, SwitchPoints = {}, NEW p \in Procs, NEW u \in Users, NEW m \in Msgs,
           SendFill(p, u, m)
    PROVE  ListInv'
<1>1. Step(p, "user", "send_link") /\ "send_link" \in Labels
  BY DEF SendFill, Labels, KernelLabels
<1>2. PICK n \in Nodes \ allocated :
          /\ allocated' = allocated \cup {n} /\ curr' = [curr EXCEPT ![p] = n]
          /\ to' = [to EXCEPT ![n] = u] /\ msg' = [msg EXCEPT ![n] = m]
          /\ UNCHANGED <<head, next, user, prev, out, results, queue, sent, copies>>
  BY DEF SendFill
<1>3. queue \in Seq(Nodes) /\ LinksRight /\ allocated = InQueue \cup InHand
  BY ListParts DEF ListInv, TypeOK
<1>4. InHand = {} /\ InHand' = {curr'[p]} /\ curr'[p] = n
  BY <1>1, <1>2, HandOf DEF ListInv, TypeOK
<1>5. LinksRight' /\ InQueue' = InQueue
  BY <1>2, <1>3 DEF LinksRight, At, InQueue
<1>6. ListMatchesQueue'
  <2>1. (queue \in Seq(Nodes) =>
            (ListMatchesQueue <=> (LinksRight /\ allocated = InQueue \cup InHand)))'
    BY ListParts, PTL
  <2> QED
    BY <1>2, <1>3, <1>4, <1>5, <2>1
<1>7. n \notin InQueue /\ to \in [Nodes -> Users \cup {None}] /\ msg \in [Nodes -> Msgs \cup {None}]
  BY <1>3 DEF ListInv, TypeOK
<1>8. QueueFilled'
  BY <1>2, <1>7 DEF ListInv, QueueFilled, InQueue
<1>9. TypeOK'
  BY <1>1, <1>2, Alone DEF ListInv, TypeOK, results, copies
<1>10. CallRight(p)'
  <2>1. pc'[p] = "send_link" /\ curr'[p] = n /\ to'[n] = u /\ msg'[n] = m
    BY <1>1, <1>2, <1>4, <1>7, Alone
  <2>2. Sending(p)'
    BY <1>5, <1>7, <2>1 DEF Sending
  <2> QED
    BY <2>1, <2>2 DEF CallRight, Scanning, Taking, Freeing, Looking, KernelLabels
<1> QED
  BY <1>1, <1>6, <1>8, <1>9, <1>10, Alone DEF ListInv

LEMMA LinkKeeps ==
    ASSUME ListInv, SwitchPoints = {}, NEW p \in Procs, SendLink(p)
    PROVE  ListInv'
<1>1. Step(p, "send_link", "send_publish") /\ "send_publish" \in Labels
  BY DEF SendLink, Labels, KernelLabels
<1>2. /\ pc[p] = "send_link" /\ pc'[p] = "send_publish"
      /\ UNCHANGED <<head, to, msg, allocated, user, curr, prev, out, results, queue, sent, copies>>
      /\ next' = [next EXCEPT ![curr[p]] = head]
  BY <1>1, Alone DEF SendLink
<1>3. /\ queue \in Seq(Nodes) /\ LinksRight /\ allocated = InQueue \cup InHand
      /\ next \in [Nodes -> Nodes \cup {NULL}] /\ head \in Nodes \cup {NULL}
  BY ListParts DEF ListInv, TypeOK
<1>4. CallRight(p) /\ curr[p] \in Nodes \ InQueue
  BY <1>2 DEF ListInv, CallRight, Sending
<1>5. InHand = {curr[p]} /\ InHand' = {curr[p]}
  BY <1>1, <1>2, HandOf
<1>6. InQueue' = InQueue /\ \A i : At(i)' = At(i)
  BY <1>2 DEF At, InQueue
<1>7. LinksRight'
  <2>1. ASSUME NEW i \in DOMAIN queue'
        PROVE  next'[queue'[i]] = At(i + 1)'
    <3>1. queue[i] \in Nodes /\ queue[i] # curr[p] /\ i \in DOMAIN queue
      BY <1>2, <1>3, <1>4 DEF InQueue
    <3>2. next'[queue[i]] = At(i + 1)
      BY <1>2, <1>3, <3>1 DEF LinksRight
    <3>3. At(i + 1)' = At(i + 1)
      BY <1>6
    <3> QED
      BY <1>2, <3>2, <3>3
  <2>2. head' = At(1)' /\ \A i, j \in DOMAIN queue' : queue'[i] = queue'[j] => i = j
    BY <1>2, <1>3, <1>6 DEF LinksRight
  <2> QED
    BY <2>1, <2>2 DEF LinksRight
<1>8. ListMatchesQueue'
  <2>1. (queue \in Seq(Nodes) =>
            (ListMatchesQueue <=> (LinksRight /\ allocated = InQueue \cup InHand)))'
    BY ListParts, PTL
  <2> QED
    BY <1>2, <1>3, <1>5, <1>6, <1>7, <2>1
<1>9. QueueFilled'
  BY <1>2 DEF ListInv, QueueFilled
<1>10. TypeOK'
  BY <1>1, <1>2, <1>3, Alone DEF ListInv, TypeOK, results, copies
<1>11. CallRight(p)'
  <2>1. next'[curr'[p]] = At(1)'
    BY <1>2, <1>3, <1>4, <1>6 DEF LinksRight
  <2>2. Sending(p)'
    BY <1>2, <1>4, <1>6, <2>1 DEF CallRight, Sending
  <2> QED
    BY <1>2, <2>2 DEF CallRight, Scanning, Taking, Freeing, Looking, KernelLabels
<1> QED
  BY <1>1, <1>8, <1>9, <1>10, <1>11, Alone DEF ListInv

LEMMA PublishKeeps ==
    ASSUME ListInv, SwitchPoints = {}, NEW p \in Procs, SendPublish(p)
    PROVE  ListInv'
<1>1. Step(p, "send_publish", "user") /\ "user" \in Labels
  BY DEF SendPublish, Labels, KernelLabels
<1>2. /\ pc[p] = "send_publish" /\ pc'[p] = "user" /\ UNCHANGED <<fields, allocated, out, copies>>
      /\ head' = curr[p] /\ queue' = <<curr[p]>> \o queue
  BY <1>1, Alone DEF SendPublish
<1>3. /\ queue \in Seq(Nodes) /\ LinksRight /\ allocated = InQueue \cup InHand
      /\ Len(queue) \in Nat /\ DOMAIN queue = 1 .. Len(queue)
  BY ListParts DEF ListInv, TypeOK
<1>4. /\ curr[p] \in Nodes \ InQueue /\ next[curr[p]] = At(1)
      /\ to[curr[p]] \in Users /\ msg[curr[p]] \in Msgs
  BY <1>2 DEF ListInv, CallRight, Sending
<1>5. InHand = {curr[p]} /\ InHand' = {}
  BY <1>1, HandOf
<1>6. /\ queue' \in Seq(Nodes) /\ DOMAIN queue' = 1 .. Len(queue) + 1 /\ Len(queue') = Len(queue) + 1
      /\ queue'[1] = curr[p] /\ \A i \in 1 .. Len(queue) : queue'[i + 1] = queue[i]
  BY <1>2, <1>3, <1>4
<1>7. At(1)' = curr[p] /\ \A i \in Nat \ {0} : At(i + 1)' = At(i)
  BY <1>3, <1>6 DEF At
<1>8. \A i \in DOMAIN queue' : i # 1 => /\ i - 1 \in DOMAIN queue /\ i - 1 \in Nat \ {0}
                                         /\ queue'[i] = queue[i - 1] /\ queue[i - 1] # curr[p]
  <2>1. SUFFICES ASSUME NEW i \in DOMAIN queue', i # 1
                 PROVE  /\ i - 1 \in DOMAIN queue /\ i - 1 \in Nat \ {0}
                        /\ queue'[i] = queue[i - 1] /\ queue[i - 1] # curr[p]
    OBVIOUS
  <2>2. i - 1 \in 1 .. Len(queue) /\ (i - 1) + 1 = i
    BY <1>3, <1>6, <2>1
  <2> QED
    BY <1>3, <1>4, <1>6, <2>2 DEF InQueue
<1>9. LinksRight'
  <2>1. ASSUME NEW i \in DOMAIN queue'
        PROVE  next'[queue'[i]] = At(i + 1)'
    <3>1. CASE i = 1
      BY <1>2, <1>4, <1>6, <1>7, <3>1, SMTT(30) DEF fields
    <3>2. CASE i # 1
      <4>1. next'[queue'[i]] = At((i - 1) + 1)
        BY <1>2, <1>3, <1>8, <3>2 DEF LinksRight, fields
      <4>2. (i - 1) + 1 = i /\ i \in Nat \ {0}
        BY <1>3, <1>6
      <4> QED
        BY <1>7, <4>1, <4>2
    <3> QED
      BY <3>1, <3>2
  <2>2. \A i, j \in DOMAIN queue' : queue'[i] = queue'[j] => i = j
    <3>1. SUFFICES ASSUME NEW i \in DOMAIN queue', NEW j \in DOMAIN queue', queue'[i] = queue'[j]
                   PROVE  i = j
      OBVIOUS
    <3>2. CASE i = 1 \/ j = 1
      BY <1>6, <1>8, <3>1, <3>2
    <3>3. CASE i # 1 /\ j # 1
      <4>1. i - 1 = j - 1
        BY <1>3, <1>8, <3>1, <3>3 DEF LinksRight
      <4> QED
        BY <1>3, <1>6, <4>1
    <3> QED
      BY <3>2, <3>3
  <2> QED
    BY <1>2, <1>7, <2>1, <2>2 DEF LinksRight
<1>10. InQueue' = InQueue \cup {curr[p]}
  BY PublishedSet
<1>11. ListMatchesQueue'
  <2>1. (queue \in Seq(Nodes) =>
            (ListMatchesQueue <=> (LinksRight /\ allocated = InQueue \cup InHand)))'
    BY ListParts, PTL
  <2> QED
    BY <1>2, <1>3, <1>5, <1>6, <1>9, <1>10, <2>1
<1>12. QueueFilled'
  BY <1>2, <1>4, <1>6, <1>8 DEF ListInv, QueueFilled, fields
<1>13. TypeOK'
  BY <1>1, <1>2, <1>4, <1>6, Alone DEF SendPublish, SendReturn, EndCall, ListInv, TypeOK, fields, copies
<1>14. CallRight(p)'
  BY <1>2 DEF CallRight, Sending, Scanning, Taking, Freeing, Looking, KernelLabels
<1> QED
  BY <1>1, <1>11, <1>12, <1>13, <1>14, Alone DEF ListInv

LEMMA ListInit == Init => ListInv
<1> SUFFICES ASSUME Init PROVE ListInv
  OBVIOUS
<1>1. queue = <<>> /\ DOMAIN queue = {} /\ \A p \in Procs : pc[p] = "user"
  BY DEF Init
<1>2. TypeOK
  BY DEF Init, TypeOK, Labels
<1>3. ListMatchesQueue
  BY <1>1 DEF Init, ListMatchesQueue
<1>4. OneCall /\ QueueFilled
  BY <1>1 DEF OneCall, QueueFilled, KernelLabels
<1>5. \A p \in Procs : CallRight(p)
  BY <1>1 DEF CallRight, Sending, Scanning, Taking, Freeing, Looking, KernelLabels
<1> QED
  BY <1>2, <1>3, <1>4, <1>5 DEF ListInv

LEMMA ListStep == SwitchPoints = {} /\ ListInv /\ [Next]_vars => ListInv'
<1> SUFFICES ASSUME SwitchPoints = {}, ListInv, [Next]_vars PROVE ListInv'
  OBVIOUS
<1>1. CASE UNCHANGED vars
  <2>1. TypeOK'
    BY <1>1 DEF vars, fields, results, copies, ListInv, TypeOK
  <2>2. (OneCall /\ ListMatchesQueue /\ QueueFilled)'
    BY <1>1 DEF vars, fields, ListInv, OneCall, ListMatchesQueue, QueueFilled
  <2>3. \A p \in Procs : CallRight(p)'
    BY <1>1 DEF vars, fields, ListInv, CallRight, Sending, Scanning, Taking, Freeing, Looking,
                InQueue, At, NoneBefore
  <2> QED
    BY <2>1, <2>2, <2>3 DEF ListInv
<1>2. ASSUME NEW p \in Procs, InKernel(p)
      PROVE  ListInv'
  BY <1>2, LinkKeeps, PublishKeeps, NothingKeeps, FoundKeeps, SkipKeeps, CopyKeeps, UnlinkKeeps,
     FreeKeeps, MoreSkipKeeps, AnswerKeeps DEF InKernel
<1> QED
  BY <1>1, <1>2, FillKeeps, RejectedKeeps, StartKeeps DEF Next

(* A run of osmsg makes no steps but those of the system calls. *)
LEMMA ClientSteps == [OsmsgNext]_osmsgVars => [Next]_vars
<1> SUFFICES ASSUME [OsmsgNext]_osmsgVars PROVE [Next]_vars
  OBVIOUS
<1> USE DEF Next
<1>1. CASE UNCHANGED osmsgVars
  BY <1>1 DEF osmsgVars
<1>2. ASSUME NEW p \in Procs, RunSend(p) \/ RunSendRejected(p) \/ ExitSend(p)
      PROVE  [Next]_vars
  BY <1>2 DEF RunSend, RunSendRejected, ExitSend
<1>3. ASSUME NEW p \in Procs, RunReceive(p)
      PROVE  [Next]_vars
  BY <1>3, OsmsgAssumption DEF RunReceive
<1>4. ASSUME NEW p \in Procs, Receive(p)
      PROVE  [Next]_vars
  BY <1>4, OsmsgAssumption DEF Receive, NoMessages, PrintAndCall, PrintLast, Exit
<1>5. ASSUME NEW p \in Procs, InKernel(p)
      PROVE  [Next]_vars
  BY <1>5
<1> QED
  BY <1>1, <1>2, <1>3, <1>4, <1>5 DEF OsmsgNext

LEMMA ClientRefines == OsmsgSpec => Spec
<1>1. OsmsgInit => Init
  BY DEF OsmsgInit
<1> QED
  BY <1>1, ClientSteps, PTL DEF OsmsgSpec, Spec

LEMMA ListAlways == SwitchPoints = {} => (Spec => []ListInv)
<1> SUFFICES ASSUME SwitchPoints = {} PROVE Spec => []ListInv
  OBVIOUS
<1>1. Init => ListInv
  BY ListInit
<1>2. ListInv /\ [Next]_vars => ListInv'
  BY ListStep
<1> QED
  BY <1>1, <1>2, PTL DEF Spec

(* While the calls follow one another the pointers of cs1550_send_msg and  *)
(* cs1550_get_msg describe the queue: nothing in the list is free, nothing *)
(* leaks, and no message stands in it twice (lines 177-178, 221-234).      *)
THEOREM ListKept == SwitchPoints = {} => (OsmsgSpec => []ListMatchesQueue)
<1> SUFFICES ASSUME SwitchPoints = {} PROVE OsmsgSpec => []ListMatchesQueue
  OBVIOUS
<1>1. Spec => []ListInv
  BY ListAlways
<1>2. ListInv => ListMatchesQueue
  BY DEF ListInv
<1> QED
  BY <1>1, <1>2, ClientRefines, PTL

(* Every variable of the system calls stays in its range (lines 139-260).  *)
THEOREM Typed == SwitchPoints = {} => (Spec => []TypeOK)
<1> SUFFICES ASSUME SwitchPoints = {} PROVE Spec => []TypeOK
  OBVIOUS
<1>1. Spec => []ListInv
  BY ListAlways
<1>2. ListInv => TypeOK
  BY DEF ListInv
<1> QED
  BY <1>1, <1>2, PTL
------------------------------------------------------------------------------
(* Following next from head meets the objects of the queue and no others. *)

LEMMA LeastNat ==
    ASSUME NEW S \in SUBSET Nat, S # {}
    PROVE  \E x \in S : \A y \in S : x =< y
<1>1. PICK x \in S : \A y \in S : <<y, x>> \notin OpToRel(<, Nat)
  BY WFMin, NatLessThanWellFounded
<1>2. ASSUME NEW y \in S
      PROVE  x =< y
  <2>1. <<y, x>> \notin OpToRel(<, Nat)
    BY <1>1
  <2>2. ~(y < x)
    BY <2>1 DEF OpToRel
  <2> QED
    BY <2>2
<1> QED
  BY <1>2

LEMMA ReachableIsQueue == ListInv => Reachable = InQueue
<1> SUFFICES ASSUME ListInv PROVE Reachable = InQueue
  OBVIOUS
<1> DEFINE N == Cardinality(Nodes)
           Follow(w) == [i \in 0 .. N |-> IF i = 0 THEN head
                                         ELSE IF w[i - 1] = NULL THEN NULL ELSE next[w[i - 1]]]
           walk == CHOOSE w : w = Follow(w)
           along == [i \in 0 .. N |-> At(i + 1)]
<1>1. Reachable = {walk[i] : i \in 0 .. N} \ {NULL}
  BY DEF Reachable
<1>2. /\ queue \in Seq(Nodes) /\ LinksRight /\ Len(queue) \in Nat /\ DOMAIN queue = 1 .. Len(queue)
      /\ NULL \notin Nodes /\ N \in Nat
  BY ListParts, MsgQueueAssumption, FS_CardinalityType DEF ListInv, TypeOK
<1>3. \A i \in 0 .. N : i # 0 => i - 1 \in 0 .. N
  BY <1>2
<1>4. along = Follow(along)
  <2>1. ASSUME NEW i \in 0 .. N
        PROVE  along[i] = Follow(along)[i]
    <3>1. CASE i = 0
      BY <1>2, <3>1 DEF LinksRight
    <3>2. CASE i # 0
      <4>1. along[i - 1] = At((i - 1) + 1) /\ (i - 1) + 1 = i
        BY <1>2, <1>3, <3>2
      <4>2. CASE i \in DOMAIN queue
        <5>1. At(i) = queue[i] /\ queue[i] # NULL
          BY <1>2, <4>2 DEF At
        <5> QED
          BY <1>2, <3>2, <4>1, <4>2, <5>1 DEF LinksRight
      <4>3. CASE i \notin DOMAIN queue
        <5>1. At(i) = NULL /\ At(i + 1) = NULL
          BY <1>2, <3>2, <4>3 DEF At
        <5> QED
          BY <3>2, <4>1, <5>1
      <4> QED
        BY <4>2, <4>3
    <3> QED
      BY <3>1, <3>2
  <2>2. along = [i \in 0 .. N |-> along[i]] /\ Follow(along) = [i \in 0 .. N |-> Follow(along)[i]]
    OBVIOUS
  <2> HIDE DEF along, Follow
  <2> QED
    BY <2>1, <2>2
<1>5. walk = Follow(walk)
  BY <1>4
<1> HIDE DEF walk
<1>6. ASSUME NEW i \in 0 .. N, walk[i] # along[i]
      PROVE  FALSE
  <2> DEFINE S == {j \in 0 .. N : walk[j] # along[j]}
  <2>1. S \in SUBSET Nat /\ S # {}
    <3>1. i \in S
      BY <1>6
    <3>2. \A j \in S : j \in Nat
      OBVIOUS
    <3> QED
      BY <3>1, <3>2
  <2>2. PICK j \in S : \A k \in S : j =< k
    BY <2>1, LeastNat
  <2>3. j # 0
    BY <1>4, <1>5, <2>2
  <2>4. j - 1 \in 0 .. N /\ walk[j - 1] = along[j - 1]
    <3>1. j - 1 \in 0 .. N /\ ~(j =< j - 1)
      BY <1>2, <1>3, <2>3
    <3> QED
      BY <2>2, <3>1
  <2>5. Follow(walk)[j] = Follow(along)[j]
    BY <2>4
  <2>6. walk[j] = along[j]
    BY <1>4, <1>5, <2>5
  <2> QED
    BY <2>6
<1>7. Len(queue) =< N
  <2>1. queue \in Bijection(1 .. Len(queue), InQueue)
    BY <1>2 DEF LinksRight, InQueue, Bijection, Injection, Surjection, IsInjective
  <2>2. Cardinality(InQueue) = Len(queue)
    BY <1>2, <2>1, FS_CountingElements DEF ExistsBijection
  <2>3. InQueue \subseteq Nodes
    BY <1>2 DEF InQueue
  <2> QED
    BY <2>2, <2>3, FS_Subset, MsgQueueAssumption
<1>8. ASSUME NEW i \in DOMAIN queue
      PROVE  queue[i] \in Reachable
  <2>1. i - 1 \in 0 .. N /\ (i - 1) + 1 = i
    BY <1>2, <1>7
  <2>2. walk[i - 1] = queue[i]
    BY <1>6, <2>1 DEF At
  <2>3. queue[i] # NULL
    BY <1>2
  <2> QED
    BY <1>1, <2>1, <2>2, <2>3
<1>9. ASSUME NEW i \in 0 .. N, walk[i] # NULL
      PROVE  walk[i] \in InQueue
  BY <1>6, <1>9 DEF At, InQueue
<1> QED
  BY <1>1, <1>8, <1>9 DEF InQueue
------------------------------------------------------------------------------
(* The messages: where each of them is. *)

(* No object holds the message of another. *)
OwnMessages == \A n, o \in allocated : msg[n] = msg[o] => n = o

(* What is published was sent, what a call still holds was not. *)
SentInQueue == \A n \in InQueue : msg[n] \in sent
HeldUnsent == \A p \in Procs : pc[p] \in {"send_link", "send_publish"} => msg[curr[p]] \notin sent

(* What was copied, or could not be, was sent; it is in the queue no more, *)
(* but for the message that is about to be unlinked.                       *)
TakenWasSent == received \cup dropped \subseteq sent
TakenIsGone ==
    \A n \in InQueue : msg[n] \in received \cup dropped =>
        \E p \in Procs : pc[p] = "get_unlink" /\ curr[p] = n
UnlinksTaken == \A p \in Procs : pc[p] = "get_unlink" => msg[curr[p]] \in received \cup dropped

(* Nothing that was sent is lost. *)
SentAccounted == sent \subseteq {msg[n] : n \in InQueue} \cup received \cup dropped

MsgInv ==
    /\ OwnMessages /\ SentInQueue /\ HeldUnsent
    /\ TakenWasSent /\ TakenIsGone /\ UnlinksTaken /\ SentAccounted

LEMMA MsgInit == Init => MsgInv
BY DEF Init, MsgInv, OwnMessages, SentInQueue, HeldUnsent, TakenWasSent, TakenIsGone, UnlinksTaken,
       SentAccounted, InQueue

(* The objects in the queue are allocated, and so are those in the hands   *)
(* of a call.                                                              *)
LEMMA QueueAllocated ==
    ASSUME ListInv
    PROVE  /\ InQueue \subseteq allocated /\ allocated \subseteq Nodes
           /\ \A p \in Procs : pc[p] \in {"send_link", "send_publish", "get_free"}
                                 => curr[p] \in allocated \ InQueue
BY ListParts DEF ListInv, TypeOK, CallRight, Sending, Freeing, InHand

(* The steps that move no message. *)
LEMMA QuietMsg ==
    ASSUME ListInv, MsgInv, SwitchPoints = {}, NEW p \in Procs,
           NEW a \in Labels, NEW b \in Labels, Step(p, a, b), "get_unlink" \notin {a, b},
           UNCHANGED <<msg, queue, sent, received, dropped>>, allocated' \subseteq allocated,
           b \in {"send_link", "send_publish"} => a = "send_link" /\ curr' = curr
    PROVE  MsgInv'
<1>1. /\ \A q \in Procs \ {p} : pc[q] = "user" /\ pc'[q] = "user"
      /\ pc[p] = a /\ pc'[p] = b
  BY Alone
<1>2. InQueue' = InQueue
  BY DEF InQueue
<1>3. (OwnMessages /\ SentInQueue /\ TakenWasSent /\ SentAccounted)'
  BY <1>2 DEF MsgInv, OwnMessages, SentInQueue, TakenWasSent, SentAccounted
<1>4. HeldUnsent'
  BY <1>1 DEF MsgInv, HeldUnsent
<1>5. (TakenIsGone /\ UnlinksTaken)'
  BY <1>1, <1>2 DEF MsgInv, TakenIsGone, UnlinksTaken
<1> QED
  BY <1>3, <1>4, <1>5 DEF MsgInv

LEMMA FillMsg ==
    ASSUME ListInv, MsgInv, SwitchPoints = {}, NEW p \in Procs, NEW u \in Users, NEW m \in Msgs,
           SendFill(p, u, m)
    PROVE  MsgInv'
<1>1. Step(p, "user", "send_link") /\ "send_link" \in Labels
  BY DEF SendFill, Labels, KernelLabels
<1>2. PICK n \in Nodes \ allocated :
          /\ allocated' = allocated \cup {n} /\ curr' = [curr EXCEPT ![p] = n]
          /\ msg' = [msg EXCEPT ![n] = m] /\ UNCHANGED <<queue, sent, received, dropped>>
          /\ m \notin sent /\ m \notin {msg[o] : o \in allocated}
  BY DEF SendFill, InUse, copies
<1>3. /\ \A q \in Procs \ {p} : pc[q] = "user" /\ pc'[q] = "user"
      /\ pc[p] = "user" /\ pc'[p] = "send_link"
  BY <1>1, Alone
<1>4. /\ InQueue' = InQueue /\ InQueue \subseteq allocated
      /\ \A o \in allocated : msg'[o] = msg[o] /\ o # n
  BY <1>2, QueueAllocated DEF InQueue, ListInv, TypeOK
<1>5. msg'[n] = m /\ curr'[p] = n
  BY <1>2 DEF ListInv, TypeOK
<1>6. OwnMessages'
  BY <1>2, <1>4, <1>5 DEF MsgInv, OwnMessages
<1>7. (SentInQueue /\ TakenWasSent)'
  BY <1>2, <1>4 DEF MsgInv, SentInQueue, TakenWasSent
<1>8. HeldUnsent'
  BY <1>2, <1>3, <1>5 DEF HeldUnsent
<1>9. SentAccounted'
  <2>1. {msg'[o] : o \in InQueue'} = {msg[o] : o \in InQueue}
    BY <1>4
  <2> QED
    BY <1>2, <2>1 DEF MsgInv, SentAccounted
<1>10. (TakenIsGone /\ UnlinksTaken)'
  BY <1>2, <1>3, <1>4 DEF MsgInv, TakenIsGone, UnlinksTaken
<1> QED
  BY <1>6, <1>7, <1>8, <1>9, <1>10 DEF MsgInv

LEMMA PublishMsg ==
    ASSUME ListInv, MsgInv, SwitchPoints = {}, NEW p \in Procs, SendPublish(p)
    PROVE  MsgInv'
<1>1. Step(p, "send_publish", "user") /\ "user" \in Labels
  BY DEF SendPublish, Labels, KernelLabels
<1>2. /\ UNCHANGED <<msg, allocated, received, dropped>>
      /\ queue' = <<curr[p]>> \o queue /\ sent' = sent \cup {msg[curr[p]]}
  BY DEF SendPublish, fields, copies
<1>3. /\ \A q \in Procs \ {p} : pc[q] = "user" /\ pc'[q] = "user"
      /\ pc[p] = "send_publish" /\ pc'[p] = "user"
  BY <1>1, Alone
<1>4. curr[p] \in Nodes /\ queue \in Seq(Nodes) /\ msg[curr[p]] \notin sent
  BY <1>3 DEF ListInv, TypeOK, CallRight, Sending, MsgInv, HeldUnsent
<1>5. InQueue' = InQueue \cup {curr[p]}
  BY PublishedSet
<1>6. (OwnMessages /\ SentInQueue /\ TakenWasSent /\ SentAccounted)'
  BY <1>2, <1>5 DEF MsgInv, OwnMessages, SentInQueue, TakenWasSent, SentAccounted
<1>7. (HeldUnsent /\ UnlinksTaken)'
  BY <1>3 DEF HeldUnsent, UnlinksTaken
<1>8. TakenIsGone'
  BY <1>2, <1>3, <1>4, <1>5 DEF MsgInv, TakenIsGone, TakenWasSent
<1> QED
  BY <1>6, <1>7, <1>8 DEF MsgInv

LEMMA CopyMsg ==
    ASSUME ListInv, MsgInv, SwitchPoints = {}, NEW p \in Procs, GetCopy(p)
    PROVE  MsgInv'
<1>1. Step(p, "get_copy", "get_unlink") /\ "get_unlink" \in Labels
  BY DEF GetCopy, Labels, KernelLabels
<1>2. /\ UNCHANGED <<msg, allocated, queue, sent, curr>>
      /\ received' \cup dropped' = received \cup dropped \cup {msg[curr[p]]}
  BY DEF GetCopy, fields
<1>3. /\ \A q \in Procs \ {p} : pc[q] = "user" /\ pc'[q] = "user"
      /\ pc[p] = "get_copy" /\ pc'[p] = "get_unlink"
  BY <1>1, Alone
<1>4. curr[p] \in InQueue /\ InQueue' = InQueue /\ InQueue \subseteq allocated
  BY <1>2, <1>3, TakenOut, QueueAllocated DEF InQueue
<1>5. (OwnMessages /\ SentInQueue /\ TakenWasSent /\ SentAccounted)'
  BY <1>2, <1>4 DEF MsgInv, OwnMessages, SentInQueue, TakenWasSent, SentAccounted
<1>6. (HeldUnsent /\ UnlinksTaken)'
  BY <1>2, <1>3 DEF HeldUnsent, UnlinksTaken
<1>7. TakenIsGone'
  BY <1>2, <1>3, <1>4 DEF MsgInv, TakenIsGone, OwnMessages
<1> QED
  BY <1>5, <1>6, <1>7 DEF MsgInv

LEMMA UnlinkMsg ==
    ASSUME ListInv, MsgInv, SwitchPoints = {}, NEW p \in Procs, GetUnlink(p)
    PROVE  MsgInv'
<1>1. Step(p, "get_unlink", "get_free") /\ "get_free" \in Labels
  BY DEF GetUnlink, Labels, KernelLabels
<1>2. UNCHANGED <<msg, allocated, sent, curr, received, dropped>> /\ queue' = Without(queue, curr[p])
  BY DEF GetUnlink, copies
<1>3. /\ \A q \in Procs \ {p} : pc[q] = "user" /\ pc'[q] = "user"
      /\ pc[p] = "get_unlink" /\ pc'[p] = "get_free"
  BY <1>1, Alone
<1>4. InQueue' = InQueue \ {curr[p]} /\ msg[curr[p]] \in received \cup dropped
  BY <1>2, <1>3, TakenOut DEF InQueue, MsgInv, UnlinksTaken
<1>5. (OwnMessages /\ SentInQueue /\ TakenWasSent /\ SentAccounted)'
  BY <1>2, <1>4 DEF MsgInv, OwnMessages, SentInQueue, TakenWasSent, SentAccounted
<1>6. (HeldUnsent /\ UnlinksTaken)'
  BY <1>3 DEF HeldUnsent, UnlinksTaken
<1>7. TakenIsGone'
  BY <1>2, <1>3, <1>4 DEF MsgInv, TakenIsGone
<1> QED
  BY <1>5, <1>6, <1>7 DEF MsgInv

LEMMA MsgStep == SwitchPoints = {} /\ ListInv /\ MsgInv /\ [Next]_vars => MsgInv'
<1> SUFFICES ASSUME SwitchPoints = {}, ListInv, MsgInv, [Next]_vars PROVE MsgInv'
  OBVIOUS
<1> USE DEF Labels, KernelLabels
<1>1. CASE UNCHANGED vars
  BY <1>1 DEF vars, fields, copies, MsgInv, OwnMessages, SentInQueue, HeldUnsent, TakenWasSent,
              TakenIsGone, UnlinksTaken, SentAccounted, InQueue
<1>2. ASSUME NEW p \in Procs, SendRejected(p)
      PROVE  MsgInv'
  BY <1>2, QuietMsg DEF SendRejected, fields, copies
<1>3. ASSUME NEW p \in Procs, NEW u \in Users, GetStart(p, u)
      PROVE  MsgInv'
  BY <1>3, QuietMsg DEF GetStart, fields, copies
<1>4. ASSUME NEW p \in Procs, SendLink(p)
      PROVE  MsgInv'
  BY <1>4, QuietMsg DEF SendLink, copies
<1>5. ASSUME NEW p \in Procs, GetNothing(p)
      PROVE  MsgInv'
  BY <1>5, QuietMsg DEF GetNothing, fields, copies
<1>6. ASSUME NEW p \in Procs, GetFound(p)
      PROVE  MsgInv'
  BY <1>6, QuietMsg DEF GetFound, fields, copies
<1>7. ASSUME NEW p \in Procs, GetSkip(p)
      PROVE  MsgInv'
  BY <1>7, QuietMsg DEF GetSkip, fields, copies
<1>8. ASSUME NEW p \in Procs, GetFree(p)
      PROVE  MsgInv'
  BY <1>8, QuietMsg DEF GetFree, fields, copies
<1>9. ASSUME NEW p \in Procs, GetMoreSkip(p)
      PROVE  MsgInv'
  BY <1>9, QuietMsg DEF GetMoreSkip, fields, copies
<1>10. ASSUME NEW p \in Procs, GetAnswer(p)
       PROVE  MsgInv'
  BY <1>10, QuietMsg DEF GetAnswer, fields, copies
<1>11. ASSUME NEW p \in Procs, InKernel(p)
       PROVE  MsgInv'
  BY <1>4, <1>5, <1>6, <1>7, <1>8, <1>9, <1>10, <1>11, PublishMsg, CopyMsg, UnlinkMsg DEF InKernel
<1> QED
  BY <1>1, <1>2, <1>3, <1>11, FillMsg DEF Next

LEMMA MsgAlways == SwitchPoints = {} => (Spec => [](ListInv /\ MsgInv))
<1> SUFFICES ASSUME SwitchPoints = {} PROVE Spec => [](ListInv /\ MsgInv)
  OBVIOUS
<1>1. Init => MsgInv
  BY MsgInit
<1>2. ListInv /\ MsgInv /\ [Next]_vars => MsgInv'
  BY MsgStep
<1>3. Spec => []ListInv
  BY ListAlways
<1> QED
  BY <1>1, <1>2, <1>3, PTL DEF Spec

(* While the calls follow one another, what cs1550_send_msg answered with  *)
(* 0 is in the list, which next leads along, until a cs1550_get_msg has it *)
(* or failed to copy it (lines 159-160, 208-226): the loss that the run    *)
(* msg_sleeps shows needs a call that sleeps in copy_to_user.              *)
THEOREM NothingLost == SwitchPoints = {} => (Spec => []SentIsKept)
<1> SUFFICES ASSUME SwitchPoints = {} PROVE Spec => []SentIsKept
  OBVIOUS
<1>1. Spec => [](ListInv /\ MsgInv)
  BY MsgAlways
<1>2. ListInv /\ MsgInv => SentIsKept
  BY ReachableIsQueue DEF MsgInv, SentAccounted, SentIsKept
<1> QED
  BY <1>1, <1>2, PTL
------------------------------------------------------------------------------
(* The client: what its terminals have still to print. *)

(* Each user reads in one terminal. *)
OneTerminal == \A p, q \in Readers : Owner[p] = Owner[q] => p = q

Reading(p) == client[p] \in {"first_call", "next_call"}

(* Where the call of a terminal is, and for whom. *)
ClientRight(p) ==
    /\ client[p] = "shell" => pc[p] = "user"
    /\ client[p] = "send_message" => pc[p] \in {"user", "send_link", "send_publish"}
    /\ Reading(p) => /\ p \in Readers /\ pc[p] \notin {"send_link", "send_publish"}
                     /\ pc[p] # "user" => user[p] = Owner[p]

ClientInv ==
    /\ client \in [Procs -> {"shell", "send_message", "first_call", "next_call"}]
    /\ \A p \in Procs : ClientRight(p)

(* The buffers of p hold a message, or what a failed copy left there, that *)
(* p is going to print.                                                    *)
Printing(p) ==
    /\ Reading(p)
    /\ \/ pc[p] \in {"get_unlink", "get_free", "get_more"}
       \/ pc[p] = "user" /\ result[p] \in {0, 1}

Held(p) == IF Printing(p) THEN {m \in Msgs : out[p] = Line(m)} ELSE {}

Shown == {m \in Msgs : Line(m) \in printed}

(* The messages in the queue for the user of p. *)
Left(p) == {msg[n] : n \in {m \in InQueue : to[m] = Owner[p]}}

(* What p found when it began is printed, or lost by a failed copy, or in  *)
(* its buffers, or still in the queue; not in the queue when p has been    *)
(* told that nothing is left.                                              *)
DueRight(p) ==
    /\ ~Reading(p) => due[p] \subseteq Shown \cup dropped
    /\ Reading(p) => due[p] \subseteq Shown \cup dropped \cup Held(p) \cup Left(p)
    /\ Reading(p) /\ pc[p] = "user" /\ result[p] # 1 =>
          due[p] \subseteq Shown \cup dropped \cup Held(p)
    /\ Reading(p) /\ pc[p] = "get_unlink" =>
          out[p] = Line(msg[curr[p]]) \/ msg[curr[p]] \in dropped

DueInv == due \in [Procs -> SUBSET Msgs] /\ \A p \in Procs : DueRight(p)

(* A terminal that was told there are more messages finds one. *)
FindsMore(p) ==
    /\ Reading(p) /\ pc[p] = "user" /\ result[p] = 1 => Left(p) # {}
    /\ client[p] = "next_call" /\ pc[p] = "get_scan" => Left(p) # {}
    /\ client[p] = "next_call" /\ pc[p] = "user" => result[p] \in {0, 1}

Lines(messages) == {Line(m) : m \in messages}

(* As long as every copy succeeds, the buffers hold a message that has not *)
(* been printed, and no two terminals hold the same.                       *)
OnceRight ==
    dropped = {} =>
        /\ reprinted = {} /\ printed \subseteq Lines(received)
        /\ \A p \in Procs : Printing(p) => out[p] \in Lines(received) \ printed
        /\ \A p, q \in Procs : Printing(p) /\ Printing(q) /\ out[p] = out[q] => p = q

OnceInv == OnceRight /\ \A p \in Procs : FindsMore(p)

SendLabels == {"send_link", "send_publish"}

(* A step inside a call stays on the side of sending or of receiving, and  *)
(* keeps the user's name until the call is over.                           *)
LEMMA KernelMove ==
    ASSUME ListInv, SwitchPoints = {}, NEW p \in Procs, InKernel(p)
    PROVE  \E a, b \in Labels :
              /\ Step(p, a, b) /\ a # "user"
              /\ b # "user" => (a \in SendLabels <=> b \in SendLabels) /\ user' = user
<1> USE DEF Labels, KernelLabels, SendLabels
<1>1. CASE SendLink(p)
  BY <1>1 DEF SendLink
<1>2. CASE SendPublish(p)
  BY <1>2 DEF SendPublish
<1>3. CASE GetNothing(p)
  BY <1>3 DEF GetNothing
<1>4. CASE GetFound(p)
  BY <1>4 DEF GetFound
<1>5. CASE GetSkip(p)
  BY <1>5 DEF GetSkip
<1>6. CASE GetCopy(p)
  BY <1>6 DEF GetCopy
<1>7. CASE GetUnlink(p)
  BY <1>7 DEF GetUnlink
<1>8. CASE GetFree(p)
  BY <1>8 DEF GetFree
<1>9. CASE GetMoreSkip(p)
  BY <1>9 DEF GetMoreSkip
<1>10. CASE GetAnswer(p)
  BY <1>10 DEF GetAnswer
<1> QED
  BY <1>1, <1>2, <1>3, <1>4, <1>5, <1>6, <1>7, <1>8, <1>9, <1>10 DEF InKernel

LEMMA ClientKernel ==
    ASSUME ListInv, ClientInv, SwitchPoints = {}, NEW p \in Procs, InKernel(p), client' = client
    PROVE  ClientInv'
<1>1. PICK a \in Labels, b \in Labels :
              /\ Step(p, a, b) /\ a # "user"
              /\ b # "user" => (a \in SendLabels <=> b \in SendLabels) /\ user' = user
  BY KernelMove
<1>2. /\ \A q \in Procs \ {p} : pc'[q] = "user"
      /\ pc[p] = a /\ pc'[p] = b
  BY <1>1, Alone
<1>3. ASSUME NEW q \in Procs
      PROVE  ClientRight(q)'
  <2>1. CASE q = p
    BY <1>1, <1>2, <2>1 DEF ClientInv, ClientRight, Reading, SendLabels
  <2>2. CASE q # p
    BY <1>2, <2>2 DEF ClientInv, ClientRight, Reading
  <2> QED
    BY <2>1, <2>2
<1> QED
  BY <1>3 DEF ClientInv

(* The steps of the client itself change nothing for another terminal, and *)
(* what is in the queue stays there.                                       *)
LEMMA ClientMoves ==
    ASSUME ListInv, ClientInv, SwitchPoints = {}, NEW p \in Procs,
           RunSend(p) \/ RunSendRejected(p) \/ ExitSend(p) \/ RunReceive(p) \/ Receive(p)
    PROVE  /\ UNCHANGED <<result, out, received, dropped>>
           /\ \A q \in Procs \ {p} : pc'[q] = pc[q] /\ client'[q] = client[q] /\ user'[q] = user[q]
           /\ \A q \in Procs \ {p} : pc[q] = "get_unlink" => msg'[curr'[q]] = msg[curr[q]]
           /\ \A q \in Procs : Left(q)' = Left(q)
           /\ client' \in [Procs -> {"shell", "send_message", "first_call", "next_call"}]
<1> USE DEF Labels, KernelLabels
<1>1. /\ client \in [Procs -> {"shell", "send_message", "first_call", "next_call"}]
      /\ pc \in [Procs -> Labels] /\ user \in [Procs -> Users \cup {None}]
  BY DEF ClientInv, ListInv, TypeOK
<1>2. CASE RunSend(p)
  <2>1. PICK u \in Users, m \in Msgs : SendFill(p, u, m)
    BY <1>2 DEF RunSend
  <2>2. PICK n \in Nodes \ allocated : /\ to' = [to EXCEPT ![n] = u] /\ msg' = [msg EXCEPT ![n] = m]
                                       /\ UNCHANGED <<user, out, results, queue, copies>>
    BY <2>1 DEF SendFill
  <2>3. InQueue' = InQueue /\ \A o \in InQueue : msg'[o] = msg[o] /\ to'[o] = to[o]
    BY <2>2, QueueAllocated DEF InQueue, ListInv, TypeOK
  <2>4. \A q \in Procs : Left(q)' = Left(q)
    BY <2>3 DEF Left
  <2>5. \A q \in Procs \ {p} : pc'[q] = pc[q] /\ pc[q] = "user"
    BY <1>1, <2>1 DEF SendFill, Step
  <2> QED
    BY <1>1, <1>2, <2>2, <2>4, <2>5 DEF RunSend, Goto, results, copies
<1>3. CASE RunSendRejected(p)
  <2>1. UNCHANGED <<fields, out, result, queue, copies>>
    BY <1>3 DEF RunSendRejected, SendRejected, SendReturn
  <2>2. \A q \in Procs : Left(q)' = Left(q)
    BY <2>1 DEF Left, InQueue, fields
  <2>3. \A q \in Procs \ {p} : pc'[q] = pc[q] /\ user'[q] = user[q] /\ pc[q] = "user"
    BY <1>1, <1>3 DEF RunSendRejected, SendRejected, SendReturn, EndCall, Step
  <2> QED
    BY <1>1, <1>3, <2>1, <2>2, <2>3 DEF RunSendRejected, Goto, copies
<1>4. CASE ExitSend(p) \/ NoMessages(p) \/ PrintLast(p)
  <2>1. UNCHANGED vars
    BY <1>4 DEF ExitSend, NoMessages, PrintLast, Exit
  <2>2. \A q \in Procs : Left(q)' = Left(q)
    BY <2>1 DEF Left, InQueue, vars, fields
  <2>3. \A q \in Procs \ {p} : client'[q] = client[q]
    BY <1>1, <1>4 DEF ExitSend, NoMessages, PrintLast, Exit, Goto
  <2>4. client' \in [Procs -> {"shell", "send_message", "first_call", "next_call"}]
    BY <1>1, <1>4 DEF ExitSend, NoMessages, PrintLast, Exit, Goto
  <2> QED
    BY <2>1, <2>2, <2>3, <2>4 DEF vars, fields, results, copies
<1>5. CASE RunReceive(p) \/ PrintAndCall(p)
  <2>1. GetStart(p, Owner[p])
    BY <1>5 DEF RunReceive, PrintAndCall
  <2>2. \A q \in Procs : Left(q)' = Left(q)
    BY <2>1 DEF GetStart, Left, InQueue, fields
  <2>3. /\ \A q \in Procs \ {p} : pc'[q] = pc[q] /\ user'[q] = user[q] /\ pc[q] = "user"
        /\ UNCHANGED <<result, out, received, dropped>>
    BY <1>1, <2>1 DEF GetStart, Step, results, copies
  <2>4. \A q \in Procs \ {p} : client'[q] = client[q]
    BY <1>1, <1>5 DEF RunReceive, PrintAndCall, Goto
  <2>5. client' \in [Procs -> {"shell", "send_message", "first_call", "next_call"}]
    BY <1>1, <1>5 DEF RunReceive, PrintAndCall, Goto
  <2> QED
    BY <2>2, <2>3, <2>4, <2>5
<1> QED
  BY <1>2, <1>3, <1>4, <1>5 DEF Receive

(* Where they leave the terminal itself. *)
LEMMA ClientGoes ==
    ASSUME ListInv, ClientInv, SwitchPoints = {}, NEW p \in Procs
    PROVE  /\ RunSend(p) => client'[p] = "send_message" /\ pc'[p] = "send_link" /\ client[p] = "shell"
           /\ RunSendRejected(p) => /\ client'[p] = "send_message" /\ pc'[p] = "user"
                                     /\ client[p] = "shell"
           /\ ExitSend(p) => client'[p] = "shell" /\ pc'[p] = "user" /\ client[p] = "send_message"
           /\ RunReceive(p) => /\ client'[p] = "first_call" /\ pc'[p] = "get_scan"
                                /\ user'[p] = Owner[p] /\ p \in Readers
           /\ PrintAndCall(p) => /\ client'[p] = "next_call" /\ pc'[p] = "get_scan"
                                  /\ user'[p] = Owner[p] /\ Reading(p)
                                  /\ pc[p] = "user" /\ result[p] = 1
           /\ NoMessages(p) \/ PrintLast(p) => client'[p] = "shell" /\ pc'[p] = "user" /\ Reading(p)
                                                 /\ pc[p] = "user" /\ result[p] # 1
<1>1. /\ client \in [Procs -> {"shell", "send_message", "first_call", "next_call"}]
      /\ pc \in [Procs -> Labels] /\ user \in [Procs -> Users \cup {None}]
  BY DEF ClientInv, ListInv, TypeOK
<1>2. RunSend(p) => client'[p] = "send_message" /\ pc'[p] = "send_link" /\ client[p] = "shell"
  BY <1>1 DEF RunSend, SendFill, Step, Goto
<1>3. RunSendRejected(p) => /\ client'[p] = "send_message" /\ pc'[p] = "user"
                            /\ client[p] = "shell"
  BY <1>1 DEF RunSendRejected, SendRejected, Step, Goto
<1>4. ExitSend(p) => client'[p] = "shell" /\ pc'[p] = "user" /\ client[p] = "send_message"
  BY <1>1 DEF ExitSend, Goto, vars
<1>5. RunReceive(p) => /\ client'[p] = "first_call" /\ pc'[p] = "get_scan"
                       /\ user'[p] = Owner[p] /\ p \in Readers
  BY <1>1 DEF RunReceive, GetStart, Step, Goto
<1>6. PrintAndCall(p) => /\ client'[p] = "next_call" /\ pc'[p] = "get_scan"
                         /\ user'[p] = Owner[p] /\ Reading(p)
                         /\ pc[p] = "user" /\ result[p] = 1
  BY <1>1 DEF PrintAndCall, GetStart, Step, Goto, Reading
<1>7. NoMessages(p) \/ PrintLast(p) => client'[p] = "shell" /\ pc'[p] = "user" /\ Reading(p)
                                        /\ pc[p] = "user" /\ result[p] # 1
  BY <1>1 DEF NoMessages, PrintLast, Exit, Goto, vars, Reading
<1> QED
  BY <1>2, <1>3, <1>4, <1>5, <1>6, <1>7

LEMMA ClientOwn ==
    ASSUME ListInv, ClientInv, SwitchPoints = {}, NEW p \in Procs,
           RunSend(p) \/ RunSendRejected(p) \/ ExitSend(p) \/ RunReceive(p) \/ Receive(p)
    PROVE  ClientInv'
<1>1. ASSUME NEW q \in Procs
      PROVE  ClientRight(q)'
  <2>1. CASE q = p
    BY <2>1, ClientGoes DEF ClientInv, ClientRight, Reading, Receive
  <2>2. CASE q # p
    BY <2>2, ClientMoves DEF ClientInv, ClientRight, Reading
  <2> QED
    BY <2>1, <2>2
<1> QED
  BY <1>1, ClientMoves DEF ClientInv

(* Where the walk along the list ends, nothing is left for the user; where *)
(* it stops earlier, something is.                                         *)
LEMMA NothingLeft ==
    ASSUME ListInv, NEW p \in Procs, user[p] = Owner[p],
           NEW i \in 1 .. Len(queue) + 1, At(i) = NULL, NoneBefore(p, i)
    PROVE  Left(p) = {}
<1>1. queue \in Seq(Nodes) /\ NULL \notin Nodes
  BY MsgQueueAssumption DEF ListInv, TypeOK
<1>2. i = Len(queue) + 1
  BY <1>1 DEF At
<1>3. \A j \in DOMAIN queue : to[queue[j]] # Owner[p]
  BY <1>1, <1>2 DEF NoneBefore
<1> QED
  BY <1>3 DEF Left, InQueue

LEMMA SomeLeft ==
    ASSUME NEW p \in Procs, user[p] = Owner[p], NEW i, At(i) # NULL, to[At(i)] = user[p]
    PROVE  Left(p) # {}
<1>1. At(i) \in InQueue
  BY DEF At, InQueue
<1> QED
  BY <1>1 DEF Left

(* What a step inside the call of p leaves to the other terminals.         *)
LEMMA OthersKeep ==
    ASSUME ListInv, ClientInv, SwitchPoints = {}, OneTerminal, NEW p \in Procs, InKernel(p),
           client' = client, NEW q \in Procs \ {p}
    PROVE  /\ pc[q] = "user" /\ pc'[q] = "user"
           /\ result'[q] = result[q] /\ out'[q] = out[q]
           /\ Reading(q) => Left(q) \subseteq Left(q)'
<1>1. PICK a \in Labels, b \in Labels : Step(p, a, b)
  BY KernelMove
<1>2. pc[q] = "user" /\ pc'[q] = "user"
  BY <1>1, Alone
<1>3. result'[q] = result[q] /\ out'[q] = out[q]
  BY DEF InKernel, SendLink, SendPublish, GetNothing, GetFound, GetSkip, GetCopy, GetUnlink, GetFree,
         GetMoreSkip, GetAnswer, SendReturn, Return, results, ListInv, TypeOK
<1>4. UNCHANGED <<to, msg>>
  BY DEF InKernel, SendLink, SendPublish, GetNothing, GetFound, GetSkip, GetCopy, GetUnlink, GetFree,
         GetMoreSkip, GetAnswer, fields
<1>5. ASSUME Reading(q)
      PROVE  Left(q) \subseteq Left(q)'
  <2>1. CASE GetUnlink(p)
    <3>1. pc[p] = "get_unlink"
      BY <2>1 DEF GetUnlink, Step
    <3>2. InQueue' = InQueue \ {curr[p]}
      BY <2>1, UnlinkedSet
    <3>3. to[curr[p]] = user[p]
      BY <3>1, TakenPlace
    <3>4. user[p] = Owner[p] /\ p \in Readers
      BY <3>1 DEF ClientInv, ClientRight, Reading
    <3>5. q \in Readers
      BY <1>5 DEF ClientInv, ClientRight
    <3>6. Owner[q] # Owner[p]
      BY <3>4, <3>5 DEF OneTerminal
    <3> QED
      BY <1>4, <3>2, <3>3, <3>4, <3>6 DEF Left
  <2>2. CASE SendPublish(p)
    <3>1. InQueue' = InQueue \cup {curr[p]}
      BY <2>2, PublishedSet
    <3> QED
      BY <1>4, <3>1 DEF Left
  <2>3. CASE ~GetUnlink(p) /\ ~SendPublish(p)
    <3>1. queue' = queue
      BY <2>3 DEF InKernel, SendLink, GetNothing, GetFound, GetSkip, GetCopy, GetFree, GetMoreSkip,
                  GetAnswer
    <3> QED
      BY <1>4, <3>1 DEF Left, InQueue
  <2> QED
    BY <2>1, <2>2, <2>3
<1> QED
  BY <1>2, <1>3, <1>5

(* What the steps of a cs1550_get_msg tell its own terminal. *)
LEMMA OwnStep ==
    ASSUME ListInv, ClientInv, SwitchPoints = {}, NEW p \in Procs, client' = client
    PROVE  /\ InKernel(p) /\ ~Reading(p) => UNCHANGED <<received, dropped>>
           /\ GetNothing(p) => /\ Reading(p) /\ pc[p] = "get_scan" /\ pc'[p] = "user"
                                /\ Left(p) = {} /\ result'[p] = -1 /\ UNCHANGED <<received, dropped>>
           /\ GetFound(p) \/ GetSkip(p) =>
                 /\ Reading(p) /\ pc[p] = "get_scan" /\ pc'[p] \in {"get_scan", "get_copy"}
                 /\ Left(p)' = Left(p) /\ UNCHANGED <<received, dropped>>
           /\ GetCopy(p) =>
                 /\ Reading(p) /\ pc[p] = "get_copy" /\ pc'[p] = "get_unlink"
                 /\ Left(p)' = Left(p) /\ UNCHANGED <<msg, curr>>
                 /\ \/ /\ out'[p] = Line(msg[curr[p]])
                       /\ received' = received \cup {msg[curr[p]]} /\ UNCHANGED dropped
                    \/ /\ dropped' = dropped \cup {msg[curr[p]]} /\ UNCHANGED received
           /\ GetUnlink(p) =>
                 /\ Reading(p) /\ pc[p] = "get_unlink" /\ pc'[p] = "get_free"
                 /\ Left(p) \subseteq Left(p)' \cup {msg[curr[p]]} /\ UNCHANGED <<out, received, dropped>>
           /\ GetFree(p) \/ GetMoreSkip(p) =>
                 /\ Reading(p) /\ pc[p] \in {"get_free", "get_more"} /\ pc'[p] = "get_more"
                 /\ Left(p)' = Left(p) /\ UNCHANGED <<out, received, dropped>>
           /\ GetAnswer(p) =>
                 /\ Reading(p) /\ pc[p] = "get_more" /\ pc'[p] = "user"
                 /\ Left(p)' = Left(p) /\ UNCHANGED <<out, received, dropped>>
                 /\ \/ result'[p] = 0 /\ Left(p) = {}
                    \/ result'[p] = 1 /\ Left(p) # {}
<1>1. /\ pc \in [Procs -> Labels] /\ result \in [Procs -> {-1, 0, 1, None}]
      /\ DOMAIN out = Procs
      /\ CallRight(p) /\ client[p] \in {"shell", "send_message", "first_call", "next_call"}
  BY DEF ListInv, TypeOK, ClientInv
<1>2. pc[p] \notin {"user", "send_link", "send_publish"} => Reading(p) /\ user[p] = Owner[p]
  BY <1>1 DEF ClientInv, ClientRight, Reading
<1>3. InKernel(p) /\ ~Reading(p) => UNCHANGED <<received, dropped>>
  BY <1>2 DEF InKernel, SendLink, SendPublish, GetNothing, GetFound, GetSkip, GetCopy, GetUnlink,
              GetFree, GetMoreSkip, GetAnswer, Step, copies
<1>4. ASSUME GetNothing(p)
      PROVE  /\ Reading(p) /\ pc[p] = "get_scan" /\ pc'[p] = "user"
             /\ Left(p) = {} /\ result'[p] = -1 /\ UNCHANGED <<received, dropped>>
  <2>1. pc[p] = "get_scan" /\ pc'[p] = "user" /\ curr[p] = NULL
    BY <1>1, <1>4 DEF GetNothing, Step
  <2>2. Left(p) = {}
    BY <1>1, <1>2, <2>1, NothingLeft DEF CallRight, Scanning
  <2> QED
    BY <1>1, <1>2, <1>4, <2>1, <2>2 DEF GetNothing, Return, copies
<1>5. ASSUME GetFound(p) \/ GetSkip(p)
      PROVE  /\ Reading(p) /\ pc[p] = "get_scan" /\ pc'[p] \in {"get_scan", "get_copy"}
             /\ Left(p)' = Left(p) /\ UNCHANGED <<received, dropped>>
  BY <1>1, <1>2, <1>5 DEF GetFound, GetSkip, Step, Left, InQueue, fields, copies
<1>6. ASSUME GetCopy(p)
      PROVE  /\ Reading(p) /\ pc[p] = "get_copy" /\ pc'[p] = "get_unlink"
             /\ Left(p)' = Left(p) /\ UNCHANGED <<msg, curr>>
             /\ \/ /\ out'[p] = Line(msg[curr[p]])
                   /\ received' = received \cup {msg[curr[p]]} /\ UNCHANGED dropped
                \/ /\ dropped' = dropped \cup {msg[curr[p]]} /\ UNCHANGED received
  <2>1. /\ Reading(p) /\ pc[p] = "get_copy" /\ pc'[p] = "get_unlink"
        /\ Left(p)' = Left(p) /\ UNCHANGED <<msg, curr>>
    BY <1>1, <1>2, <1>6 DEF GetCopy, Step, Left, InQueue, fields
  <2>2. \/ /\ out'[p] = Line(msg[curr[p]])
           /\ received' = received \cup {msg[curr[p]]} /\ UNCHANGED dropped
        \/ /\ dropped' = dropped \cup {msg[curr[p]]} /\ UNCHANGED received
    BY <1>1, <1>6 DEF GetCopy, Line
  <2> QED
    BY <2>1, <2>2
<1>7. ASSUME GetUnlink(p)
      PROVE  /\ Reading(p) /\ pc[p] = "get_unlink" /\ pc'[p] = "get_free"
             /\ Left(p) \subseteq Left(p)' \cup {msg[curr[p]]} /\ UNCHANGED <<out, received, dropped>>
  <2>1. /\ Reading(p) /\ pc[p] = "get_unlink" /\ pc'[p] = "get_free"
        /\ UNCHANGED <<to, msg, out, received, dropped>>
    BY <1>1, <1>2, <1>7 DEF GetUnlink, Step, copies
  <2>2. InQueue' = InQueue \ {curr[p]}
    BY <1>7, UnlinkedSet
  <2> QED
    BY <2>1, <2>2 DEF Left
<1>8. ASSUME GetFree(p) \/ GetMoreSkip(p)
      PROVE  /\ Reading(p) /\ pc[p] \in {"get_free", "get_more"} /\ pc'[p] = "get_more"
             /\ Left(p)' = Left(p) /\ UNCHANGED <<out, received, dropped>>
  BY <1>1, <1>2, <1>8 DEF GetFree, GetMoreSkip, Step, Left, InQueue, fields, copies
<1>9. ASSUME GetAnswer(p)
      PROVE  /\ Reading(p) /\ pc[p] = "get_more" /\ pc'[p] = "user"
             /\ Left(p)' = Left(p) /\ UNCHANGED <<out, received, dropped>>
             /\ \/ result'[p] = 0 /\ Left(p) = {}
                \/ result'[p] = 1 /\ Left(p) # {}
  <2>1. /\ Reading(p) /\ pc[p] = "get_more" /\ pc'[p] = "user"
        /\ Left(p)' = Left(p) /\ UNCHANGED <<out, received, dropped>> /\ user[p] = Owner[p]
    BY <1>1, <1>2, <1>9 DEF GetAnswer, Step, Left, InQueue, fields, copies
  <2>2. PICK i \in 1 .. Len(queue) + 1 : curr[p] = At(i) /\ NoneBefore(p, i)
    BY <1>1, <2>1 DEF CallRight, Looking
  <2>3. result'[p] = IF curr[p] = NULL THEN 0 ELSE 1
    BY <1>1, <1>9 DEF GetAnswer, Return
  <2>4. CASE curr[p] = NULL
    BY <2>1, <2>2, <2>3, <2>4, NothingLeft
  <2>5. CASE curr[p] # NULL
    <3>1. to[curr[p]] = user[p]
      BY <1>9, <2>5 DEF GetAnswer
    <3>2. Left(p) # {}
      BY <2>1, <2>2, <2>5, <3>1, SomeLeft
    <3> QED
      BY <2>1, <2>3, <2>5, <3>2
  <2> QED
    BY <2>4, <2>5
<1> QED
  BY <1>3, <1>4, <1>5, <1>6, <1>7, <1>8, <1>9

LEMMA DueKernel ==
    ASSUME ListInv, ClientInv, DueInv, SwitchPoints = {}, OneTerminal, NEW p \in Procs, InKernel(p),
           UNCHANGED <<client, printed, due>>
    PROVE  DueInv'
<1>1. dropped \subseteq dropped'
  BY DEF InKernel, SendLink, SendPublish, GetNothing, GetFound, GetSkip, GetCopy, GetUnlink, GetFree,
         GetMoreSkip, GetAnswer, copies
<1>2. (\A q \in Procs : Reading(q)' <=> Reading(q)) /\ Shown' = Shown
  BY DEF Reading, Shown
<1>3. ASSUME NEW q \in Procs \ {p}
      PROVE  DueRight(q)'
  <2>1. /\ pc[q] = "user" /\ pc'[q] = "user" /\ result'[q] = result[q] /\ out'[q] = out[q]
        /\ Reading(q) => Left(q) \subseteq Left(q)'
    BY OthersKeep
  <2>2. Held(q)' = Held(q)
    BY <1>2, <2>1 DEF Held, Printing
  <2> QED
    BY <1>1, <1>2, <2>1, <2>2 DEF DueInv, DueRight
<1>4. DueRight(p)'
  <2>1. DueRight(p)
    BY DEF DueInv
  <2>2. CASE ~Reading(p)
    BY <1>1, <1>2, <2>1, <2>2 DEF DueRight
  <2>3. CASE GetNothing(p)
    <3>1. Held(p) = {} /\ Left(p) = {}
      BY <2>3, OwnStep DEF Held, Printing
    <3>2. due[p] \subseteq Shown \cup dropped
      BY <2>1, <3>1 DEF DueRight
    <3> QED
      BY <1>1, <1>2, <2>3, <3>2, OwnStep DEF DueRight
  <2>4. CASE GetFound(p) \/ GetSkip(p)
    <3>1. Held(p) = {}
      BY <2>4, OwnStep DEF Held, Printing
    <3> QED
      BY <1>1, <1>2, <2>1, <2>4, <3>1, OwnStep DEF DueRight
  <2>5. CASE GetCopy(p)
    <3>1. Held(p) = {}
      BY <1>2, <2>5, OwnStep DEF Held, Printing
    <3>2. out'[p] = Line(msg'[curr'[p]]) \/ msg'[curr'[p]] \in dropped'
      BY <2>5, OwnStep
    <3>3. /\ Reading(p) /\ Reading(p)' /\ pc[p] = "get_copy" /\ pc'[p] = "get_unlink"
          /\ Left(p)' = Left(p)
      BY <1>2, <2>5, OwnStep
    <3>4. due'[p] \subseteq Shown' \cup dropped' \cup Left(p)'
      BY <1>1, <1>2, <2>1, <3>1, <3>3 DEF DueRight
    <3> QED
      BY <3>2, <3>3, <3>4 DEF DueRight
  <2>6. CASE GetUnlink(p)
    <3>1. Held(p) = {m \in Msgs : out[p] = Line(m)} /\ Held(p)' = Held(p)
      BY <1>2, <2>6, OwnStep DEF Held, Printing
    <3>2. due[p] \subseteq Msgs
      BY DEF DueInv
    <3>3. out[p] = Line(msg[curr[p]]) \/ msg[curr[p]] \in dropped
      BY <2>1, <2>6, OwnStep DEF DueRight
    <3>4. due[p] \subseteq Shown \cup dropped \cup Held(p) \cup Left(p)'
      BY <2>1, <2>6, <3>1, <3>2, <3>3, OwnStep DEF DueRight
    <3> QED
      BY <1>1, <1>2, <2>6, <3>1, <3>4, OwnStep DEF DueRight
  <2>7. CASE GetFree(p) \/ GetMoreSkip(p)
    <3>1. Held(p)' = Held(p)
      BY <1>2, <2>7, OwnStep DEF Held, Printing
    <3> QED
      BY <1>1, <1>2, <2>1, <2>7, <3>1, OwnStep DEF DueRight
  <2>8. CASE GetAnswer(p)
    <3>1. Held(p)' = Held(p)
      BY <1>2, <2>8, OwnStep DEF Held, Printing
    <3> QED
      BY <1>1, <1>2, <2>1, <2>8, <3>1, OwnStep DEF DueRight
  <2>9. CASE SendLink(p) \/ SendPublish(p)
    <3>1. pc[p] \in {"send_link", "send_publish"}
      BY <2>9 DEF SendLink, SendPublish, Step
    <3>2. ~Reading(p)
      BY <3>1 DEF ClientInv, ClientRight
    <3> QED
      BY <2>2, <3>2
  <2> QED
    BY <2>3, <2>4, <2>5, <2>6, <2>7, <2>8, <2>9 DEF InKernel
<1> QED
  BY <1>3, <1>4 DEF DueInv

LEMMA DueOwn ==
    ASSUME ListInv, ClientInv, DueInv, SwitchPoints = {}, NEW p \in Procs,
           \/ (RunSend(p) \/ RunSendRejected(p) \/ ExitSend(p)) /\ UNCHANGED <<printed, due>>
           \/ RunReceive(p) /\ due' = [due EXCEPT ![p] = Left(p)] /\ UNCHANGED printed
           \/ NoMessages(p) /\ UNCHANGED <<printed, due>>
           \/ (PrintAndCall(p) \/ PrintLast(p)) /\ printed' = printed \cup {out[p]} /\ UNCHANGED due
    PROVE  DueInv'
<1>1. /\ UNCHANGED <<result, out, received, dropped>>
      /\ \A q \in Procs \ {p} : pc'[q] = pc[q] /\ client'[q] = client[q]
      /\ \A q \in Procs \ {p} : pc[q] = "get_unlink" => msg'[curr'[q]] = msg[curr[q]]
      /\ \A q \in Procs : Left(q)' = Left(q)
  BY ClientMoves DEF Receive
<1>2. due \in [Procs -> SUBSET Msgs] /\ \A q \in Procs : DueRight(q)
  BY DEF DueInv
<1>3. due' \in [Procs -> SUBSET Msgs]
  <2>1. Left(p) \subseteq Msgs
    BY DEF Left, InQueue, ListInv, QueueFilled
  <2> QED
    BY <1>2, <2>1
<1>4. ASSUME NEW q \in Procs \ {p}
      PROVE  DueRight(q)'
  <2>1. due'[q] = due[q] /\ Shown \subseteq Shown'
    BY <1>2 DEF Shown
  <2>2. (Reading(q)' <=> Reading(q)) /\ Held(q)' = Held(q) /\ Left(q)' = Left(q)
    BY <1>1 DEF Reading, Held, Printing
  <2> QED
    BY <1>1, <1>2, <2>1, <2>2 DEF DueRight
<1>5. DueRight(p)'
  <2>1. DueRight(p)
    BY <1>2
  <2>2. CASE (RunSend(p) \/ RunSendRejected(p) \/ ExitSend(p)) /\ UNCHANGED <<printed, due>>
    <3>1. ~Reading(p) /\ ~Reading(p)'
      BY <2>2, ClientGoes DEF Reading
    <3> QED
      BY <1>1, <2>1, <2>2, <3>1 DEF DueRight, Shown
  <2>3. CASE RunReceive(p) /\ due' = [due EXCEPT ![p] = Left(p)] /\ UNCHANGED printed
    <3>1. Reading(p)' /\ pc'[p] = "get_scan" /\ due'[p] = Left(p)'
      BY <1>1, <1>2, <2>3, ClientGoes DEF Reading
    <3> QED
      BY <3>1 DEF DueRight
  <2>4. CASE NoMessages(p) /\ UNCHANGED <<printed, due>>
    <3>1. Reading(p) /\ ~Reading(p)' /\ pc[p] = "user" /\ result[p] # 1
      BY <2>4, ClientGoes DEF Reading
    <3>2. Held(p) = {}
      BY <2>4, <3>1 DEF NoMessages, Held, Printing
    <3> QED
      BY <1>1, <2>1, <2>4, <3>1, <3>2 DEF DueRight, Shown
  <2>5. CASE PrintAndCall(p) /\ printed' = printed \cup {out[p]} /\ UNCHANGED due
    <3>1. Reading(p) /\ Reading(p)' /\ pc'[p] = "get_scan"
      BY <2>5, ClientGoes DEF Reading
    <3>2. Held(p) \cup Shown \subseteq Shown'
      BY <2>5 DEF Held, Shown
    <3>3. due[p] \subseteq Shown' \cup dropped' \cup Left(p)'
      BY <1>1, <2>1, <2>5, <3>1, <3>2 DEF DueRight
    <3> QED
      BY <2>5, <3>1, <3>3 DEF DueRight
  <2>6. CASE PrintLast(p) /\ printed' = printed \cup {out[p]} /\ UNCHANGED due
    <3>1. Reading(p) /\ ~Reading(p)' /\ pc[p] = "user" /\ result[p] # 1
      BY <2>6, ClientGoes DEF Reading
    <3>2. Held(p) \cup Shown \subseteq Shown'
      BY <2>6 DEF Held, Shown
    <3> QED
      BY <1>1, <2>1, <2>6, <3>1, <3>2 DEF DueRight
  <2> QED
    BY <2>2, <2>3, <2>4, <2>5, <2>6
<1> QED
  BY <1>3, <1>4, <1>5 DEF DueInv

LEMMA OnceKernel ==
    ASSUME ListInv, MsgInv, ClientInv, OnceInv, SwitchPoints = {}, OneTerminal,
           NEW p \in Procs, InKernel(p), UNCHANGED <<client, printed, reprinted>>
    PROVE  OnceInv'
<1>1. dropped \subseteq dropped' /\ received \subseteq received'
  BY DEF InKernel, SendLink, SendPublish, GetNothing, GetFound, GetSkip, GetCopy, GetUnlink, GetFree,
         GetMoreSkip, GetAnswer, copies
<1>2. \A q \in Procs : Reading(q)' <=> Reading(q)
  BY DEF Reading
<1>3. ASSUME NEW q \in Procs \ {p}
      PROVE  (Printing(q)' <=> Printing(q)) /\ out'[q] = out[q] /\ FindsMore(q)'
  <2>1. /\ pc[q] = "user" /\ pc'[q] = "user" /\ result'[q] = result[q] /\ out'[q] = out[q]
        /\ Reading(q) => Left(q) \subseteq Left(q)'
    BY OthersKeep
  <2>2. Printing(q)' <=> Printing(q)
    BY <1>2, <2>1 DEF Printing
  <2> QED
    BY <1>2, <2>1, <2>2 DEF OnceInv, FindsMore
<1>4. FindsMore(p)'
  <2>1. FindsMore(p)
    BY DEF OnceInv
  <2>2. CASE ~Reading(p)
    BY <1>2, <2>2 DEF FindsMore, Reading
  <2>3. CASE GetNothing(p)
    BY <2>1, <2>3, OwnStep DEF FindsMore
  <2>4. CASE GetFound(p) \/ GetSkip(p)
    BY <2>1, <2>4, OwnStep DEF FindsMore
  <2>5. CASE GetCopy(p) \/ GetUnlink(p) \/ GetFree(p) \/ GetMoreSkip(p)
    BY <2>5, OwnStep DEF FindsMore
  <2>6. CASE GetAnswer(p)
    BY <2>6, OwnStep DEF FindsMore
  <2>7. CASE SendLink(p) \/ SendPublish(p)
    <3>1. pc[p] \in {"send_link", "send_publish"}
      BY <2>7 DEF SendLink, SendPublish, Step
    <3>2. ~Reading(p)
      BY <3>1 DEF ClientInv, ClientRight
    <3> QED
      BY <2>2, <3>2
  <2> QED
    BY <2>3, <2>4, <2>5, <2>6, <2>7 DEF InKernel
<1>5. ASSUME dropped' = {}
      PROVE  /\ reprinted' = {} /\ printed' \subseteq Lines(received')
             /\ \A q \in Procs : Printing(q)' => out'[q] \in Lines(received') \ printed'
             /\ \A q, r \in Procs : Printing(q)' /\ Printing(r)' /\ out'[q] = out'[r] => q = r
  <2>1. /\ reprinted = {} /\ printed \subseteq Lines(received)
        /\ \A q \in Procs : Printing(q) => out[q] \in Lines(received) \ printed
        /\ \A q, r \in Procs : Printing(q) /\ Printing(r) /\ out[q] = out[r] => q = r
    BY <1>1, <1>5 DEF OnceInv, OnceRight
  <2>2. CASE Printing(p)' => Printing(p) /\ out'[p] = out[p]
    <3>1. Lines(received) \subseteq Lines(received')
      BY <1>1 DEF Lines
    <3> QED
      BY <1>3, <2>1, <2>2, <3>1
  <2>3. CASE GetCopy(p)
    <3>1. /\ out'[p] = Line(msg[curr[p]]) /\ received' = received \cup {msg[curr[p]]}
          /\ pc[p] = "get_copy"
      BY <1>5, <2>3, OwnStep
    <3>2. curr[p] \in InQueue
      BY <3>1, TakenOut
    <3>3. \A q \in Procs : pc[q] # "get_unlink"
      BY <3>1 DEF ListInv, OneCall, KernelLabels
    <3>4. msg[curr[p]] \notin received
      BY <3>1, <3>2, <3>3 DEF MsgInv, TakenIsGone
    <3>5. out'[p] \notin Lines(received)
      <4>1. \A m : Line(m).text = m
        BY DEF Line
      <4> QED
        BY <3>1, <3>4, <4>1 DEF Lines
    <3>6. Lines(received') = Lines(received) \cup {out'[p]}
      BY <3>1 DEF Lines
    <3> QED
      BY <1>3, <2>1, <3>5, <3>6
  <2>4. CASE ~GetCopy(p)
    <3>1. ASSUME Printing(p)'
          PROVE  Printing(p) /\ out'[p] = out[p]
      <4>1. CASE GetNothing(p)
        BY <3>1, <4>1, OwnStep DEF Printing
      <4>2. CASE GetFound(p) \/ GetSkip(p)
        BY <3>1, <4>2, OwnStep DEF Printing
      <4>3. CASE GetUnlink(p)
        BY <3>1, <4>3, OwnStep DEF Printing
      <4>4. CASE GetFree(p) \/ GetMoreSkip(p)
        BY <3>1, <4>4, OwnStep DEF Printing
      <4>5. CASE GetAnswer(p)
        BY <3>1, <4>5, OwnStep DEF Printing
      <4>6. CASE SendLink(p) \/ SendPublish(p)
        <5>1. pc[p] \in {"send_link", "send_publish"}
          BY <4>6 DEF SendLink, SendPublish, Step
        <5>2. ~Reading(p)'
          BY <1>2, <5>1 DEF ClientInv, ClientRight
        <5> QED
          BY <3>1, <5>2 DEF Printing
      <4> QED
        BY <2>4, <4>1, <4>2, <4>3, <4>4, <4>5, <4>6 DEF InKernel
    <3> QED
      BY <2>2, <3>1
  <2> QED
    BY <2>3, <2>4
<1> QED
  BY <1>3, <1>4, <1>5 DEF OnceInv, OnceRight

LEMMA OnceOwn ==
    ASSUME ListInv, ClientInv, OnceInv, SwitchPoints = {}, NEW p \in Procs,
           \/ /\ RunSend(p) \/ RunSendRejected(p) \/ ExitSend(p) \/ RunReceive(p) \/ NoMessages(p)
              /\ UNCHANGED <<printed, reprinted>>
           \/ /\ PrintAndCall(p) \/ PrintLast(p)
              /\ printed' = printed \cup {out[p]}
              /\ reprinted' = reprinted \cup (printed \cap {out[p]})
    PROVE  OnceInv'
<1>1. /\ UNCHANGED <<result, out, received, dropped>>
      /\ \A q \in Procs \ {p} : pc'[q] = pc[q] /\ client'[q] = client[q]
      /\ \A q \in Procs : Left(q)' = Left(q)
  BY ClientMoves DEF Receive
<1>2. \A q \in Procs \ {p} : (Printing(q)' <=> Printing(q)) /\ FindsMore(q)'
  BY <1>1 DEF Reading, Printing, OnceInv, FindsMore
<1>3. ~Printing(p)'
  BY ClientGoes DEF Printing, Reading
<1>4. FindsMore(p)'
  <2>1. CASE PrintAndCall(p)
    <3>1. /\ client'[p] = "next_call" /\ pc'[p] = "get_scan" /\ Reading(p)
          /\ pc[p] = "user" /\ result[p] = 1
      BY <2>1, ClientGoes
    <3>2. Left(p)' # {}
      BY <1>1, <3>1 DEF OnceInv, FindsMore
    <3> QED
      BY <3>1, <3>2 DEF FindsMore
  <2>2. CASE ~PrintAndCall(p)
    <3>1. client'[p] # "next_call" /\ (Reading(p)' => pc'[p] # "user")
      BY <2>2, ClientGoes DEF Reading
    <3> QED
      BY <3>1 DEF FindsMore
  <2> QED
    BY <2>1, <2>2
<1>5. ASSUME dropped' = {}
      PROVE  /\ reprinted' = {} /\ printed' \subseteq Lines(received')
             /\ \A q \in Procs : Printing(q)' => out'[q] \in Lines(received') \ printed'
             /\ \A q, r \in Procs : Printing(q)' /\ Printing(r)' /\ out'[q] = out'[r] => q = r
  <2>1. /\ reprinted = {} /\ printed \subseteq Lines(received)
        /\ \A q \in Procs : Printing(q) => out[q] \in Lines(received) \ printed
        /\ \A q, r \in Procs : Printing(q) /\ Printing(r) /\ out[q] = out[r] => q = r
    BY <1>1, <1>5 DEF OnceInv, OnceRight
  <2>2. CASE UNCHANGED <<printed, reprinted>>
    BY <1>1, <1>2, <1>3, <2>1, <2>2
  <2>3. CASE /\ PrintAndCall(p) \/ PrintLast(p)
             /\ printed' = printed \cup {out[p]}
             /\ reprinted' = reprinted \cup (printed \cap {out[p]})
    <3>1. Printing(p)
      <4>1. Reading(p) /\ pc[p] = "user"
        BY <2>3, ClientGoes
      <4>2. result[p] \in {0, 1}
        BY <2>3, <4>1 DEF PrintAndCall, PrintLast, OnceInv, FindsMore
      <4> QED
        BY <4>1, <4>2 DEF Printing
    <3>2. out[p] \in Lines(received) \ printed
      BY <2>1, <3>1
    <3>3. \A q \in Procs \ {p} : Printing(q) => out[q] # out[p]
      BY <2>1, <3>1
    <3> QED
      BY <1>1, <1>2, <1>3, <2>1, <2>3, <3>2, <3>3
  <2> QED
    BY <2>2, <2>3
<1> QED
  BY <1>2, <1>4, <1>5 DEF OnceInv, OnceRight

------------------------------------------------------------------------------
ReadInv == ClientInv /\ DueInv /\ OnceInv

LEMMA ReadInit == OsmsgInit => ReadInv
<1> SUFFICES ASSUME OsmsgInit PROVE ReadInv
  OBVIOUS
<1>1. /\ client = [p \in Procs |-> "shell"] /\ pc = [p \in Procs |-> "user"]
      /\ printed = {} /\ reprinted = {} /\ due = [p \in Procs |-> {}]
  BY DEF OsmsgInit, Init
<1>2. \A p \in Procs : ~Reading(p) /\ ~Printing(p)
  BY <1>1 DEF Reading, Printing
<1>3. ClientInv
  BY <1>1, <1>2 DEF ClientInv, ClientRight
<1>4. DueInv
  BY <1>1, <1>2 DEF DueInv, DueRight
<1>5. OnceInv
  BY <1>1, <1>2 DEF OnceInv, OnceRight, FindsMore
<1> QED
  BY <1>3, <1>4, <1>5 DEF ReadInv

LEMMA ReadStep ==
    SwitchPoints = {} /\ OneTerminal /\ ListInv /\ MsgInv /\ ReadInv /\ [OsmsgNext]_osmsgVars
        => ReadInv'
<1> SUFFICES ASSUME SwitchPoints = {}, OneTerminal, ListInv, MsgInv, ReadInv, [OsmsgNext]_osmsgVars
             PROVE  ReadInv'
  OBVIOUS
<1> USE DEF ReadInv
<1>1. CASE UNCHANGED osmsgVars
  <2>1. UNCHANGED <<client, pc, user, curr, msg, to, queue, result, out, received, dropped,
                    printed, reprinted, due>>
    BY <1>1 DEF osmsgVars, vars, fields, results, copies
  <2>2. \A p \in Procs : /\ Reading(p)' <=> Reading(p)
                         /\ Printing(p)' <=> Printing(p)
                         /\ Held(p)' = Held(p) /\ Left(p)' = Left(p)
    BY <2>1 DEF Reading, Printing, Held, Left, InQueue
  <2>3. ClientInv'
    BY <2>1, <2>2 DEF ClientInv, ClientRight
  <2>4. DueInv'
    BY <2>1, <2>2 DEF DueInv, DueRight, Shown
  <2>5. OnceInv'
    BY <2>1, <2>2 DEF OnceInv, OnceRight, FindsMore
  <2> QED
    BY <2>3, <2>4, <2>5
<1>2. ASSUME NEW p \in Procs, InKernel(p), UNCHANGED <<client, printed, reprinted, due>>
      PROVE  ReadInv'
  BY <1>2, ClientKernel, DueKernel, OnceKernel
<1>3. ASSUME NEW p \in Procs, RunSend(p) \/ RunSendRejected(p) \/ ExitSend(p) \/ NoMessages(p)
      PROVE  ReadInv'
  <2>1. UNCHANGED <<printed, reprinted, due>>
    BY <1>3 DEF RunSend, RunSendRejected, ExitSend, NoMessages
  <2> QED
    BY <1>3, <2>1, ClientOwn, DueOwn, OnceOwn DEF Receive
<1>4. ASSUME NEW p \in Procs, RunReceive(p)
      PROVE  ReadInv'
  <2>1. due' = [due EXCEPT ![p] = Left(p)] /\ UNCHANGED <<printed, reprinted>>
    BY <1>4, ReachableIsQueue DEF RunReceive, Left
  <2> QED
    BY <1>4, <2>1, ClientOwn, DueOwn, OnceOwn
<1>5. ASSUME NEW p \in Procs, PrintAndCall(p) \/ PrintLast(p)
      PROVE  ReadInv'
  <2>1. /\ printed' = printed \cup {out[p]} /\ UNCHANGED due
        /\ reprinted' = reprinted \cup (printed \cap {out[p]})
    BY <1>5 DEF PrintAndCall, PrintLast, Show
  <2> QED
    BY <1>5, <2>1, ClientOwn, DueOwn, OnceOwn DEF Receive
<1> QED
  BY <1>1, <1>2, <1>3, <1>4, <1>5 DEF OsmsgNext, Receive

(* receive_messages prints each message once, unless a failed copy left an *)
(* earlier one in the buffers, and all that it found when it began, if the *)
(* calls follow one another and each user reads in one terminal: with two, *)
(* the loop prints once more what it had (lines 20-37).                    *)
THEOREM PrintedOnce == SwitchPoints = {} /\ OneTerminal => (OsmsgSpec => []PrintsAllOnce)
<1> SUFFICES ASSUME SwitchPoints = {}, OneTerminal PROVE OsmsgSpec => []PrintsAllOnce
  OBVIOUS
<1>1. OsmsgInit => ReadInv
  BY ReadInit
<1>2. ListInv /\ MsgInv /\ ReadInv /\ [OsmsgNext]_osmsgVars => ReadInv'
  BY ReadStep
<1>3. Spec => [](ListInv /\ MsgInv)
  BY MsgAlways
<1>4. ReadInv => PrintsAllOnce
  BY DEF ReadInv, DueInv, DueRight, OnceInv, OnceRight, PrintsAllOnce, PrintsOnce, ReadsEverything,
         Reading, Shown
<1> QED
  BY <1>1, <1>2, <1>3, <1>4, ClientRefines, PTL DEF OsmsgSpec
------------------------------------------------------------------------------
(* The system calls implement the mailbox. *)

Entries == [to : Users, msg : Msgs]

(* What is left in the mailbox, before and after a step of p. *)
LEMMA RemainingIs ==
    ASSUME ListInv, SwitchPoints = {}, NEW p \in Procs, NEW a, NEW b \in Labels, Step(p, a, b)
    PROVE  /\ Remaining = IF a = "get_unlink" THEN Without(queue, curr[p]) ELSE queue
           /\ Remaining' = IF b = "get_unlink" THEN Without(queue', curr'[p]) ELSE queue'
<1>1. /\ \A q \in Procs \ {p} : pc[q] = "user" /\ pc'[q] = "user"
      /\ pc[p] = a /\ pc'[p] = b
  BY Alone
<1>2. Remaining = IF a = "get_unlink" THEN Without(queue, curr[p]) ELSE queue
  <2>1. CASE a = "get_unlink"
    <3>1. (CHOOSE q \in Procs : pc[q] = "get_unlink") = p
      BY <1>1, <2>1
    <3> QED
      BY <1>1, <2>1, <3>1 DEF Remaining
  <2>2. CASE a # "get_unlink"
    BY <1>1, <2>2 DEF Remaining
  <2> QED
    BY <2>1, <2>2
<1>3. Remaining' = IF b = "get_unlink" THEN Without(queue', curr'[p]) ELSE queue'
  <2>1. CASE b = "get_unlink"
    <3>1. (CHOOSE q \in Procs : pc'[q] = "get_unlink") = p
      BY <1>1, <2>1
    <3> QED
      BY <1>1, <2>1, <3>1 DEF Remaining
  <2>2. CASE b # "get_unlink"
    BY <1>1, <2>2 DEF Remaining
  <2> QED
    BY <2>1, <2>2
<1> QED
  BY <1>2, <1>3

(* All that is left is in the queue. *)
LEMMA RemainingInQueue ==
    ListInv => Remaining \in Seq(Nodes) /\ \A i \in DOMAIN Remaining : Remaining[i] \in InQueue
<1> SUFFICES ASSUME ListInv
             PROVE  Remaining \in Seq(Nodes) /\ \A i \in DOMAIN Remaining : Remaining[i] \in InQueue
  OBVIOUS
<1>1. CASE \E q \in Procs : pc[q] = "get_unlink"
  <2>1. PICK p \in Procs : pc[p] = "get_unlink" /\ Remaining = Without(queue, curr[p])
    BY <1>1 DEF Remaining
  <2>2. \A w : w = Without(queue, curr[p]) => {w[j] : j \in DOMAIN w} = InQueue \ {curr[p]}
    BY <2>1, TakenOut
  <2>3. {Remaining[j] : j \in DOMAIN Remaining} = InQueue \ {curr[p]}
    BY <2>1, <2>2
  <2> QED
    BY <2>1, <2>3, TakenPlace
<1>2. CASE ~\E q \in Procs : pc[q] = "get_unlink"
  BY <1>2 DEF Remaining, ListInv, TypeOK, InQueue
<1> QED
  BY <1>1, <1>2

LEMMA BoxShape ==
    ListInv =>
        /\ Box \in Seq(Entries) /\ Len(Box) = Len(Remaining)
        /\ DOMAIN Box = 1 .. Len(Remaining) /\ Len(Remaining) \in Nat
        /\ \A i \in 1 .. Len(Remaining) :
              Box[i] = [to |-> to[Remaining[i]], msg |-> msg[Remaining[i]]]
<1> SUFFICES ASSUME ListInv
             PROVE  /\ Box \in Seq(Entries) /\ Len(Box) = Len(Remaining)
                    /\ DOMAIN Box = 1 .. Len(Remaining) /\ Len(Remaining) \in Nat
                    /\ \A i \in 1 .. Len(Remaining) :
                          Box[i] = [to |-> to[Remaining[i]], msg |-> msg[Remaining[i]]]
  OBVIOUS
<1>1. /\ Remaining \in Seq(Nodes) /\ DOMAIN Remaining = 1 .. Len(Remaining) /\ Len(Remaining) \in Nat
      /\ \A i \in DOMAIN Remaining : Remaining[i] \in InQueue
  BY RemainingInQueue
<1>2. \A i \in DOMAIN Remaining : to[Remaining[i]] \in Users /\ msg[Remaining[i]] \in Msgs
  BY <1>1 DEF ListInv, QueueFilled, InQueue
<1>3. Box = [i \in 1 .. Len(Remaining) |-> [to |-> to[Remaining[i]], msg |-> msg[Remaining[i]]]]
  BY <1>1 DEF Box
<1>4. \A i \in 1 .. Len(Remaining) : [to |-> to[Remaining[i]], msg |-> msg[Remaining[i]]] \in Entries
  BY <1>1, <1>2 DEF Entries
<1> QED
  BY <1>1, <1>3, <1>4

Stutters == UNCHANGED <<Box, Answers, status, out>>

(* What the other processes have been answered stays. *)
LEMMA OthersAnswer ==
    ASSUME ListInv, SwitchPoints = {}, NEW p \in Procs, NEW a, NEW b \in Labels, Step(p, a, b),
           NEW q \in Procs \ {p}
    PROVE  Answer(q) = result[q] /\ Answer(q)' = result'[q]
<1>1. pc[q] = "user" /\ pc'[q] = "user"
  BY Alone
<1> QED
  BY <1>1 DEF Answer

LEMMA Silent ==
    ASSUME ListInv, SwitchPoints = {}, NEW p \in Procs, NEW a, NEW b \in Labels, Step(p, a, b),
           Remaining' = Remaining, \A n \in InQueue : to'[n] = to[n] /\ msg'[n] = msg[n],
           Answer(p)' = Answer(p), \A q \in Procs \ {p} : result'[q] = result[q],
           UNCHANGED <<status, out>>
    PROVE  Stutters
<1>1. Box' = Box
  BY RemainingInQueue DEF Box
<1>2. \A q \in Procs : Answer(q)' = Answer(q)
  BY OthersAnswer
<1>3. Answers' = Answers
  BY <1>2 DEF Answers
<1> QED
  BY <1>1, <1>3 DEF Stutters

LEMMA FillSilent ==
    ASSUME ListInv, SwitchPoints = {}, NEW p \in Procs, NEW u \in Users, NEW m \in Msgs,
           SendFill(p, u, m)
    PROVE  Stutters
<1>1. Step(p, "user", "send_link") /\ "send_link" \in Labels
  BY DEF SendFill, Labels, KernelLabels
<1>2. PICK n \in Nodes \ allocated : /\ to' = [to EXCEPT ![n] = u] /\ msg' = [msg EXCEPT ![n] = m]
                                     /\ UNCHANGED <<results, out, queue>>
  BY DEF SendFill
<1>3. \A o \in InQueue : msg'[o] = msg[o] /\ to'[o] = to[o]
  BY <1>2, QueueAllocated DEF ListInv, TypeOK
<1>4. Remaining' = Remaining
  BY <1>1, <1>2, RemainingIs
<1>5. Answer(p)' = Answer(p)
  BY <1>1, <1>2, Alone DEF Answer, results
<1> QED
  BY <1>1, <1>2, <1>3, <1>4, <1>5, Silent DEF results

(* Steps before the message is found or the list is changed. *)
LEMMA EarlySilent ==
    ASSUME ListInv, SwitchPoints = {}, NEW p \in Procs,
           SendLink(p) \/ (\E u \in Users : GetStart(p, u)) \/ GetFound(p) \/ GetSkip(p)
    PROVE  Stutters
<1>1. PICK a \in {"user", "send_link", "get_scan"}, b \in {"send_publish", "get_scan", "get_copy"} :
        Step(p, a, b)
  BY DEF SendLink, GetStart, GetFound, GetSkip
<1>2. UNCHANGED <<to, msg, queue, out, result, status>>
  BY DEF SendLink, GetStart, GetFound, GetSkip, fields, results
<1>3. b \in Labels
  BY <1>1 DEF Labels, KernelLabels
<1>4. Remaining' = Remaining
  BY <1>1, <1>2, <1>3, RemainingIs
<1>5. Answer(p)' = Answer(p)
  BY <1>1, <1>2, <1>3, Alone DEF Answer
<1> QED
  BY <1>1, <1>2, <1>3, <1>4, <1>5, Silent

(* Steps after the copy: the answer is settled. *)
LEMMA LateSilent ==
    ASSUME ListInv, SwitchPoints = {}, NEW p \in Procs, GetUnlink(p) \/ GetFree(p) \/ GetMoreSkip(p)
    PROVE  Stutters
<1>1. PICK a \in {"get_unlink", "get_free", "get_more"}, b \in {"get_free", "get_more"} :
        /\ Step(p, a, b) /\ UNCHANGED <<to, msg, out, result, status, user>>
        /\ a # "get_unlink" => queue' = queue
        /\ a = "get_unlink" => queue' = Without(queue, curr[p])
  <2>1. CASE GetUnlink(p)
    BY <2>1 DEF GetUnlink, results
  <2>2. CASE GetFree(p)
    BY <2>2 DEF GetFree, fields, results
  <2>3. CASE GetMoreSkip(p)
    BY <2>3 DEF GetMoreSkip, fields, results
  <2> QED
    BY <2>1, <2>2, <2>3
<1>2. b \in Labels
  BY <1>1 DEF Labels, KernelLabels
<1>3. Remaining' = Remaining
  BY <1>1, <1>2, RemainingIs
<1>4. Answer(p)' = Answer(p)
  BY <1>1, <1>2, <1>3, Alone DEF Answer
<1> QED
  BY <1>1, <1>2, <1>3, <1>4, Silent

(* The answer that the walk over the rest of the list finds is the one     *)
(* that was settled when the message was copied.                           *)
LEMMA AnswerSilent ==
    ASSUME ListInv, SwitchPoints = {}, NEW p \in Procs, GetAnswer(p)
    PROVE  Stutters
<1>1. Step(p, "get_more", "user") /\ "user" \in Labels
  BY DEF GetAnswer, Labels, KernelLabels
<1>2. /\ UNCHANGED <<to, msg, queue, out, status>>
      /\ result' = [result EXCEPT ![p] = IF curr[p] = NULL THEN 0 ELSE 1]
      /\ curr[p] # NULL => to[curr[p]] = user[p]
  BY DEF GetAnswer, Return, fields
<1>3. Remaining' = Remaining /\ Remaining = queue
  BY <1>1, <1>2, RemainingIs
<1>4. CallRight(p) /\ pc[p] = "get_more" /\ queue \in Seq(Nodes) /\ NULL \notin Nodes
  BY <1>1, MsgQueueAssumption DEF ListInv, TypeOK, Step
<1>5. PICK i \in 1 .. Len(queue) + 1 : curr[p] = At(i) /\ NoneBefore(p, i)
  BY <1>4 DEF CallRight, Looking
<1>6. Answer(p) = IF curr[p] = NULL THEN 0 ELSE 1
  <2>1. Answer(p) = IF \E j \in DOMAIN queue : to[queue[j]] = user[p] THEN 1 ELSE 0
    BY <1>3, <1>4 DEF Answer
  <2>2. CASE curr[p] = NULL
    <3>1. i = Len(queue) + 1
      BY <1>4, <1>5, <2>2 DEF At
    <3>2. \A j \in DOMAIN queue : to[queue[j]] # user[p]
      BY <1>4, <1>5, <3>1 DEF NoneBefore
    <3> QED
      BY <2>1, <2>2, <3>2
  <2>3. CASE curr[p] # NULL
    <3>1. i \in DOMAIN queue /\ to[queue[i]] = user[p]
      BY <1>2, <1>5, <2>3 DEF At
    <3> QED
      BY <2>1, <2>3, <3>1
  <2> QED
    BY <2>2, <2>3
<1>7. Answer(p)' = Answer(p)
  BY <1>1, <1>2, <1>6, Alone DEF Answer, ListInv, TypeOK
<1>8. \A q \in Procs \ {p} : result'[q] = result[q]
  BY <1>2 DEF ListInv, TypeOK
<1> QED
  BY <1>1, <1>2, <1>3, <1>7, <1>8, Silent

(* The steps the mailbox takes. *)
LEMMA PublishSends ==
    ASSUME ListInv, ListInv', SwitchPoints = {}, NEW p \in Procs, SendPublish(p)
    PROVE  Abstract!Send(p, to[curr[p]], msg[curr[p]]) /\ to[curr[p]] \in Users /\ msg[curr[p]] \in Msgs
<1>1. Step(p, "send_publish", "user") /\ "user" \in Labels
  BY DEF SendPublish, Labels, KernelLabels
<1>2. /\ UNCHANGED <<to, msg, out, result>> /\ status' = [status EXCEPT ![p] = 0]
      /\ queue' = <<curr[p]>> \o queue
  BY DEF SendPublish, SendReturn, fields
<1>3. Remaining = queue /\ Remaining' = queue'
  BY <1>1, RemainingIs
<1>4. /\ queue \in Seq(Nodes) /\ curr[p] \in Nodes
      /\ to[curr[p]] \in Users /\ msg[curr[p]] \in Msgs
  BY <1>1, Alone DEF ListInv, TypeOK, CallRight, Sending
<1> DEFINE e == [to |-> to[curr[p]], msg |-> msg[curr[p]]]
<1>5. e \in Entries
  BY <1>4 DEF Entries
<1>6. /\ Len(queue') = Len(queue) + 1 /\ queue'[1] = curr[p] /\ Len(queue) \in Nat
      /\ \A i \in 1 .. Len(queue) : queue'[i + 1] = queue[i]
  BY <1>2, <1>4
<1>7. /\ Box \in Seq(Entries) /\ Len(Box) = Len(queue)
      /\ \A i \in 1 .. Len(queue) : Box[i] = [to |-> to[queue[i]], msg |-> msg[queue[i]]]
  BY <1>3, BoxShape
<1>8. /\ Box' \in Seq(Entries) /\ Len(Box') = Len(queue')
      /\ \A i \in 1 .. Len(queue') : Box'[i] = [to |-> to[queue'[i]], msg |-> msg[queue'[i]]]
  <2>1. (ListInv =>
        /\ Box \in Seq(Entries) /\ Len(Box) = Len(Remaining)
        /\ DOMAIN Box = 1 .. Len(Remaining) /\ Len(Remaining) \in Nat
        /\ \A i \in 1 .. Len(Remaining) :
              Box[i] = [to |-> to[Remaining[i]], msg |-> msg[Remaining[i]]])'
    BY BoxShape, PTL
  <2> QED
    BY <1>2, <1>3, <2>1
<1>9. e = [to |-> to[curr[p]], msg |-> msg[curr[p]]]
  OBVIOUS
<1> HIDE DEF e
<1>10. /\ <<e>> \o Box \in Seq(Entries) /\ Len(<<e>> \o Box) = Len(queue) + 1
       /\ (<<e>> \o Box)[1] = e
       /\ \A i \in 2 .. Len(queue) + 1 : (<<e>> \o Box)[i] = Box[i - 1]
  <2>1. <<e>> \in Seq(Entries) /\ Len(<<e>>) = 1 /\ <<e>>[1] = e
    BY <1>5
  <2>2. /\ <<e>> \o Box \in Seq(Entries) /\ Len(<<e>> \o Box) = 1 + Len(queue)
        /\ \A i \in 1 .. 1 + Len(queue) :
              (<<e>> \o Box)[i] = IF i =< 1 THEN <<e>>[i] ELSE Box[i - 1]
    BY <1>7, <2>1, ConcatProperties
  <2> QED
    BY <1>6, <2>1, <2>2
<1>11. ASSUME NEW i \in 1 .. Len(Box')
       PROVE  Box'[i] = (<<e>> \o Box)[i]
  <2>1. i \in 1 .. Len(queue) + 1 /\ i \in 1 .. Len(queue')
    BY <1>6, <1>8
  <2>2. CASE i = 1
    BY <1>6, <1>8, <1>9, <1>10, <2>1, <2>2
  <2>3. CASE i # 1
    <3>1. i - 1 \in 1 .. Len(queue) /\ (i - 1) + 1 = i /\ i \in 2 .. Len(queue) + 1
      BY <1>6, <2>1, <2>3
    <3>2. queue'[i] = queue[i - 1]
      BY <1>6, <3>1
    <3> QED
      BY <1>7, <1>8, <1>10, <2>1, <3>1, <3>2
  <2> QED
    BY <2>2, <2>3
<1>12. Box' = <<e>> \o Box
  <2>1. Len(Box') = Len(<<e>> \o Box)
    BY <1>6, <1>8, <1>10
  <2> QED
    BY <1>8, <1>10, <1>11, <2>1, SeqEqual
<1>13. Answers' = Answers
  <2>1. Answer(p)' = Answer(p)
    BY <1>1, <1>2, Alone DEF Answer
  <2>2. \A q \in Procs : Answer(q)' = Answer(q)
    BY <1>1, <1>2, <2>1, OthersAnswer
  <2> QED
    BY <2>2 DEF Answers
<1> QED
  BY <1>2, <1>4, <1>9, <1>12, <1>13 DEF Abstract!Send

LEMMA RejectedFails ==
    ASSUME ListInv, SwitchPoints = {}, NEW p \in Procs, SendRejected(p)
    PROVE  Abstract!SendFails(p)
<1>1. Step(p, "user", "user") /\ "user" \in Labels
  BY DEF SendRejected, Labels, KernelLabels
<1>2. UNCHANGED <<to, msg, queue, out, result>> /\ status' = [status EXCEPT ![p] = -1]
  BY DEF SendRejected, SendReturn, fields
<1>3. Box' = Box
  BY <1>1, <1>2, RemainingIs DEF Box
<1>4. Answers' = Answers
  <2>1. Answer(p)' = Answer(p)
    BY <1>1, <1>2, Alone DEF Answer
  <2>2. \A q \in Procs : Answer(q)' = Answer(q)
    BY <1>1, <1>2, <2>1, OthersAnswer
  <2> QED
    BY <2>2 DEF Answers
<1> QED
  BY <1>2, <1>3, <1>4 DEF Abstract!SendFails

LEMMA NothingAnswers ==
    ASSUME ListInv, SwitchPoints = {}, NEW p \in Procs, GetNothing(p)
    PROVE  Abstract!NoMessage(p, user[p]) /\ user[p] \in Users
<1>1. Step(p, "get_scan", "user") /\ "user" \in Labels
  BY DEF GetNothing, Labels, KernelLabels
<1>2. /\ UNCHANGED <<to, msg, queue, out, status>> /\ curr[p] = NULL
      /\ result' = [result EXCEPT ![p] = -1]
  BY DEF GetNothing, Return, fields
<1>3. Remaining = queue /\ Remaining' = queue
  BY <1>1, <1>2, RemainingIs
<1>4. Box' = Box
  BY <1>2, <1>3 DEF Box
<1>5. CallRight(p) /\ pc[p] = "get_scan" /\ pc'[p] = "user" /\ queue \in Seq(Nodes) /\ NULL \notin Nodes
  BY <1>1, Alone, MsgQueueAssumption DEF ListInv, TypeOK
<1>6. PICK i \in 1 .. Len(queue) + 1 : curr[p] = At(i) /\ NoneBefore(p, i)
  BY <1>5 DEF CallRight, Scanning
<1>7. i = Len(queue) + 1
  BY <1>2, <1>5, <1>6 DEF At
<1>8. \A j \in DOMAIN queue : to[queue[j]] # user[p]
  BY <1>5, <1>6, <1>7 DEF NoneBefore
<1>9. Abstract!MessagesFor(user[p]) = {}
  <2>1. /\ DOMAIN Box = 1 .. Len(queue) /\ DOMAIN queue = 1 .. Len(queue)
        /\ \A j \in 1 .. Len(queue) : Box[j] = [to |-> to[queue[j]], msg |-> msg[queue[j]]]
    BY <1>3, <1>5, BoxShape
  <2> QED
    BY <1>8, <2>1 DEF Abstract!MessagesFor
<1>10. Answers' = [Answers EXCEPT ![p] = -1]
  <2>1. Answer(p)' = -1
    BY <1>2, <1>5 DEF Answer, ListInv, TypeOK
  <2>2. \A q \in Procs \ {p} : Answer(q)' = Answer(q)
    BY <1>1, <1>2, OthersAnswer DEF ListInv, TypeOK
  <2> QED
    BY <2>1, <2>2 DEF Answers
<1>11. user[p] \in Users
  BY <1>5 DEF CallRight, KernelLabels
<1> QED
  BY <1>2, <1>4, <1>9, <1>10, <1>11 DEF Abstract!NoMessage

LEMMA CopyTakes ==
    ASSUME ListInv, ListInv', SwitchPoints = {}, NEW p \in Procs, GetCopy(p)
    PROVE  /\ user[p] \in Users
           /\ \E i \in DOMAIN Box :
                 Abstract!Take(p, user[p], i) \/ Abstract!Lose(p, user[p], i)
<1>1. Step(p, "get_copy", "get_unlink") /\ "get_unlink" \in Labels
  BY DEF GetCopy, Labels, KernelLabels
<1>2. /\ UNCHANGED <<to, msg, queue, curr, user, result, status>>
      /\ \/ out' = [out EXCEPT ![p] = [text |-> msg[curr[p]], from |-> msg[curr[p]]]]
         \/ out' = [out EXCEPT ![p].text = msg[curr[p]]]
         \/ out' = out
  BY DEF GetCopy, fields, results
<1>3. pc[p] = "get_copy" /\ pc'[p] = "get_unlink"
  BY <1>1, Alone
<1>4. (ListInv =>
        /\ Box \in Seq(Entries) /\ Len(Box) = Len(Remaining)
        /\ DOMAIN Box = 1 .. Len(Remaining) /\ Len(Remaining) \in Nat
        /\ \A i \in 1 .. Len(Remaining) :
              Box[i] = [to |-> to[Remaining[i]], msg |-> msg[Remaining[i]]])'
  BY BoxShape, PTL
<1>5. PICK i \in DOMAIN queue :
             /\ curr[p] = queue[i] /\ to[queue[i]] = user[p] /\ NoneBefore(p, i)
             /\ Without(queue, curr[p]) \in Seq(Nodes)
             /\ Len(Without(queue, curr[p])) = Len(queue) - 1
             /\ \A j \in 1 .. Len(queue) - 1 :
                   Without(queue, curr[p])[j] = IF j < i THEN queue[j] ELSE queue[j + 1]
  BY <1>3, TakenPlace
<1>6. queue \in Seq(Nodes)
  BY DEF ListInv, TypeOK
<1>7. Len(queue) \in Nat /\ DOMAIN queue = 1 .. Len(queue) /\ i \in 1 .. Len(queue)
  BY <1>6
<1>8. user[p] \in Users
  <2>1. CallRight(p)
    BY DEF ListInv
  <2> QED
    BY <1>3, <2>1 DEF CallRight, KernelLabels
<1> DEFINE rest == Without(queue, curr[p])
<1>9. /\ DOMAIN rest = 1 .. Len(queue) - 1 /\ Len(rest) = Len(queue) - 1
      /\ \A j \in 1 .. Len(queue) - 1 : rest[j] = IF j < i THEN queue[j] ELSE queue[j + 1]
  BY <1>5
<1>10. Remaining = queue /\ Remaining' = rest
  BY <1>1, <1>2, RemainingIs
<1> HIDE DEF rest
<1>11. /\ Box \in Seq(Entries) /\ Len(Box) = Len(queue) /\ DOMAIN Box = 1 .. Len(queue)
       /\ \A j \in 1 .. Len(queue) : Box[j] = [to |-> to[queue[j]], msg |-> msg[queue[j]]]
  BY <1>10, BoxShape
<1>12. /\ Box' \in Seq(Entries) /\ Len(Box') = Len(queue) - 1
       /\ \A j \in 1 .. Len(queue) - 1 : Box'[j] = [to |-> to[rest[j]], msg |-> msg[rest[j]]]
  BY <1>2, <1>4, <1>9, <1>10
<1> DEFINE c == SubSeq(Box, 1, i - 1) \o SubSeq(Box, i + 1, Len(Box))
<1>13. /\ c \in Seq(Entries) /\ Len(c) = Len(queue) - 1
       /\ \A j \in 1 .. Len(queue) - 1 : c[j] = IF j < i THEN Box[j] ELSE Box[j + 1]
  <2>1. Box \in Seq(Entries) /\ i \in DOMAIN Box /\ Len(Box) = Len(queue)
    BY <1>7, <1>11
  <2>2. /\ c \in Seq(Entries) /\ Len(c) = Len(Box) - 1
        /\ \A j \in 1 .. Len(Box) - 1 : c[j] = IF j < i THEN Box[j] ELSE Box[j + 1]
    BY <2>1, CutOut
  <2> HIDE DEF c
  <2> QED
    BY <2>1, <2>2
<1>14. c = SubSeq(Box, 1, i - 1) \o SubSeq(Box, i + 1, Len(Box))
  OBVIOUS
<1> HIDE DEF c
<1>15. Box' = c
  <2>1. ASSUME NEW j \in 1 .. Len(Box')
        PROVE  Box'[j] = c[j]
    <3>1. /\ j \in 1 .. Len(queue) - 1 /\ j \in 1 .. Len(queue)
          /\ j + 1 \in 1 .. Len(queue)
      BY <1>7, <1>12
    <3>2. Box'[j] = [to |-> to[rest[j]], msg |-> msg[rest[j]]]
      BY <1>12, <3>1
    <3>3. CASE j < i
      <4>1. rest[j] = queue[j] /\ c[j] = Box[j]
        BY <1>9, <1>13, <3>1, <3>3
      <4> QED
        BY <1>11, <3>1, <3>2, <4>1
    <3>4. CASE ~(j < i)
      <4>1. rest[j] = queue[j + 1] /\ c[j] = Box[j + 1]
        BY <1>9, <1>13, <3>1, <3>4
      <4> QED
        BY <1>11, <3>1, <3>2, <4>1
    <3> QED
      BY <3>3, <3>4
  <2> QED
    BY <1>12, <1>13, <2>1, SeqEqual
<1> DEFINE mine == Abstract!MessagesFor(user[p])
<1>16. \A j : j \in mine <=> (j \in 1 .. Len(queue) /\ to[queue[j]] = user[p])
  BY <1>11 DEF Abstract!MessagesFor
<1>17. mine = Abstract!MessagesFor(user[p])
  OBVIOUS
<1> HIDE DEF mine
<1>18. i \in mine
  BY <1>5, <1>7, <1>16
<1>19. ASSUME NEW j \in mine
       PROVE  i =< j
  <2>1. j \in 1 .. Len(queue) /\ to[queue[j]] = user[p]
    BY <1>16
  <2>2. ~(j < i)
    BY <1>5, <1>7, <2>1 DEF NoneBefore
  <2> QED
    BY <1>7, <2>1, <2>2
<1>20. (\E j \in DOMAIN rest : to[rest[j]] = user[p]) <=> mine # {i}
  <2>1. ASSUME NEW j \in DOMAIN rest, to[rest[j]] = user[p]
        PROVE  mine # {i}
    <3>1. j \in 1 .. Len(queue) - 1
      BY <1>9
    <3>2. CASE j < i
      <4>1. j \in 1 .. Len(queue) /\ to[queue[j]] = user[p] /\ j # i
        BY <1>7, <1>9, <2>1, <3>1, <3>2
      <4> QED
        BY <1>16, <4>1
    <3>3. CASE ~(j < i)
      <4>1. j + 1 \in 1 .. Len(queue) /\ to[queue[j + 1]] = user[p] /\ j + 1 # i
        BY <1>7, <1>9, <2>1, <3>1, <3>3
      <4> QED
        BY <1>16, <4>1
    <3> QED
      BY <3>2, <3>3
  <2>2. ASSUME mine # {i}
        PROVE  \E j \in DOMAIN rest : to[rest[j]] = user[p]
    <3>1. PICK k \in mine : k # i
      BY <1>18, <2>2
    <3>2. k \in 1 .. Len(queue) /\ to[queue[k]] = user[p] /\ i =< k
      BY <1>16, <1>19, <3>1
    <3>3. k - 1 \in 1 .. Len(queue) - 1 /\ ~(k - 1 < i) /\ (k - 1) + 1 = k
      BY <1>7, <3>1, <3>2
    <3>4. rest[k - 1] = queue[k]
      BY <1>9, <3>3
    <3> QED
      BY <1>9, <3>2, <3>3, <3>4
  <2> QED
    BY <2>1, <2>2
<1>21. Answers' = [Answers EXCEPT ![p] = IF mine = {i} THEN 0 ELSE 1]
  <2>1. Answer(p)' = IF mine = {i} THEN 0 ELSE 1
    BY <1>2, <1>3, <1>10, <1>20 DEF Answer
  <2>2. \A q \in Procs \ {p} : Answer(q)' = Answer(q)
    BY <1>1, <1>2, OthersAnswer
  <2> QED
    BY <2>1, <2>2 DEF Answers
<1>22. Box[i].msg = msg[curr[p]]
  <2>1. Box[i] = [to |-> to[queue[i]], msg |-> msg[queue[i]]]
    BY <1>7, <1>11
  <2> QED
    BY <1>5, <2>1
<1>23. Abstract!Remove(p, user[p], i)
  BY <1>2, <1>14, <1>15, <1>17, <1>18, <1>19, <1>21 DEF Abstract!Remove
<1>24. Abstract!Take(p, user[p], i) \/ Abstract!Lose(p, user[p], i)
  BY <1>2, <1>22, <1>23 DEF Abstract!Take, Abstract!Lose
<1> QED
  BY <1>7, <1>8, <1>11, <1>24

LEMMA MailboxInit == Init => Abstract!Init
<1> SUFFICES ASSUME Init PROVE Abstract!Init
  OBVIOUS
<1>1. queue = <<>> /\ \A p \in Procs : pc[p] = "user" /\ result[p] = None
  BY DEF Init
<1>2. Remaining = <<>>
  BY <1>1 DEF Remaining
<1>3. Box = <<>>
  BY <1>2 DEF Box
<1>4. Answers = [p \in Procs |-> None]
  BY <1>1 DEF Answers, Answer
<1> QED
  BY <1>3, <1>4 DEF Init, Abstract!Init

LEMMA MailboxStep ==
    SwitchPoints = {} /\ ListInv /\ ListInv' /\ [Next]_vars => [Abstract!Next]_(Abstract!vars)
<1> SUFFICES ASSUME SwitchPoints = {}, ListInv, ListInv', [Next]_vars
             PROVE  Abstract!Next \/ Stutters
  BY DEF Abstract!vars, Stutters
<1>1. CASE UNCHANGED vars
  BY <1>1 DEF vars, fields, results, Stutters, Box, Answers, Answer, Remaining
<1>2. ASSUME NEW p \in Procs, NEW u \in Users, NEW m \in Msgs, SendFill(p, u, m)
      PROVE  Stutters
  BY <1>2, FillSilent
<1>3. ASSUME NEW p \in Procs, SendRejected(p)
      PROVE  Abstract!Next
  <2>1. Owner[p] \in Users
    BY OsmsgAssumption
  <2> QED
    BY <1>3, <2>1, RejectedFails DEF Abstract!Next
<1>4. ASSUME NEW p \in Procs, NEW u \in Users, GetStart(p, u)
      PROVE  Stutters
  BY <1>4, EarlySilent
<1>5. ASSUME NEW p \in Procs, InKernel(p)
      PROVE  Abstract!Next \/ Stutters
  <2>1. CASE SendLink(p) \/ GetFound(p) \/ GetSkip(p)
    BY <2>1, EarlySilent
  <2>2. CASE GetUnlink(p) \/ GetFree(p) \/ GetMoreSkip(p)
    BY <2>2, LateSilent
  <2>3. CASE GetAnswer(p)
    BY <2>3, AnswerSilent
  <2>4. CASE SendPublish(p)
    BY <2>4, PublishSends DEF Abstract!Next
  <2>5. CASE GetNothing(p)
    BY <2>5, NothingAnswers DEF Abstract!Next
  <2>6. CASE GetCopy(p)
    BY <2>6, CopyTakes DEF Abstract!Next
  <2> QED
    BY <1>5, <2>1, <2>2, <2>3, <2>4, <2>5, <2>6 DEF InKernel
<1> QED
  BY <1>1, <1>2, <1>3, <1>4, <1>5 DEF Next

(* The calls, one after the other, implement the mailbox: newest first,    *)
(* each message to the user it is for and to one caller only, and 1, 0 or  *)
(* -1 as the comment says that documents them (lines 190-193), though the  *)
(* answer is found by a walk after the object is freed (lines 228-259).    *)
(* Lose is all they do besides: a message whose copy failed.               *)
THEOREM KeepsMailbox == SwitchPoints = {} => (OsmsgSpec => ImplementsMailbox)
<1> SUFFICES ASSUME SwitchPoints = {} PROVE OsmsgSpec => ImplementsMailbox
  OBVIOUS
<1>1. Init => Abstract!Init
  BY MailboxInit
<1>2. ListInv /\ ListInv' /\ [Next]_vars => [Abstract!Next]_(Abstract!vars)
  BY MailboxStep
<1>3. Spec => []ListInv
  BY ListAlways
<1> QED
  BY <1>1, <1>2, <1>3, ClientRefines, PTL DEF Spec, ImplementsMailbox, Abstract!Spec
==============================================================================
