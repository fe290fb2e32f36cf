------------------------------- MODULE MsgQueue -------------------------------
(***************************************************************************)
(* The message system calls of project2/sys.c, cs1550_send_msg and         *)
(* cs1550_get_msg, over a global linked list that no lock protects.  Each  *)
(* access to the list is a step.  SwitchPoints says where another process  *)
(* may run while one is inside a call: nowhere, if the calls follow one    *)
(* another; in copy_to_user, which may sleep; or anywhere, on a kernel     *)
(* that is preempted or runs on several processors.                        *)
(***************************************************************************)
EXTENDS Integers, Sequences, FiniteSets

CONSTANTS
    Procs,         \* the processes that make the calls
    Users,         \* the names messages are addressed to
    Msgs,          \* the messages with their senders; bound: each is sent once
    Nodes,         \* the message objects kmalloc can return
    NULL,          \* the null pointer
    None,          \* no message, no result
    SwitchPoints,  \* the labels inside a call at which another process may run
    AllocFails,    \* whether kmalloc may return NULL
    CopyFails      \* whether copy_to_user may fail

KernelLabels == {"send_link", "send_publish", "get_scan", "get_copy", "get_unlink",
                 "get_free", "get_more"}
Labels == KernelLabels \cup {"user"}

ASSUME MsgQueueAssumption ==
    /\ IsFiniteSet(Nodes) /\ NULL \notin Nodes
    /\ None \notin Msgs \cup Users \cup Int
    /\ SwitchPoints \subseteq KernelLabels
    /\ AllocFails \in BOOLEAN
    /\ CopyFails \in BOOLEAN

VARIABLES
    head,
    to, msg, next,  \* the fields of the message objects
    allocated,      \* the objects kmalloc has returned and kfree has not taken
    pc,
    user,           \* the recipient a call was given
    curr, prev,     \* the locals of cs1550_get_msg; curr is new_message in cs1550_send_msg
    out,            \* the caller's buffers msg and from: the messages they are of
    result,         \* what the last cs1550_get_msg returned
    status,         \* what the last cs1550_send_msg returned
    queue,          \* history: the objects published and not unlinked, newest first
    sent,           \* history: the messages whose cs1550_send_msg returned success
    received,       \* history: the messages copied to a caller, text and sender
    dropped         \* history: the messages of which a copy failed

fields == <<to, msg, next>>
results == <<result, status>>
copies == <<received, dropped>>
vars == <<head, fields, allocated, pc, user, curr, prev, out, results, queue, sent, copies>>

Init ==
    /\ head = NULL
    /\ to = [n \in Nodes |-> None]
    /\ msg = [n \in Nodes |-> None]
    /\ next = [n \in Nodes |-> NULL]
    /\ allocated = {}
    /\ pc = [p \in Procs |-> "user"]
    /\ user = [p \in Procs |-> None]
    /\ curr = [p \in Procs |-> NULL]
    /\ prev = [p \in Procs |-> NULL]
    /\ out = [p \in Procs |-> [text |-> None, from |-> None]]
    /\ result = [p \in Procs |-> None]
    /\ status = [p \in Procs |-> None]
    /\ queue = <<>>
    /\ sent = {}
    /\ received = {}
    /\ dropped = {}

(* Process p runs from one label to the next while no other process is in  *)
(* the middle of a call.                                                   *)
Step(p, from, dest) ==
    /\ pc[p] = from
    /\ \A q \in Procs \ {p} : pc[q] \in {"user"} \cup SwitchPoints
    /\ pc' = [pc EXCEPT ![p] = dest]

(* The call of p is over, and its locals with it. *)
EndCall(p) ==
    /\ user' = [user EXCEPT ![p] = None]
    /\ curr' = [curr EXCEPT ![p] = NULL]
    /\ prev' = [prev EXCEPT ![p] = NULL]

SendReturn(p, value) ==
    /\ status' = [status EXCEPT ![p] = value]
    /\ EndCall(p)
    /\ UNCHANGED result

Return(p, value) ==
    /\ result' = [result EXCEPT ![p] = value]
    /\ EndCall(p)
    /\ UNCHANGED status

------------------------------------------------------------------------------
(* cs1550_send_msg *)

InUse == sent \cup {msg[n] : n \in allocated}

(* Allocate the object and fill in everything but the link. *)
SendFill(p, u, m) ==
    /\ Step(p, "user", "send_link")
    /\ m \in Msgs \ InUse
    /\ \E n \in Nodes \ allocated :
          /\ allocated' = allocated \cup {n}
          /\ to' = [to EXCEPT ![n] = u]
          /\ msg' = [msg EXCEPT ![n] = m]
          /\ curr' = [curr EXCEPT ![p] = n]
    /\ UNCHANGED <<head, next, user, prev, out, results, queue, sent, copies>>

(* kmalloc fails, or an argument is NULL and the object is freed again. *)
SendRejected(p) ==
    /\ AllocFails
    /\ Step(p, "user", "user")
    /\ SendReturn(p, -1)
    /\ UNCHANGED <<head, fields, allocated, out, queue, sent, copies>>

(* new_message->next = head *)
SendLink(p) ==
    /\ Step(p, "send_link", "send_publish")
    /\ next' = [next EXCEPT ![curr[p]] = head]
    /\ UNCHANGED <<head, to, msg, allocated, user, curr, prev, out, results, queue, sent, copies>>

(* Mutant: the new message is linked behind the head. *)
SendPublishSecond(p) ==
    /\ Step(p, "send_publish", "user")
    /\ IF head = NULL
       THEN head' = curr[p] /\ UNCHANGED next
       ELSE next' = [next EXCEPT ![head] = curr[p], ![curr[p]] = next[head]] /\ UNCHANGED head
    /\ queue' = <<curr[p]>> \o queue
    /\ sent' = sent \cup {msg[curr[p]]}
    /\ SendReturn(p, 0)
    /\ UNCHANGED <<to, msg, allocated, out, copies>>

(* head = new_message *)
SendPublish(p) ==
    /\ Step(p, "send_publish", "user")
    /\ head' = curr[p]
    /\ queue' = <<curr[p]>> \o queue
    /\ sent' = sent \cup {msg[curr[p]]}
    /\ SendReturn(p, 0)
    /\ UNCHANGED <<fields, allocated, out, copies>>

------------------------------------------------------------------------------
(* cs1550_get_msg *)

GetStart(p, u) ==
    /\ Step(p, "user", "get_scan")
    /\ user' = [user EXCEPT ![p] = u]
    /\ curr' = [curr EXCEPT ![p] = head]
    /\ prev' = [prev EXCEPT ![p] = NULL]
    /\ UNCHANGED <<head, fields, allocated, out, results, queue, sent, copies>>

(* One turn of the outer loop: nothing found, a match, or the next node. *)
GetNothing(p) ==
    /\ curr[p] = NULL
    /\ Step(p, "get_scan", "user")
    /\ Return(p, -1)
    /\ UNCHANGED <<head, fields, allocated, out, queue, sent, copies>>

GetFound(p) ==
    /\ curr[p] # NULL /\ to[curr[p]] = user[p]
    /\ Step(p, "get_scan", "get_copy")
    /\ UNCHANGED <<head, fields, allocated, user, curr, prev, out, results, queue, sent, copies>>

GetSkip(p) ==
    /\ curr[p] # NULL /\ to[curr[p]] # user[p]
    /\ Step(p, "get_scan", "get_scan")
    /\ prev' = [prev EXCEPT ![p] = curr[p]]
    /\ curr' = [curr EXCEPT ![p] = next[curr[p]]]
    /\ UNCHANGED <<head, fields, allocated, user, out, results, queue, sent, copies>>

(* copy_to_user to msg and, if that succeeds, to from.  A failure of       *)
(* either is logged and nothing else.                                      *)
GetCopy(p) ==
    /\ Step(p, "get_copy", "get_unlink")
    /\ \/ /\ out' = [out EXCEPT ![p] = [text |-> msg[curr[p]], from |-> msg[curr[p]]]]
          /\ received' = received \cup {msg[curr[p]]}
          /\ UNCHANGED dropped
       \/ /\ CopyFails
          /\ \/ UNCHANGED out
             \/ out' = [out EXCEPT ![p].text = msg[curr[p]]]
          /\ dropped' = dropped \cup {msg[curr[p]]}
          /\ UNCHANGED received
    /\ UNCHANGED <<head, fields, allocated, user, curr, prev, results, queue, sent>>

Without(s, e) ==
    IF \E i \in DOMAIN s : s[i] = e
    THEN LET i == CHOOSE j \in DOMAIN s : s[j] = e
         IN  SubSeq(s, 1, i - 1) \o SubSeq(s, i + 1, Len(s))
    ELSE s

(* Take the node out of the list. *)
GetUnlink(p) ==
    /\ Step(p, "get_unlink", "get_free")
    /\ \/ prev[p] = NULL /\ head' = next[curr[p]] /\ UNCHANGED next
       \/ prev[p] # NULL /\ next' = [next EXCEPT ![prev[p]] = next[curr[p]]] /\ UNCHANGED head
    /\ queue' = Without(queue, curr[p])
    /\ UNCHANGED <<to, msg, allocated, user, curr, prev, out, results, sent, copies>>

(* kfree(curr) and on to the node behind it. *)
GetFree(p) ==
    /\ Step(p, "get_free", "get_more")
    /\ allocated' = allocated \ {curr[p]}
    /\ curr' = [curr EXCEPT ![p] = next[@]]
    /\ UNCHANGED <<head, fields, user, prev, out, results, queue, sent, copies>>

(* One turn of the inner loop, or its end. *)
GetMoreSkip(p) ==
    /\ curr[p] # NULL /\ to[curr[p]] # user[p]
    /\ Step(p, "get_more", "get_more")
    /\ curr' = [curr EXCEPT ![p] = next[@]]
    /\ UNCHANGED <<head, fields, allocated, user, prev, out, results, queue, sent, copies>>

(* Mutant: only the next node is looked at. *)
GetAnswerNextOnly(p) ==
    /\ Step(p, "get_more", "user")
    /\ Return(p, IF curr[p] # NULL /\ to[curr[p]] = user[p] THEN 1 ELSE 0)
    /\ UNCHANGED <<head, fields, allocated, out, queue, sent, copies>>

(* Mutant: the call says 1 whenever a node is left, whoever it is for. *)
GetAnswerAnyone(p) ==
    /\ curr[p] # NULL => to[curr[p]] = user[p]
    /\ Step(p, "get_more", "user")
    /\ Return(p, IF head = NULL THEN 0 ELSE 1)
    /\ UNCHANGED <<head, fields, allocated, out, queue, sent, copies>>

GetAnswer(p) ==
    /\ curr[p] # NULL => to[curr[p]] = user[p]
    /\ Step(p, "get_more", "user")
    /\ Return(p, IF curr[p] = NULL THEN 0 ELSE 1)
    /\ UNCHANGED <<head, fields, allocated, out, queue, sent, copies>>

(* The steps inside the calls. *)
InKernel(p) ==
    \/ SendLink(p) \/ SendPublish(p)
    \/ GetNothing(p) \/ GetFound(p) \/ GetSkip(p) \/ GetCopy(p) \/ GetUnlink(p)
    \/ GetFree(p) \/ GetMoreSkip(p) \/ GetAnswer(p)

Next ==
    \E p \in Procs :
        \/ \E u \in Users, m \in Msgs : SendFill(p, u, m)
        \/ SendRejected(p)
        \/ \E u \in Users : GetStart(p, u)
        \/ InKernel(p)

Spec == Init /\ [][Next]_vars
------------------------------------------------------------------------------
(* Every variable stays in its range. *)
TypeOK ==
    /\ head \in Nodes \cup {NULL}
    /\ to \in [Nodes -> Users \cup {None}]
    /\ msg \in [Nodes -> Msgs \cup {None}]
    /\ next \in [Nodes -> Nodes \cup {NULL}]
    /\ allocated \in SUBSET Nodes
    /\ pc \in [Procs -> Labels]
    /\ user \in [Procs -> Users \cup {None}]
    /\ curr \in [Procs -> Nodes \cup {NULL}]
    /\ prev \in [Procs -> Nodes \cup {NULL}]
    /\ out \in [Procs -> [text : Msgs \cup {None}, from : Msgs \cup {None}]]
    /\ result \in [Procs -> {-1, 0, 1, None}]
    /\ status \in [Procs -> {-1, 0, None}]
    /\ queue \in Seq(Nodes)
    /\ sent \in SUBSET Msgs
    /\ received \in SUBSET Msgs
    /\ dropped \in SUBSET Msgs

(* While the calls follow one another the pointers describe the queue:     *)
(* next leads from head through the messages published and not taken,      *)
(* newest first, each once, and what kmalloc gave out is in the list or in *)
(* the hands of the call in progress: nothing leaks and nothing in the     *)
(* list is free (lines 177-178 and 221-234).                               *)
ListMatchesQueue ==
    /\ head = IF queue = <<>> THEN NULL ELSE queue[1]
    /\ \A i \in DOMAIN queue :
          next[queue[i]] = IF i = Len(queue) THEN NULL ELSE queue[i + 1]
    /\ \A i, j \in DOMAIN queue : queue[i] = queue[j] => i = j
    /\ allocated = {queue[i] : i \in DOMAIN queue}
                     \cup {curr[p] : p \in {q \in Procs : pc[q] \in
                                 {"send_link", "send_publish", "get_free"}}}

(* The objects that next leads to from head. *)
Reachable ==
    LET walk[i \in 0 .. Cardinality(Nodes)] ==
            IF i = 0 THEN head
            ELSE IF walk[i - 1] = NULL THEN NULL ELSE next[walk[i - 1]]
    IN  {walk[i] : i \in 0 .. Cardinality(Nodes)} \ {NULL}

(* No message is lost on the way: once cs1550_send_msg has returned "0 for *)
(* success" (lines 159-160) the message is in the list, some caller of     *)
(* cs1550_get_msg has it, or it was the one of which that call could not   *)
(* copy the text or the sender (lines 208-211), which is taken out of the  *)
(* list like the others.                                                   *)
SentIsKept == sent \subseteq {msg[n] : n \in Reachable} \cup received \cup dropped

(***************************************************************************)
(* The calls, one after the other, implement the mailbox.  A message       *)
(* leaves the mailbox when it has been copied to the caller, or could not  *)
(* be, and from then on the answer of the call is determined.              *)
(***************************************************************************)
Remaining ==
    IF \E p \in Procs : pc[p] = "get_unlink"
    THEN Without(queue, curr[CHOOSE p \in Procs : pc[p] = "get_unlink"])
    ELSE queue

Answer(p) ==
    IF pc[p] \in {"get_unlink", "get_free", "get_more"}
    THEN IF \E i \in DOMAIN Remaining : to[Remaining[i]] = user[p] THEN 1 ELSE 0
    ELSE result[p]

Box == [i \in DOMAIN Remaining |-> [to |-> to[Remaining[i]], msg |-> msg[Remaining[i]]]]

Answers == [p \in Procs |-> Answer(p)]

Abstract == INSTANCE Mailbox WITH box <- Box, result <- Answers

(* Newest first, each message to the user it is for, to one caller only,   *)
(* and 1, 0 or -1 as the comment at lines 190-193 says for the messages    *)
(* that were copied.  For one that was not, the comment wants "any other   *)
(* negative number"; the code takes the message out and answers as if it   *)
(* had been delivered, which the mailbox allows with an action of its own, *)
(* Lose.                                                                   *)
ImplementsMailbox == Abstract!Spec
==============================================================================
