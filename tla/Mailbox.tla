------------------------------- MODULE Mailbox -------------------------------
(***************************************************************************)
(* What the two message system calls of project2/sys.c promise: a pile of  *)
(* messages.  cs1550_send_msg puts one on top; cs1550_get_msg takes the    *)
(* topmost message for a user and tells whether more are left for that     *)
(* user.  The linked list and the steps of the calls are left out.  Lose   *)
(* is what the code does beside its promise.                               *)
(***************************************************************************)
EXTENDS Integers, Sequences

CONSTANTS Procs,   \* the processes that make the calls
          Users,   \* the names messages are addressed to
          Msgs,    \* the messages, each with its sender
          None     \* no message, no result

VARIABLES box,     \* the messages not delivered, newest first
          result,  \* what the last cs1550_get_msg of each process returned
          status,  \* what the last cs1550_send_msg of each process returned
          out      \* the messages that the two buffers of each process are of

vars == <<box, result, status, out>>

Init ==
    /\ box = <<>>
    /\ result = [p \in Procs |-> None]
    /\ status = [p \in Procs |-> None]
    /\ out = [p \in Procs |-> [text |-> None, from |-> None]]

Send(p, u, m) ==
    /\ box' = <<[to |-> u, msg |-> m]>> \o box
    /\ status' = [status EXCEPT ![p] = 0]
    /\ UNCHANGED <<result, out>>

SendFails(p) ==
    /\ status' = [status EXCEPT ![p] = -1]
    /\ UNCHANGED <<box, result, out>>

MessagesFor(u) == {i \in DOMAIN box : box[i].to = u}

NoMessage(p, u) ==
    /\ MessagesFor(u) = {}
    /\ result' = [result EXCEPT ![p] = -1]
    /\ UNCHANGED <<box, status, out>>

(* The newest message for u, at position i, leaves the pile. *)
Remove(p, u, i) ==
    /\ i \in MessagesFor(u)
    /\ \A j \in MessagesFor(u) : i <= j
    /\ box' = SubSeq(box, 1, i - 1) \o SubSeq(box, i + 1, Len(box))
    /\ result' = [result EXCEPT ![p] = IF MessagesFor(u) = {i} THEN 0 ELSE 1]
    /\ UNCHANGED status

(* The caller gets the message and its sender, with 1 or 0. *)
Take(p, u, i) ==
    /\ Remove(p, u, i)
    /\ out' = [out EXCEPT ![p] = [text |-> box[i].msg, from |-> box[i].msg]]

(* Not as documented: "any other negative number indicates an error"       *)
(* (lines 192-193), but a message whose text or sender cannot be copied is *)
(* gone with 1 or 0 like a delivered one.                                  *)
Lose(p, u, i) ==
    /\ Remove(p, u, i)
    /\ out' \in {out, [out EXCEPT ![p].text = box[i].msg]}

Next ==
    \E p \in Procs, u \in Users :
        \/ \E m \in Msgs : Send(p, u, m)
        \/ SendFails(p)
        \/ NoMessage(p, u)
        \/ \E i \in DOMAIN box : Take(p, u, i) \/ Lose(p, u, i)

Spec == Init /\ [][Next]_vars
==============================================================================
