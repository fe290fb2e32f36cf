-------------------------------- MODULE Osmsg --------------------------------
(***************************************************************************)
(* The client of project2/osmsg.c over the system calls of MsgQueue.  Each *)
(* process is a terminal in which osmsg is run again and again, with -s to *)
(* send one message or with -r to print the user's messages.               *)
(***************************************************************************)
EXTENDS MsgQueue

CONSTANTS Owner,    \* the value of USER in each terminal
          Readers   \* the terminals in which osmsg -r is run

ASSUME OsmsgAssumption == Owner \in [Procs -> Users] /\ Readers \subseteq Procs

VARIABLES
    client,     \* what each terminal runs; receive_messages has two calls
    printed,    \* history: the lines printed, with the text and the sender
    reprinted,  \* history: those printed more than once
    due         \* history: the messages a run of osmsg -r found in the queue

osmsgVars == <<vars, client, printed, reprinted, due>>

Goto(p, label) == client' = [client EXCEPT ![p] = label]

OsmsgInit ==
    /\ Init
    /\ client = [p \in Procs |-> "shell"]
    /\ printed = {}
    /\ reprinted = {}
    /\ due = [p \in Procs |-> {}]

(* osmsg -s; the exit status is all that becomes of the result. *)
RunSend(p) ==
    /\ client[p] = "shell"
    /\ \E u \in Users, m \in Msgs : SendFill(p, u, m)
    /\ Goto(p, "send_message")
    /\ UNCHANGED <<printed, reprinted, due>>

RunSendRejected(p) ==
    /\ client[p] = "shell"
    /\ SendRejected(p)
    /\ Goto(p, "send_message")
    /\ UNCHANGED <<printed, reprinted, due>>

ExitSend(p) ==
    /\ client[p] = "send_message" /\ pc[p] = "user"
    /\ Goto(p, "shell")
    /\ UNCHANGED <<vars, printed, reprinted, due>>

(* osmsg -r: the first call of receive_messages. *)
RunReceive(p) ==
    /\ client[p] = "shell" /\ p \in Readers
    /\ GetStart(p, Owner[p])
    /\ Goto(p, "first_call")
    /\ due' = [due EXCEPT ![p] = {msg[n] : n \in {m \in Reachable : to[m] = Owner[p]}}]
    /\ UNCHANGED <<printed, reprinted>>

(* printf of the buffers: after a failed copy, what they held before.  *)
Show(p) ==
    /\ printed' = printed \cup {out[p]}
    /\ reprinted' = reprinted \cup (printed \cap {out[p]})
    /\ UNCHANGED due

(* The process ends. *)
Exit(p) == Goto(p, "shell") /\ UNCHANGED vars

(* "No messages found." *)
NoMessages(p) ==
    /\ client[p] = "first_call" /\ pc[p] = "user"
    /\ result[p] < 0
    /\ Exit(p)
    /\ UNCHANGED <<printed, reprinted, due>>

(* The body of the loop: print, and call again. *)
PrintAndCall(p) ==
    /\ client[p] \in {"first_call", "next_call"} /\ pc[p] = "user"
    /\ result[p] = 1
    /\ Show(p)
    /\ GetStart(p, Owner[p])
    /\ Goto(p, "next_call")

(* After the loop: print once more, whatever the last call returned. *)
PrintLast(p) ==
    /\ \/ client[p] = "first_call" /\ result[p] = 0
       \/ client[p] = "next_call" /\ result[p] # 1
    /\ pc[p] = "user"
    /\ Show(p)
    /\ Exit(p)

Receive(p) == NoMessages(p) \/ PrintAndCall(p) \/ PrintLast(p)

OsmsgNext ==
    \E p \in Procs :
        \/ RunSend(p) \/ RunSendRejected(p) \/ ExitSend(p)
        \/ RunReceive(p) \/ Receive(p)
        \/ InKernel(p) /\ UNCHANGED <<client, printed, reprinted, due>>

OsmsgSpec == OsmsgInit /\ [][OsmsgNext]_osmsgVars
------------------------------------------------------------------------------
(* "While more messages keep printing until the final message is found and *)
(* exit loop" (line 28): each message is printed once, unless a failed     *)
(* copy left an earlier one in the buffers.                                *)
PrintsOnce == reprinted # {} => dropped # {}

Line(m) == [text |-> m, from |-> m]

(* A run of osmsg -r that has ended has printed every message that was in  *)
(* the queue for its user when it began and that could be copied, with its *)
(* own sender, although it takes them one call at a time, newest first,    *)
(* and others arrive meanwhile (lines 20-37).                              *)
ReadsEverything ==
    \A p \in Procs : client[p] = "shell" =>
        \A m \in due[p] : Line(m) \in printed \/ m \in dropped

(* Each message to a user is printed, and printed once (lines 20-37).      *)
PrintsAllOnce == PrintsOnce /\ ReadsEverything
==============================================================================
