------------------------------- MODULE MCServers -------------------------------
EXTENDS Servers

Ask(name, size) == [file |-> name, size |-> size]

MCRequests == {Ask("b", "long"), Ask("missing", "exact"), Ask("silent", "short")}

(* The beginning of the longer name is that of another file. *)
MCCut == [name \in Names \cup {"bad"} |-> IF name = "b" THEN {"a"} ELSE {}]

MCWarmCaches == {<<"c", "a">>}
================================================================================
