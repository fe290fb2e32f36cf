------------------------------- MODULE MCPageSim -------------------------------
EXTENDS PageSim

CONSTANTS NPages, MaxLines

MCPages == 0 .. NPages - 1

(* Page numbers are only compared, so a trace stands for all those with    *)
(* the same pattern: its pages appear for the first time in order.         *)
InOrder(t) == \A i \in 1 .. Len(t) : \A p \in 1 .. t[i] : \E j \in 1 .. i - 1 : t[j] = p - 1

MCTraces == {t \in [1 .. MaxLines -> MCPages] : InOrder(t)}
==============================================================================
