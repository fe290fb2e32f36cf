------------------------------- MODULE MCGraphics -------------------------------
EXTENDS Graphics

MCGlyph ==
    [c \in {"bar", "blank"} |->
        [i \in 0 .. 15 |-> IF c = "bar" /\ i \in {0, 15} THEN Bits
                           ELSE IF c = "bar" THEN {0, 7 - (i \div 2)} ELSE {}]]

MCPrompts == << Text(8, 2, <<"bar", "blank">>) >>
MCBodies == { << Rect(0, 0, 3, 2), Rect(40, 39, 2, 3) >>, << Rect(5, 5, 0, 0) >> }
MCFaces == { << Circle(21, 21, r) >> : r \in 0 .. 21 } \cup { << Circle(21, 21, 12), Circle(16, 17, 4) >> }
================================================================================
