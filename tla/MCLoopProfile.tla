---------------------------- MODULE MCLoopProfile ----------------------------
(* Two loops with distinct identifiers and their trace analysis, for TLC.    *)
EXTENDS LoopProfile

MCLoop == {1, 2}
MCHash == [l \in MCLoop |-> 10 + l]
AllJumps == {"break", "continue", "return"}
NoJumps == {}
=============================================================================
