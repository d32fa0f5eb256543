---------------------------- MODULE MCLoopMonitor ----------------------------
(* Two loops with distinct identifiers, for TLC. *)
EXTENDS LoopMonitor

MCLoop == {1, 2}
MCHash == [l \in MCLoop |-> 10 + l]
NoJumps == {}
=============================================================================
