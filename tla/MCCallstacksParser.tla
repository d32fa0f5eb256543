------------------------- MODULE MCCallstacksParser -------------------------
(* Two processes with one sending, one receiving and one collective call path, for TLC.      *)
EXTENDS CallstacksParser, TLC

CONSTANTS a, b, send, recv, coll

MCTask     == {a, b}
MCSendPath == {send}
MCRecvPath == {recv}
MCCollPath == {coll}
TaskSymmetry == Permutations(MCTask)
=============================================================================
