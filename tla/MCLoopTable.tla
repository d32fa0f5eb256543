----------------------------- MODULE MCLoopTable -----------------------------
(* Three loops for TLC: 1 and 2 share a bucket, 3 is another's copy: the     *)
(* same line of the same header, included in a second translation unit.      *)
EXTENDS LoopTable

MCLoop  == {1, 2, 3}
MCHash  == (1 :> 11) @@ (2 :> 13) @@ (3 :> 13)
MCWhere == (1 :> [line |-> 5, name |-> "a"]) @@ (2 :> [line |-> 5, name |-> "h_in_a"])
             @@ (3 :> [line |-> 5, name |-> "h_in_b"])
LocalJumps == {"break", "continue"}
=============================================================================
