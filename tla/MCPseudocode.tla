---------------------------- MODULE MCPseudocode ----------------------------
EXTENDS Pseudocode

CONSTANT MaxCalls  (* bound: callstacks of a loop *)

(* The MPI calls of main { h(); Barrier; } and h { Send; Recv; k(); }, k with *)
(* two, in program order.  Some ranks repeat Recv and the first call of k in *)
(* a loop, others execute Recv once: it is two callstacks of one path.  The  *)
(* last two are not under main: their callstacks were recorded to less depth.*)
Call(path, loop) == [path |-> path, loop |-> loop]
Body == <<
  Call(<<"main", "h20", "Send5">>, 0),
  Call(<<"main", "h20", "Recv6">>, 0),
  Call(<<"main", "h20", "Recv6">>, 1),
  Call(<<"main", "h20", "k7", "Wait3">>, 1),
  Call(<<"main", "h20", "k7", "Test4">>, 0),
  Call(<<"main", "Barrier30">>, 0),
  Call(<<"deep40", "Reduce41">>, 0),
  Call(<<"Bcast50">>, 0)>>
Shallow == {Body[7], Body[8]}

(* Some of those under main, at least one outside the inner loops, and each  *)
(* of the last two alone, and with one or two others.                        *)
Bodies ==
  {T \in SUBSET (ToSet(Body) \ Shallow) : Cardinality(T) \in 1..MaxCalls /\ \E c \in T : c.loop = 0}
  \cup {{b, c, d} : b, c \in ToSet(Body), d \in Shallow}

MCSource == {SelectSeq(Body, LAMBDA c : c \in T) : T \in Bodies}

(* Renaming the ranks renames the pseudo-code: of the bodies that differ in  *)
(* the names of ranks only, one is analysed, where higher ranks execute the  *)
(* earlier call.                                                             *)
Weight(r) == FoldSet(LAMBDA f, n : 2^(Len(source) - f) + n, 0,
                     {f \in DOMAIN source : r \in ranks[f]})
RanksInOrder == \A r, q \in Rank : r < q => Weight(r) <= Weight(q)
=============================================================================
