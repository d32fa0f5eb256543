------------------------------ MODULE LoopNest ------------------------------
(***************************************************************************)
(* What the analysis of structure_detection is given: a program whose MPI  *)
(* calls lie in nested loops, run by one process, as the callstacks the    *)
(* parser made of its trace - one per call of the program, with the        *)
(* instants at which it was executed - and their grouping into clusters.   *)
(*                                                                         *)
(* A program is a record                                                   *)
(*   parent  the loop around a loop, 0 around the outermost ones           *)
(*   owner   the innermost loop around a call; calls are numbered in       *)
(*           program order, which is the order callstack.__lt__ gives them *)
(*   trips   the iterations of one execution of a loop                     *)
(*   every   1, or n for a call under a condition that holds in every n-th *)
(*           iteration of its loop (a data condition)                      *)
(***************************************************************************)
EXTENDS Integers, FiniteSets, Sequences, SequencesExt, FiniteSetsExt

CONSTANTS
  Base,          (* instants are numbers in this base, one digit per choice  *)
  MaxDepth,      (* bound: loops around a call                               *)
  WithLoopInfo   (* clusters from the loop ids of the trace (--with-loop-info) *)

ASSUME NestAssumption ==
  /\ Base \in Nat /\ MaxDepth \in Nat
  /\ WithLoopInfo \in BOOLEAN

Calls(p) == DOMAIN p.owner
Loops(p) == DOMAIN p.parent

(* The loops around loop l, itself included.                                 *)
Around(p, l) ==
  LET Chain[m \in Loops(p)] ==
        {m} \cup (IF p.parent[m] = 0 THEN {} ELSE Chain[p.parent[m]])
  IN Chain[l]

Body(p, l)  == {c \in Calls(p) : l \in Around(p, p.owner[c])}
Depth(p, l) == Cardinality(Around(p, l))

(* The calls of a loop are a range of the program, none of its loops is      *)
(* empty, a condition holds at least twice in an execution of its loop.      *)
WellFormed(p) ==
  /\ \A l \in Loops(p) :
       /\ Body(p, l) # {}
       /\ Min(Body(p, l)) .. Max(Body(p, l)) = Body(p, l)
       /\ Depth(p, l) <= MaxDepth
  /\ \A c \in Calls(p) : 2 * p.every[c] <= p.trips[p.owner[c]]

(* The instants of a program: within an iteration the calls and the inner    *)
(* loops follow each other in program order.                                 *)
LoopUnit(d) == Base ^ (2 * (MaxDepth - d) + 2)
IterUnit(d) == Base ^ (2 * (MaxDepth - d) + 1)

Iterations(p, l, every) ==
  LET Starts[m \in Loops(p), n \in {1, every}] ==
        LET d      == Depth(p, m)
            first  == Min(Body(p, m)) * LoopUnit(d)
            unit   == IterUnit(d)
            before == IF p.parent[m] = 0 THEN {0} ELSE Starts[p.parent[m], 1]
        IN {s + first + k * unit : s \in before, k \in {x \in 1 .. p.trips[m] : x % n = 0}}
  IN Starts[l, every]

Instants(p, c) ==
  LET place == c * LoopUnit(Depth(p, p.owner[c]) + 1)
  IN {s + place : s \in Iterations(p, p.owner[c], p.every[c])}

(* What the clustering knows of a callstack: its repetitions and the span of *)
(* its instants, which give the mean distance between two repetitions.       *)
Summary(ins) == [reps |-> Cardinality(ins), span |-> Max(ins) - Min(ins)]

MeanLess(s, t) == s.span * (t.reps - 1) < t.span * (s.reps - 1)

(* DBSCAN with eps 0.1 over repetitions and mean distance: two callstacks    *)
(* lie in one cluster when they are repeated equally often and no gap of     *)
(* more than a tenth of the largest mean lies between their means.           *)
Split(s, t, all) ==
  LET same == {x \in all : x.reps = s.reps}
      big  == CHOOSE x \in all : \A y \in all : ~MeanLess(x, y)
      Far(x, y) == 10 * (y.span - x.span) * (big.reps - 1) > big.span * (x.reps - 1)
  IN \E x \in same : /\ ~MeanLess(x, s) /\ MeanLess(x, t)
                     /\ \A y \in same : MeanLess(x, y) => Far(x, y)

SameCluster(p, sum, c, d) ==
  IF WithLoopInfo THEN p.owner[c] = p.owner[d]
  ELSE /\ sum[c].reps = sum[d].reps
       /\ ~Split(sum[c], sum[d], Range(sum)) /\ ~Split(sum[d], sum[c], Range(sum))

(* A variant for checking: the clusters by decreasing mean distance.           *)
clusters_decreasing(p, ins) ==
  LET sum == [c \in Calls(p) |-> Summary(ins[c])]
      Before(k, m) == MeanLess(sum[Min(m)], sum[Min(k)])
  IN SetToSortSeq({{d \in Calls(p) : SameCluster(p, sum, c, d)} : c \in Calls(p)}, Before)

(* The clusters by increasing mean distance, those with the same mean in the *)
(* order in which the clustering found them.                                 *)
SortedClusters(p, ins) ==
  LET sum == [c \in Calls(p) |-> Summary(ins[c])]
      Spans(cl) == MapThenSumSet(LAMBDA c : sum[c].span, cl)
      Dists(cl) == MapThenSumSet(LAMBDA c : sum[c].reps - 1, cl)
      Before(k, m) ==
        LET x == Spans(k) * Dists(m)
            y == Spans(m) * Dists(k)
        IN x < y \/ (x = y /\ Min(k) < Min(m))
  IN SetToSortSeq({{d \in Calls(p) : SameCluster(p, sum, c, d)} : c \in Calls(p)}, Before)
=============================================================================
