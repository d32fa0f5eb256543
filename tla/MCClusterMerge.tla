--------------------------- MODULE MCClusterMerge ---------------------------
(* Small programs for TLC: every well-formed nest of the sizes given.        *)
EXTENDS ClusterMerge

CONSTANTS
  Trips,       (* trip counts of programs without conditions                 *)
  CondTrips    (* trip counts of programs with one call under a condition    *)

Trees(n) == {t \in [1 .. n -> 0 .. n - 1] : \A l \in 1 .. n : t[l] < l}

Unconditional(n) == {[c \in 1 .. n |-> 1]}
OneCondition(n)  == {[c \in 1 .. n |-> IF c = d THEN 2 ELSE 1] : d \in 1 .. n}

Nests(trees, n, calls, trips, conditions) ==
  {p \in [parent : trees, owner : [1 .. calls -> 1 .. n],
          trips : [1 .. n -> trips], every : conditions] : WellFormed(p)}

MCPrograms ==
  UNION {Nests(Trees(n), n, 4, Trips, Unconditional(4)) : n \in 1 .. 3}
    \cup Nests(Trees(4), 4, 4, {2}, Unconditional(4))
    \cup Nests(Trees(4), 4, 5, {2}, Unconditional(5))
    \cup Nests({<<0, 1, 1, 1>>}, 4, 4, Trips, Unconditional(4))
    \cup UNION {Nests(Trees(n), n, 5, CondTrips, OneCondition(5)) : n \in 1 .. 2}
    \cup Nests({<<0, 1, 1>>}, 3, 4, {2, 4}, OneCondition(4))

(* The split example of methodology.tex:1394.                                *)
SplitExample ==
  {[parent |-> <<0>>, owner |-> <<1, 1, 1>>, trips |-> <<10>>, every |-> <<2, 1, 1>>]}

(* Two loops one after the other.                                            *)
Successive ==
  {[parent |-> <<0, 0>>, owner |-> <<1, 2>>, trips |-> <<3, 4>>, every |-> <<1, 1>>]}
=============================================================================
