----------------------------- MODULE RankBlocks -----------------------------
(***************************************************************************)
(* From the loops of one rank each to one loop for all: the callstacks of  *)
(* several ranks that took the same path are compacted into one, and what  *)
(* is left is grouped into nested conditional rank blocks (loop.py).       *)
(*                                                                         *)
(* A loop holds one inner level of loops; each is a list of callstacks in  *)
(* program order, where an inner loop stands at its first callstack.       *)
(***************************************************************************)
EXTENDS Naturals, Sequences, SequencesExt, FiniteSets

CONSTANTS
  Rank,    (* the processes                                                  *)
  Source   (* the bodies of loops: each a sequence of callstacks in program  *)
           (* order, [path |-> calls, the MPI call last, loop |-> 0 or the   *)
           (* number of the inner loop]                                      *)

ASSUME RankAssumption == Rank \subseteq Nat /\ IsFiniteSet(Rank) /\ Rank # {}

(* A body has callstacks, and a callstack calls: its last one is to MPI.      *)
ASSUME SourceAssumption ==
  \A body \in Source :
    /\ body \in Seq(ToSet(body)) /\ body # <<>>
    /\ \A f \in DOMAIN body : body[f].path \in Seq(ToSet(body[f].path)) /\ body[f].path # <<>>

VARIABLES
  source,   (* the callstacks of the body, all ranks together                *)
  ranks,    (* the ranks that execute each of them                           *)
  lists,    (* callstack_list of loop 0, the outer one, and of the inner ones*)
  tree,     (* the outer loop grouped: its blocks, inner loops and           *)
            (* callstacks, each before what it contains                       *)
  stage     (* the step of the analysis: "merged", "compacted", "grouped"... *)

blockvars == <<source, ranks, lists, tree, stage>>

Loops   == {source[f].loop : f \in DOMAIN source}
In(n)   == {f \in DOMAIN source : source[f].loop = n}
Path(f) == source[f].path

(* The numbers 1..n that are in S, in order. *)
InOrder(S, n) == FlattenSeq([i \in 1..n |-> IF i \in S THEN <<i>> ELSE <<>>])

(* An item of a list: a callstack, or (loop # 0) the inner loop whose first  *)
(* callstack it is.                                                          *)
Item(f, n, R) == [flow |-> f, loop |-> IF source[f].loop = n THEN 0 ELSE source[f].loop,
                  ranks |-> R]

(* Loops of one rank merged one after the other, each rank's callstacks put  *)
(* before those already there and sorted by program order: among the same    *)
(* callstacks the higher ranks are first.                                    *)
RanksDown(R) ==
  CHOOSE down \in [1..Cardinality(R) -> R] : \A i, j \in DOMAIN down : i < j => down[i] > down[j]

Merged(n) ==
  LET Leaves(f) == [i \in 1..Cardinality(ranks[f]) |-> Item(f, n, {RanksDown(ranks[f])[i]})]
      Inner(f)  == <<Item(f, n, UNION {ranks[g] : g \in In(source[f].loop)})>>
      First(f)  == \A g \in In(source[f].loop) : f <= g
  IN FlattenSeq([f \in DOMAIN source |->
       IF source[f].loop = n THEN Leaves(f)
       ELSE IF n = 0 /\ First(f) THEN Inner(f) ELSE <<>>])

-----------------------------------------------------------------------------
(* compact_callstacks *)

(* Callstacks of the same flow on one side of the inner loops of the list.   *)
SameFlow(list, i, j) ==
  /\ \A k \in i..j : list[k].loop = 0
  /\ Path(list[i].flow) = Path(list[j].flow)

(* The first callstack of a flow takes the ranks of the later ones, which    *)
(* are removed.                                                              *)
compact_callstacks(list) ==
  LET Removed(j) == \E i \in 1..(j - 1) : SameFlow(list, i, j)
      Twins(i)   == {j \in i..Len(list) : j = i \/ SameFlow(list, i, j)}
      Taken(i)   == [list[i] EXCEPT !.ranks = UNION {list[j].ranks : j \in Twins(i)}]
  IN FlattenSeq([i \in DOMAIN list |-> IF Removed(i) THEN <<>> ELSE <<Taken(i)>>])

Compact ==
  /\ stage = "merged"
  /\ lists' = [n \in DOMAIN lists |-> compact_callstacks(lists[n])]
  /\ stage' = "compacted"
  /\ UNCHANGED <<source, ranks, tree>>

-----------------------------------------------------------------------------
(* group_into_conditional_rank_blocks *)

(* An entry of the tree stands after the block or loop it is in, "parent".   *)
Entry(kind, p, R, f, n) == [kind |-> kind, parent |-> p, ranks |-> R, flow |-> f, loop |-> n]

(* Bug variant: a block is reused if it overlaps.                            *)
place_if_overlapping(open, R) ==
  CHOOSE j \in 1..Len(open) :
    /\ \A i \in 1..j : open[i] \cap R # {} /\ (i < j => open[i] # R)
    /\ (j < Len(open) /\ open[j] # R => open[j+1] \cap R = {})

(* add_callstack: down the last blocks as long as they have all ranks of the *)
(* item, and not further than the one that has exactly these.                *)
Place(open, R) ==
  CHOOSE j \in 1..Len(open) :
    /\ \A i \in 1..j : R \subseteq open[i] /\ (i < j => open[i] # R)
    /\ (j < Len(open) /\ open[j] # R => ~ R \subseteq open[j+1])

(* Bug variant: the entries of an inner loop keep their numbers.             *)
keep_numbers(entries, n) == entries

Moved(entries, n) == [k \in DOMAIN entries |-> [entries[k] EXCEPT !.parent = @ + n]]

(* An item put into entry p at the end of a tree of n entries: a callstack,  *)
(* or an inner loop with the blocks it was grouped into before.              *)
Entries(it, p, n, inner) ==
  IF it.loop = 0 THEN <<Entry("call", p, it.ranks, it.flow, 0)>>
  ELSE <<Entry("loop", p, it.ranks, 0, it.loop)>> \o Moved(inner[it.loop], n + 1)

(* "open" is the ranks of the last block, of the last block in that one and  *)
(* so on, as long as the last item is a block; "at" is where they stand.     *)
add_callstack(g, it, inner) ==
  LET j == Place(g.open, it.ranks)
      n == Len(g.entries)
  IN IF g.open[j] = it.ranks
     THEN [open    |-> SubSeq(g.open, 1, j),
           at      |-> SubSeq(g.at, 1, j),
           entries |-> g.entries \o Entries(it, g.at[j], n, inner)]
     ELSE [open    |-> Append(SubSeq(g.open, 1, j), it.ranks),
           at      |-> Append(SubSeq(g.at, 1, j), n + 1),
           entries |-> Append(g.entries, Entry("crb", g.at[j], it.ranks, 0, 0))
                         \o Entries(it, n + 1, n + 1, inner)]

(* The block of all ranks of the loop, and the items put into it in turn.    *)
Grouped(list, inner) ==
  LET all == UNION {list[i].ranks : i \in DOMAIN list}
      g[k \in 0..Len(list)] ==
        IF k = 0
        THEN [open |-> <<all>>, at |-> <<1>>, entries |-> <<Entry("crb", 0, all, 0, 0)>>]
        ELSE add_callstack(g[k - 1], list[k], inner)
  IN g[Len(list)].entries

Group ==
  /\ stage = "compacted"
  /\ LET inner == [n \in Loops \ {0} |-> Grouped(lists[n], <<>>)]
         blocks == Grouped(lists[0], inner)
     IN tree' = <<Entry("loop", 0, blocks[1].ranks, 0, 0)>> \o Moved(blocks, 1)
  /\ stage' = "grouped"
  /\ UNCHANGED <<source, ranks, lists>>

-----------------------------------------------------------------------------
BlocksInit ==
  /\ source \in Source
  /\ ranks \in [DOMAIN source -> (SUBSET Rank) \ {{}}]
  /\ lists = [n \in Loops \cup {0} |-> Merged(n)]
  /\ tree = <<>>
  /\ stage = "merged"

(* The type invariant. *)
BlocksOK ==
  /\ source \in Source
  /\ ranks \in [DOMAIN source -> (SUBSET Rank) \ {{}}]
  /\ \A n \in DOMAIN lists : \A i \in DOMAIN lists[n] :
       lists[n][i].ranks \in (SUBSET Rank) \ {{}} /\ lists[n][i].flow \in DOMAIN source
  /\ \A e \in DOMAIN tree :
       /\ tree[e].kind \in {"loop", "crb", "call"}
       /\ tree[e].ranks \in (SUBSET Rank) \ {{}}
       /\ tree[e].parent \in (IF e = 1 THEN {0} ELSE 1..(e - 1))

(* Blocks nest: whatever is in a block is executed by ranks of the block, a  *)
(* callstack or loop by all of them, a block by fewer of them.  No assertion *)
(* of add_callstack can fail, then.  Consecutive items with the same ranks   *)
(* share a block: no condition is opened twice in a row.                     *)
BlocksNest ==
  \A e \in DOMAIN tree \ {1} :
    LET p        == tree[e].parent
        siblings == {b \in DOMAIN tree : b < e /\ tree[b].parent = p}
        last     == CHOOSE b \in siblings : \A c \in siblings : c <= b
    IN /\ tree[p].kind = "loop" => tree[e].kind = "crb" /\ tree[e].ranks = tree[p].ranks
       /\ tree[p].kind = "crb" =>
            /\ tree[e].ranks \subseteq tree[p].ranks
            /\ (tree[e].kind = "crb") <=> (tree[e].ranks # tree[p].ranks)
       /\ tree[e].kind = "crb" /\ siblings # {} /\ tree[last].kind = "crb"
          => tree[last].ranks # tree[e].ranks
=============================================================================
