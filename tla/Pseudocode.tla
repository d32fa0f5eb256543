----------------------------- MODULE Pseudocode -----------------------------
(***************************************************************************)
(* The pseudo-code of a loop: the calls its callstacks have in common are  *)
(* taken out and repeated calls hidden (loop.py), and the lines are        *)
(* generated for some of the ranks, with or without the call path          *)
(* (pseudocode.py).  A line is its indentation and what it says.           *)
(***************************************************************************)
EXTENDS RankBlocks

(* No place of a program is reached on two ways: there is no recursion, and  *)
(* functions with MPI calls are called at one place.                         *)
ASSUME PlacesAssumption ==
  \A body \in Source : \A f, g \in DOMAIN body :
    \A i \in DOMAIN body[f].path, j \in DOMAIN body[g].path :
      body[f].path[i] = body[g].path[j] =>
        SubSeq(body[f].path, 1, i) = SubSeq(body[g].path, 1, j)

VARIABLES
  own,     (* the calls left to each entry of the tree                       *)
  hidden,  (* how many of them, from the first on, are not printed           *)
  show_ranks, only_mpi,  (* the view asked for                               *)
  lines    (* the pseudo-code                                                *)

vars == <<blockvars, own, hidden, show_ranks, only_mpi, lines>>

-----------------------------------------------------------------------------
(* extract_common_callstack_r *)

(* The entries an entry is in. *)
Above(t) ==
  LET above[e \in DOMAIN t] ==
        IF e = 1 THEN {} ELSE {t[e].parent} \cup above[t[e].parent]
  IN above

(* How many calls two paths have in common, from the first one on.           *)
Agree(a, b) == Cardinality({i \in 1..Len(a) : i <= Len(b) /\ SubSeq(a, 1, i) = SubSeq(b, 1, i)})

(* MPI calls are never equal, not even to themselves. *)
WithoutMpi(path) == Front(path)

(* The calls all callstacks of an entry begin with, MPI calls apart.         *)
Commons(t) ==
  LET above    == Above(t)
      Under(e) == {Path(t[b].flow) : b \in {c \in DOMAIN t : t[c].kind = "call" /\ e \in above[c]}}
      Prefix(S) == LET path == WithoutMpi(CHOOSE p \in S : TRUE)
                       least == CHOOSE n \in {Agree(path, WithoutMpi(p)) : p \in S} :
                                  \A p \in S : n <= Agree(path, WithoutMpi(p))
                   IN SubSeq(path, 1, least)
  IN [e \in DOMAIN t |-> IF t[e].kind = "call" THEN Path(t[e].flow) ELSE Prefix(Under(e))]

(* The callstack less the common ones above it, call by call.                *)
Less(calls, common) ==
  FlattenSeq([i \in DOMAIN calls |-> IF calls[i] \in ToSet(common) THEN <<>> ELSE <<calls[i]>>])

(* Bug variant: only what the outermost loop has in common is taken out.     *)
extract_outermost(t) ==
  LET common == Commons(t)
  IN [e \in DOMAIN t |-> IF e = 1 THEN common[e] ELSE Less(common[e], common[1])]

extract_common_callstack(t) ==
  LET common == Commons(t)
  IN [e \in DOMAIN t |-> IF e = 1 THEN common[e] ELSE Less(common[e], common[t[e].parent])]

-----------------------------------------------------------------------------
(* hide_contiguous_callstacks *)

(* A callstack is compared with the one before it, wherever that is; a block *)
(* or loop with the one before it in what contains it, the first with that.  *)
Before(t, e) ==
  IF t[e].kind = "call" THEN {b \in 1..(e - 1) : t[b].kind = "call"}
  ELSE {b \in 2..(e - 1) : t[b].kind # "call" /\ t[b].parent = t[e].parent} \cup {t[e].parent}

Plain(t, calls, e) == IF t[e].kind = "call" THEN WithoutMpi(calls[e]) ELSE calls[e]
Greatest(S)        == CHOOSE m \in S : \A k \in S : k <= m

hide_contiguous_callstacks(t, calls) ==
  [e \in DOMAIN t |->
     IF e = 1 \/ Before(t, e) = {} THEN 0
     ELSE Agree(Plain(t, calls, Greatest(Before(t, e))), Plain(t, calls, e))]

(* Bug variant: an item's common calls are taken out before it is read.      *)
raises_after_extraction(t) ==
  LET left == extract_common_callstack(t)
  IN \E e \in DOMAIN t \ {1} : t[e].kind # "call" /\ t[e].parent = e - 1 /\ left[e] = <<>>

(* get_common_callstack reads the last common call of the first item of a    *)
(* list: an IndexError if that is a block or loop without common calls.  The *)
(* first item follows what contains it.                                      *)
Raises(t) ==
  LET common == Commons(t)
  IN \E e \in DOMAIN t \ {1} : t[e].kind # "call" /\ t[e].parent = e - 1 /\ common[e] = <<>>

Beautify ==
  /\ stage = "grouped"
  /\ \/ /\ ~Raises(tree)
        /\ own' = extract_common_callstack(tree)
        /\ hidden' = hide_contiguous_callstacks(tree, own')
        /\ stage' = "beautified"
     \/ /\ Raises(tree)
        /\ stage' = "failed"
        /\ UNCHANGED <<own, hidden>>
  /\ UNCHANGED <<source, ranks, lists, tree, show_ranks, only_mpi, lines>>

-----------------------------------------------------------------------------
(* generate *)

Line(kind, tabs, what) == [kind |-> kind, tabs |-> tabs, what |-> <<what>>]

(* A block is left out when it is executed by none of the ranks shown, and   *)
(* its condition is printed when some of them do not execute it.             *)
Shown(show) ==
  LET shown[e \in DOMAIN tree] ==
        /\ tree[e].kind = "crb" => tree[e].ranks \cap show # {}
        /\ e # 1 => shown[tree[e].parent]
  IN shown

(* Bug variant: the ranks of the block are counted, shown or not.            *)
condition_by_size(R, show) == Cardinality(R) < Cardinality(show)

Condition(R, show) == Cardinality(R \cap show) < Cardinality(show)

(* The calls of an entry are printed one below the other - without the call  *)
(* path the MPI call only - and its contents are indented from there.        *)
Width(e, mpi) == IF mpi THEN 0 ELSE Len(own[e])

Tabs(show, mpi) ==
  LET tabs[e \in DOMAIN tree] ==
        IF e = 1 THEN 0
        ELSE LET p == tree[e].parent IN
             tabs[p] + Width(p, mpi)
               + IF tree[p].kind = "loop" \/ Condition(tree[p].ranks, show) THEN 1 ELSE 0
  IN tabs

parse_callstack(e, tabs, mpi) ==
  LET calls == own[e]
      Kind(i) == IF tree[e].kind = "call" /\ i = Len(calls) THEN "mpi" ELSE "call"
  IN IF mpi
     THEN IF tree[e].kind = "call" THEN <<Line("mpi", tabs, Last(calls))>> ELSE <<>>
     ELSE [i \in 1..(Len(calls) - hidden[e]) |->
             Line(Kind(hidden[e] + i), tabs + hidden[e] + i - 1, calls[hidden[e] + i])]

(* parse_loop and parse_conditional_rank_block, up to their contents.        *)
Opening(e, tabs, show, mpi) ==
  parse_callstack(e, tabs, mpi) \o
  CASE tree[e].kind = "loop" -> <<Line("for", tabs + Width(e, mpi), tree[e].loop)>>
    [] tree[e].kind = "crb"  ->
         IF Condition(tree[e].ranks, show)
         THEN <<Line("if", tabs + Width(e, mpi), tree[e].ranks \cap show)>> ELSE <<>>
    [] tree[e].kind = "call" -> <<>>

(* parse_loop, after its contents: the loops whose last entry is e end, the  *)
(* innermost first.                                                          *)
Closing(e, tabs, shown, mpi) ==
  LET above == Above(tree)
      Ends  == {a \in above[e] : /\ tree[a].kind = "loop" /\ shown[a]
                                 /\ \A b \in (e + 1)..Len(tree) : a \notin above[b]}
      order == Reverse(InOrder(Ends, Len(tree)))
  IN [i \in DOMAIN order |-> Line("end", tabs[order[i]] + Width(order[i], mpi), 0)]

pseudo(show, mpi) ==
  LET tabs  == Tabs(show, mpi)
      shown == Shown(show)
  IN FlattenSeq([e \in DOMAIN tree |->
       (IF shown[e] THEN Opening(e, tabs[e], show, mpi) ELSE <<>>)
       \o Closing(e, tabs, shown, mpi)])

Generate(show, mpi) ==
  /\ stage = "beautified"
  /\ show_ranks' = show
  /\ only_mpi' = mpi
  /\ lines' = pseudo(show, mpi)
  /\ stage' = "generated"
  /\ UNCHANGED <<source, ranks, lists, tree, own, hidden>>

-----------------------------------------------------------------------------
Init ==
  /\ BlocksInit
  /\ own = <<>> /\ hidden = <<>>
  /\ show_ranks = Rank /\ only_mpi = FALSE
  /\ lines = <<>>

Analyse == (Compact \/ Group) /\ UNCHANGED <<own, hidden, show_ranks, only_mpi, lines>>

Next ==
  \/ Analyse
  \/ Beautify
  \/ \E show \in (SUBSET Rank) \ {{}}, mpi \in BOOLEAN : Generate(show, mpi)

Spec == Init /\ [][Next]_vars

-----------------------------------------------------------------------------
(* Reading the pseudo-code.  A line is in those above it that are indented   *)
(* less, as far as no line between is indented as little.                    *)
Around(k) == {j \in 1..(k - 1) : /\ lines[j].tabs < lines[k].tabs /\ lines[j].kind # "end"
                                 /\ \A m \in (j + 1)..(k - 1) : lines[m].tabs > lines[j].tabs}
Say(ks, kind) == LET js == InOrder({j \in ks : lines[j].kind = kind}, Len(lines))
                 IN [i \in DOMAIN js |-> lines[js[i]].what[1]]

Read(k) ==
  LET around == Around(k)
  IN [mpi   |-> lines[k].what[1],
      path  |-> Say(around, "call"),
      loops |-> Say(around, "for"),
      ranks |-> {r \in show_ranks : \A R \in ToSet(Say(around, "if")) : r \in R}]

CallLines  == InOrder({k \in DOMAIN lines : lines[k].kind = "mpi"}, Len(lines))
WhatIsRead == [i \in DOMAIN CallLines |-> Read(CallLines[i])]

(* The same, as the program is.  *)
Executed == InOrder({f \in DOMAIN source : ranks[f] \cap show_ranks # {}}, Len(source))
WhatIsDone ==
  [i \in DOMAIN Executed |->
     LET f == Executed[i] IN
       [mpi   |-> Last(Path(f)),
        path  |-> Front(Path(f)),
        loops |-> IF source[f].loop = 0 THEN <<0>> ELSE <<0, source[f].loop>>,
        ranks |-> ranks[f] \cap show_ranks]]

Without(field, seq) == [i \in DOMAIN seq |-> [seq[i] EXCEPT ![field] = <<>>]]

(* The type invariant. *)
TypeOK ==
  /\ BlocksOK
  /\ stage \in {"merged", "compacted", "grouped", "beautified", "generated", "failed"}
  /\ show_ranks \in (SUBSET Rank) \ {{}} /\ only_mpi \in BOOLEAN
  /\ DOMAIN own = DOMAIN hidden
  /\ \A e \in DOMAIN hidden : hidden[e] <= Len(own[e])
  /\ \A k \in DOMAIN lines : lines[k].tabs \in Nat

(* Whoever reads the pseudo-code of any ranks without call paths sees every  *)
(* MPI call these ranks execute, once, in program order, in its loops and    *)
(* under the condition of exactly its ranks.                                 *)
EveryCallIsRead ==
  lines # <<>> /\ only_mpi => Without("path", WhatIsRead) = Without("path", WhatIsDone)

(* The analysis fails of the callstacks without a common first call, and of  *)
(* nothing else, whatever blocks and loops they were grouped into.           *)
NoCommonCall == \E f \in DOMAIN source : Len(Path(f)) = 1 \/ Path(f)[1] # Path(1)[1]

FailsWithoutCommonCall ==
  stage \in {"beautified", "generated", "failed"} => (stage = "failed" <=> NoCommonCall)

(* What a call was hidden for is printed, and in the same block.             *)
HidingIsVisible ==
  \A e \in DOMAIN tree :
    hidden[e] > 0 /\ Shown(show_ranks)[e] =>
      LET b == Greatest(Before(tree, e))
      IN Shown(show_ranks)[b] /\ (tree[e].kind = "call" => tree[b].parent = tree[e].parent)

(* With call paths, the path of every MPI call is read too, although common  *)
(* calls are factored out block by block and repeated ones hidden, as long   *)
(* as nothing was hidden across blocks.                                      *)
PathsAreRead ==
  lines # <<>> /\ ~only_mpi /\ HidingIsVisible => WhatIsRead = WhatIsDone

(* methodology.tex: "Here you can see the loops and conditional structures   *)
(* when there is a divergence among ranks executions".                       *)
ConditionsAreRead ==
  lines # <<>> /\ show_ranks = Rank
  => Without("path", WhatIsRead) = Without("path", WhatIsDone)
=============================================================================
