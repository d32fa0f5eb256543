---------------------------- MODULE ClusterMerge ----------------------------
(***************************************************************************)
(* structure_detection/cluster.py and the merging methods of loop.py: from *)
(* the clusters of a phase of the execution to its nest of loops.  Every   *)
(* cluster becomes one loop, or several when its callstacks do not         *)
(* alternate in time (aliasing), under a loop of their own when they       *)
(* recur together (a hidden superloop, one without MPI calls).  Then       *)
(* callstacks that lie inside another loop are pushed into it (data        *)
(* conditions), and at last loops are merged, from the most to the least   *)
(* frequent, into the loop whose iterations contain theirs.                *)
(*                                                                         *)
(* One process and one phase (delta).  A loop is named by the position of  *)
(* its cluster and its number in it, 0 for a hidden superloop.  The items  *)
(* of a loop are kept sorted in program order, so sets stand for them.     *)
(***************************************************************************)
EXTENDS LoopNest

CONSTANT Programs   (* the programs analysed *)

VARIABLES
  program,    (* the program under analysis                                  *)
  instants,   (* when each of its calls was executed                         *)
  members,    (* the calls of each cluster, by increasing mean distance      *)
  loops,      (* the loop objects                                            *)
  clusters,   (* the loops of each cluster                                   *)
  phase,      (* "generate", "push", "merge" or "done"                       *)
  i, j,       (* positions of the two clusters at hand                       *)
  a, b        (* positions of their loops at hand                            *)

vars == <<program, instants, members, loops, clusters, phase, i, j, a, b>>

-----------------------------------------------------------------------------
(* Generation of the loops of a cluster.                                     *)

(* The place of an instant among those of a callstack, from 0.               *)
Place(ins, t) == Cardinality({u \in ins : u < t})

(* Two callstacks of a cluster alternate: between two executions of one      *)
(* there is exactly one of the other.                                        *)
Alternate(s, t) == \E k \in {0, 1} : \A u \in t : Place(s, u) = Place(t, u) + k

(* The subloops of a cluster: callstacks that alternate with each other.     *)
Subloops(cl, ins) == {{d \in cl : Alternate(ins[c], ins[d])} : c \in cl}

(* How often the subloops recur: the runs of executions of one of them that  *)
(* no execution of another one interrupts.                                   *)
Runs(c, cl, ins) ==
  LET others == UNION {ins[d] : d \in {x \in cl : ~Alternate(ins[c], ins[x])}}
  IN Cardinality({t \in ins[c] : \A u \in ins[c] :
                    u < t => \E v \in others : u < v /\ v < t})

(* P divides S: every element of S is in exactly one of the parts in P.      *)
Divides(P, S) ==
  /\ UNION P = S /\ {} \notin P
  /\ \A x, y \in P : x # y => x \cap y = {}

(* The callstacks of a program with their instants, as Init takes them.      *)
Executed(p) == [c \in Calls(p) |-> Instants(p, c)]

(* A callstack has been executed, it has the label of one cluster, and the   *)
(* subloops of a cluster are ranges of the rows of its matrix.               *)
ASSUME ProgramsAssumption ==
  \A p \in Programs :
    LET ins == Executed(p)
        cls == SortedClusters(p, ins)
    IN /\ WellFormed(p)
       /\ Calls(p) \subseteq Nat /\ IsFiniteSet(Calls(p)) /\ Calls(p) # {}
       /\ \A c \in Calls(p) : ins[c] \subseteq Nat /\ IsFiniteSet(ins[c]) /\ ins[c] # {}
       /\ cls \in Seq(SUBSET Calls(p))
       /\ Divides(Range(cls), Calls(p)) /\ IsInjective(cls)
       /\ \A k \in DOMAIN cls : Divides(Subloops(cls[k], ins), cls[k])

(* A loop object; it has iterations / divided iterations, and a run and the  *)
(* gap after it describe the voids in the instants of its callstacks.        *)
NewLoop(cs, its) ==
  [calls |-> cs, subs |-> {}, iterations |-> its, divided |-> 1, original |-> its,
   hidden |-> FALSE, merged |-> FALSE, run |-> its, gap |-> 0]

(* The n-th subloop of a cluster, in program order.                          *)
Sub(parts, n) ==
  CHOOSE q \in parts : Cardinality({x \in parts : Min(x) < Min(q)}) = n - 1

(* The loops of the k-th cluster.  Aliased callstacks keep voids in their    *)
(* list of instants where the other subloops ran: after every run, as many   *)
(* as the others have iterations, less one each, for the last iteration of a *)
(* subloop shares its column with the first of the next one.                 *)
Generated(k, cl) ==
  LET parts  == Subloops(cl, instants)
      g      == Cardinality(parts)
      its    == Cardinality(instants[Min(cl)])
      recur  == Runs(Min(cl), cl, instants)
      hidden == g > 1 /\ recur > 1
      run    == its \div recur
      sub    == [NewLoop({}, its) EXCEPT !.run = run, !.gap = (g - 1) * (run - 1),
                                         !.divided = IF hidden THEN recur ELSE 1]
      super  == [NewLoop({}, recur) EXCEPT !.hidden = TRUE,
                                           !.subs = {<<k, n>> : n \in 1 .. g}]
  IN [n \in IF hidden THEN 0 .. g ELSE 1 .. g |->
        IF n = 0 THEN super ELSE [sub EXCEPT !.calls = Sub(parts, n)]]

(* run_loops_generation of the i-th cluster.                                 *)
Generate ==
  /\ phase = "generate" /\ i <= Len(members)
  /\ \E gen \in {Generated(i, members[i])} :
       /\ loops' = [l \in DOMAIN loops \cup {<<i, n>> : n \in DOMAIN gen} |->
                      IF l[1] = i THEN gen[l[2]] ELSE loops[l]]
       /\ clusters' = Append(clusters,
            IF 0 \in DOMAIN gen THEN << <<i, 0>> >> ELSE [n \in DOMAIN gen |-> <<i, n>>])
  /\ i' = i + 1
  /\ UNCHANGED <<program, instants, members, phase, j, a, b>>

EndGenerate ==
  /\ phase = "generate" /\ i > Len(members)
  /\ phase' = "push"
  /\ i' = Len(clusters) /\ j' = Len(clusters) - 1
  /\ UNCHANGED <<program, instants, members, loops, clusters, a, b>>

Init ==
  /\ program \in Programs
  /\ instants = Executed(program)
  /\ members = SortedClusters(program, instants)
  /\ loops = <<>> /\ clusters = <<>>
  /\ phase = "generate"
  /\ i = 1 /\ j = 0
  /\ a = 1 /\ b = 1

-----------------------------------------------------------------------------
(* The callstacks of a loop and of the loops in it.                          *)
Flat(l) ==
  LET F[m \in DOMAIN loops] ==
        loops[m].calls \cup UNION {F[s] : s \in loops[m].subs}
  IN F[l]

(* Data conditions.                                                          *)

(* What is pushed or pushed to: the subloops of a hidden superloop.          *)
Parts(k) == UNION {IF loops[l].hidden THEN loops[l].subs ELSE {l} : l \in Range(clusters[k])}

should_own(l, c) == Min(Flat(l)) < c /\ c < Max(Flat(l))

Owners(m, c, k) ==
  {l \in Parts(k) : loops[l].original # loops[m].original /\ should_own(l, c)}

(* clusters[i].push_datacond(clusters[j]): every callstack goes to the first *)
(* loop that should own it; a loop is removed when it, or one of the         *)
(* subloops under it, has been emptied.                                      *)
Taken(l) ==
  {c \in UNION {loops[m].calls : m \in Parts(i)} :
     \E m \in Parts(i) :
       /\ c \in loops[m].calls /\ l \in Owners(m, c, j)
       /\ \A q \in Owners(m, c, j) : Min(Flat(l)) <= Min(Flat(q))}

(* A variant for checking: what is pushed stays where it was.                  *)
pushed_keeping ==
  [l \in DOMAIN loops |->
     IF l \in Parts(j) THEN [loops[l] EXCEPT !.calls = @ \cup Taken(l)] ELSE loops[l]]

Pushed ==
  LET gone == UNION {Taken(l) : l \in Parts(j)}
  IN [l \in DOMAIN loops |->
        IF l \in Parts(j) THEN [loops[l] EXCEPT !.calls = @ \cup Taken(l)]
        ELSE IF l \in Parts(i) THEN [loops[l] EXCEPT !.calls = @ \ gone]
        ELSE loops[l]]

Emptied(l, pushed) ==
  \E m \in IF loops[l].hidden THEN loops[l].subs ELSE {l} : pushed[m].calls = {}

(* The elements of a list that are in S, in order.                           *)
Only(list, S) ==
  FlattenSeq([k \in DOMAIN list |-> IF list[k] \in S THEN <<list[k]>> ELSE <<>>])

PushStep ==
  /\ phase = "push" /\ i >= 2
  /\ loops' = Pushed
  /\ clusters' = [clusters EXCEPT ![i] = Only(@, {l \in Range(@) : ~Emptied(l, Pushed)})]
  /\ IF clusters'[i] = <<>> \/ j = 1
     THEN i' = i - 1 /\ j' = i - 2
     ELSE j' = j - 1 /\ UNCHANGED i
  /\ UNCHANGED <<program, instants, members, phase, a, b>>

(* The clusters that have been pushed away are dropped.                      *)
EndPush ==
  /\ phase = "push" /\ i < 2
  /\ clusters' = Only(clusters, Range(clusters) \ {<<>>})
  /\ phase' = "merge"
  /\ i' = 1 /\ j' = 2
  /\ UNCHANGED <<program, instants, members, loops, a, b>>

-----------------------------------------------------------------------------
(* Merging.                                                                  *)

First(S) == CHOOSE l \in S : \A m \in S : Min(Flat(l)) <= Min(Flat(m))

(* get_first_callstack_instants: when the iterations of a loop start.  For a *)
(* hidden superloop, every n-th element of the list of its first subloop,    *)
(* voids included, n being the iterations of the superloop.                  *)
Starts(l) ==
  IF ~loops[l].hidden THEN instants[Min(loops[l].calls)]
  ELSE LET s   == loops[First(loops[l].subs)]
           ins == instants[Min(s.calls)]
           Index(t) == LET r == Place(ins, t) IN r + (r \div s.run) * s.gap
       IN {t \in ins : Index(t) % loops[l].iterations = 0}

(* A variant for checking: one iteration of l that holds a start of o will do. *)
is_subloop_once(l, o) ==
  \/ loops[l].iterations = loops[o].iterations
  \/ \E lo, up \in Starts(l) : \E t \in Starts(o) : lo < t /\ t < up

(* l.is_subloop(o): there is a start of o between any two starts of l.       *)
is_subloop(l, o) ==
  \/ loops[l].iterations = loops[o].iterations
  \/ LET sub    == Starts(o)
         bounds == Starts(l) \cup (IF Min(sub) < Min(Starts(l)) THEN {0} ELSE {})
     IN \A lo \in bounds :
          (\E up \in bounds : lo < up)
            => \E t \in sub : lo < t /\ \A up \in bounds : lo < up => t < up

(* A variant for checking: the iterations of the subloop are left alone.       *)
merge_undivided(l, o) ==
  IF loops[l].iterations = loops[o].iterations
  THEN [loops EXCEPT ![l].calls = @ \cup loops[o].calls,
                     ![l].subs  = @ \cup loops[o].subs,
                     ![o].merged = TRUE]
  ELSE [loops EXCEPT ![l].subs = @ \cup {o}, ![o].merged  = TRUE]

(* l.merge_with_subloop(o).                                                  *)
merge_with_subloop(l, o) ==
  IF loops[l].iterations = loops[o].iterations
  THEN [loops EXCEPT ![l].calls = @ \cup loops[o].calls,
                     ![l].subs  = @ \cup loops[o].subs,
                     ![o].merged = TRUE]
  ELSE [loops EXCEPT ![l].subs    = @ \cup {o},
                     ![o].divided = loops[l].iterations,
                     ![o].merged  = TRUE]

(* A variant for checking: the next cluster is first tried with itself.        *)
next_pair_from_itself ==
  IF b < Len(clusters[i]) THEN b' = b + 1 /\ UNCHANGED <<a, i, j>>
  ELSE /\ b' = 1
       /\ IF a < Len(clusters[j]) THEN a' = a + 1 /\ UNCHANGED <<i, j>>
          ELSE /\ a' = 1
               /\ IF j = Len(clusters) \/ \A o \in Range(clusters[i]) : loops'[o].merged
                  THEN i' = i + 1 /\ j' = i + 1
                  ELSE j' = j + 1 /\ UNCHANGED i

(* A variant for checking: the next cluster is tried with those before it.     *)
next_pair_from_first ==
  IF b < Len(clusters[i]) THEN b' = b + 1 /\ UNCHANGED <<a, i, j>>
  ELSE /\ b' = 1
       /\ IF a < Len(clusters[j]) THEN a' = a + 1 /\ UNCHANGED <<i, j>>
          ELSE /\ a' = 1
               /\ IF j = Len(clusters) \/ \A o \in Range(clusters[i]) : loops'[o].merged
                  THEN i' = i + 1 /\ j' = 1
                  ELSE j' = j + 1 /\ UNCHANGED i

(* The next pair of loops of clusters[j].merge(clusters[i]); after the last  *)
(* one, the next pair of clusters: cluster i is left when all of its loops   *)
(* have been merged, or when no cluster is left to merge it to.              *)
NextPair ==
  IF b < Len(clusters[i]) THEN b' = b + 1 /\ UNCHANGED <<a, i, j>>
  ELSE /\ b' = 1
       /\ IF a < Len(clusters[j]) THEN a' = a + 1 /\ UNCHANGED <<i, j>>
          ELSE /\ a' = 1
               /\ IF j = Len(clusters) \/ \A o \in Range(clusters[i]) : loops'[o].merged
                  THEN i' = i + 1 /\ j' = i + 2
                  ELSE j' = j + 1 /\ UNCHANGED i

MergeStep ==
  /\ phase = "merge" /\ i < Len(clusters)
  /\ LET l == clusters[j][a]
         o == clusters[i][b]
     IN loops' = IF ~loops[o].merged /\ is_subloop(l, o)
                 THEN merge_with_subloop(l, o) ELSE loops
  /\ NextPair
  /\ UNCHANGED <<program, instants, members, clusters, phase>>

(* What remains: the loops of the last cluster are the top level.            *)
EndMerge ==
  /\ phase = "merge" /\ i >= Len(clusters)
  /\ phase' = "done"
  /\ UNCHANGED <<program, instants, members, loops, clusters, i, j, a, b>>

TopLevel == Range(clusters[Len(clusters)])

Done == phase = "done" /\ UNCHANGED vars

Next == Generate \/ EndGenerate \/ PushStep \/ EndPush \/ MergeStep \/ EndMerge \/ Done

Spec == Init /\ [][Next]_vars /\ WF_vars(Next)

-----------------------------------------------------------------------------
(* Properties.                                                               *)

LoopType ==
  [calls : SUBSET Calls(program), subs : SUBSET DOMAIN loops, iterations : Nat \ {0},
   divided : Nat \ {0}, original : Nat \ {0}, hidden : BOOLEAN, merged : BOOLEAN,
   run : Nat, gap : Nat]

(* The shape of the loop objects and of the clusters that hold them, and the *)
(* positions of the nested for loops of merge_clusters.                      *)
TypeOK ==
  /\ phase \in {"generate", "push", "merge", "done"}
  /\ \A l \in DOMAIN loops : loops[l] \in LoopType
  /\ \A k \in DOMAIN clusters : Range(clusters[k]) \subseteq DOMAIN loops
  /\ phase = "push" => i \in 1 .. Len(clusters) /\ j \in 0 .. i - 1
  /\ phase = "merge" /\ i < Len(clusters)
       => /\ j \in i + 1 .. Len(clusters)
          /\ a \in DOMAIN clusters[j] /\ b \in DOMAIN clusters[i]

(* The loops that have not been merged into another one, and those in them.  *)
Roots == {l \in UNION {Range(clusters[k]) : k \in DOMAIN clusters} : ~loops[l].merged}

Nest(tops) ==
  LET In[l \in DOMAIN loops] == {l} \cup UNION {In[s] : s \in loops[l].subs}
  IN UNION {In[l] : l \in tops}

Holders(c, nest) == {l \in nest : c \in loops[l].calls}

(* What is lost: a superloop is removed from its cluster as soon as one of   *)
(* its subloops has been pushed away, with the callstacks of the others (the *)
(* TODO of cluster.py:169-171).                                              *)
Kept == UNION {Range(clusters[k]) : k \in DOMAIN clusters}
Lost == UNION {Flat(l) : l \in {m \in DOMAIN loops : loops[m].hidden /\ m \notin Kept}}

(* Pushing and merging move callstacks and loops between lists while these   *)
(* are walked: no other callstack of a cluster is ever dropped, none is held *)
(* by two loops, and no loop lies in two others (cluster.push_datacond,      *)
(* merge).                                                                   *)
EveryCallInOneLoop ==
  phase # "generate" =>
    LET nest == Nest(Roots) IN
    /\ \A c \in Calls(program) :
         Cardinality(Holders(c, nest)) = IF c \in Lost THEN 0 ELSE 1
    /\ \A l \in nest :
         Cardinality({m \in nest : l \in loops[m].subs}) = IF l \in Roots THEN 0 ELSE 1

(* A loop that has been merged is finished: no later step adds to it or      *)
(* divides its iterations again (loop.already_merged).                       *)
MergedLoopsStay ==
  [][\A l \in DOMAIN loops : loops[l].merged => loops'[l] = loops[l]]_vars

(* What the nest says of a call without condition - the product of the       *)
(* iterations of the loops around it - is how often it was executed, in      *)
(* every state, although iterations are divided as loops are merged.         *)
Times(f(_), S) ==
  MapThenFoldSet(LAMBDA x, y : x * y, 1, f, LAMBDA T : CHOOSE x \in T : TRUE, S)

IterationsReplayCalls ==
  phase # "generate" =>
    \A c \in Calls(program) \ Lost : program.every[c] = 1 =>
      LET nest == Nest(Roots)
          path == {m \in nest : Holders(c, Nest({m})) # {}}
      IN Times(LAMBDA l : loops[l].iterations, path)
           = Cardinality(instants[c]) * Times(LAMBDA l : loops[l].divided, path)

(* The loops of the program a loop object stands for, by its unconditional   *)
(* calls, and what is assumed of a program: one outermost loop; calls of its *)
(* own in every loop; conditional calls between two other calls of their     *)
(* loop; and no inner loops in loops that share a cluster.                   *)
OwnersOf(l) == {program.owner[c] : c \in {d \in loops[l].calls : program.every[d] = 1}}

OwnCalls(p, l) == {c \in Calls(p) : p.owner[c] = l /\ p.every[c] = 1}
OneNest(p) == \A l, m \in Loops(p) : p.parent[l] = 0 /\ p.parent[m] = 0 => l = m
Visible(p) == \A l \in Loops(p) : OwnCalls(p, l) # {}
Enclosed(p) == \A c \in Calls(p) : p.every[c] # 1 =>
                 \E d, e \in OwnCalls(p, p.owner[c]) : d < c /\ c < e
NoAliasedNests ==
  \A k \in DOMAIN members : \A c, d \in members[k] : program.owner[c] # program.owner[d] =>
    \A l \in Loops(program) : program.parent[l] # program.owner[c]

(* Loops are only related when the program relates them: a loop object holds *)
(* calls of one loop and lies in objects of loops around it.  Whether a loop *)
(* lies in another is guessed from instants alone (loop.is_subloop).         *)
NoFalseRelations ==
  phase # "generate" /\ OneNest(program) =>
    \A l \in Nest(Roots) :
      /\ Cardinality(OwnersOf(l)) <= 1
      /\ \A s \in loops[l].subs : \A x \in OwnersOf(l), y \in OwnersOf(s) :
           x \in Around(program, y)

(* The top level loops are the nest of the program: every call in its loop,  *)
(* every loop in its parent, with the trip counts of the source.             *)
NestEqualsProgram ==
  LET nest == Nest(TopLevel) IN
  /\ \A c \in Calls(program) : Holders(c, nest) # {}
  /\ \A l \in nest : \E m \in Loops(program) :
       /\ \A c \in loops[l].calls : program.owner[c] = m
       /\ loops[l].iterations = program.trips[m] * loops[l].divided
       /\ \A s \in loops[l].subs : \A c \in loops[s].calls :
            program.parent[program.owner[c]] = m

(* The methodology: the actual structure of the application has emerged      *)
(* (merge_clusters), under the assumptions above and if nothing was lost.    *)
StructureEmerges ==
  /\ phase = "done"
  /\ OneNest(program) /\ Visible(program) /\ Enclosed(program) /\ NoAliasedNests
  /\ Lost = {}
  => NestEqualsProgram

(* "This situation has been solved" (doc/main/chapters/methodology.tex:1405, *)
(* of calls under a data condition): it has emerged wherever the conditional *)
(* call stands.                                                              *)
DataConditionsSolved ==
  phase = "done" /\ OneNest(program) /\ Visible(program) => NestEqualsProgram

(* "what we have are the top level loops" (methodology.tex:617; the TODO of  *)
(* cluster.py:400-402 says what is missing): a loop that was not merged into *)
(* another one is among the results.                                         *)
UnmergedAreTopLevel == phase = "done" => Roots \subseteq TopLevel
=============================================================================
