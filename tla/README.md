# A TLA+ model of the structure-detection toolchain

The repository detects the loop structure of an MPI program from one traced
execution. It has two ways to get there:

* **statistics**: the MPI calls of a Paraver trace are grouped by call path,
  clustered by how often they repeat, nested into loops by the times of their
  repetitions and printed as pseudo-code (`src/src/structure_detection`);
* **instrumentation**: a Mercurium phase inserts calls to a small run-time
  library at every loop, the library marks loops and iterations in the trace,
  and a script rebuilds per-loop profiles from it
  (`src/mcxx-2.1.0/src/tl/loopsmonitors`, `src/pca-analysis`).

## 1. Inventory

| Component | State it keeps | Operations | Talks to |
|---|---|---|---|
| Loop monitor library, `helper.c` | `my_stack`, `decission_stack`, `itercounter_stack`, table of loop locations | `helper_loop_entry/exit`, `helper_loop_iter_entry/exit`, `helper_loopuid_push/pop`, `..._stack_extrae_entry/exit`, `helper_init/fini` | called by the instrumented program, emits Extrae events |
| Instrumentation phase, `loop-visitor.cpp` | its three parameters | visits loops and MPI calls, inserts the calls above | decides which library calls run, and which a jump skips |
| Trace reader, `trace.py` | open files, PCF tables | `parse`: one callback per record | hands events and communications to a parser |
| Loop profile, `loop_parser.py` | per task: `loop_stack`, `iter_stack`, `loop_hmap` | `loop_handler`, `iter_handler`, `niter_handler` | callbacks of the trace reader |
| Callstack parser, `callstacks_parser.py`, `callstack.py` | per task: `callstack_pool`, three dictionaries by time and signature, `mpi_opened`, `burst_last`, `loop_stack` | `__comms_handler`, `__mpi_handler`, `__hwc_handler`, `__glop_handler`, `__loops_handler`, `merge`, `calc_reduce_info` | callbacks of the trace reader; its pool is the input of the clustering |
| Delta calculation, clustering | deltas, DBSCAN labels | numerical | assigns callstacks to clusters |
| Aliasing detection, `temp_matrix.py` | order of the instants of a cluster | `aliased`, `get_subloops`, `is_hidden_superloop` | called when loops are generated |
| Cluster merging, `cluster.py`, `loop.py` | loops of each cluster, `iterations`, `already_merged` | `run_loops_generation`, `push_datacond`, `merge`, `merge_clusters` | result: top level clusters |
| Rank blocks, `loop.py`, `pseudocode.py` | tree of loops and blocks of ranks | `compact_callstacks`, `group_into_conditional_rank_blocks`, `extract_common_callstack_r`, `hide_contiguous_callstacks`, `generate` | result: lines of pseudo-code |
| Interactive shell, `sdshell.py` | options of the view, the generated view, processes it starts | `do_pseudocode`, `do_clustering`, `do_quit`, `do_paraver` | regenerates the pseudo-code, signals Paraver |
| Multi-process reader, `trace_mp.py` | pipes and processes | `parse`, `_read_trace`, `_parse_records` | not imported by the tools any more |

What is hard here, and hard to test:

* **The library's calls come in an order the program chooses.** Whether an
  entry or exit is marked depends on the decision on top of a stack at that
  moment, the entry and the exit of a loop look at the stack independently, and
  `break`, `continue` and `return` skip some calls. Random sampling decides
  which stacks move at all.
* **The trace's records come in an order nobody chooses.** A communication may
  be read before, between or after the two calls it joins, while repetitions
  of the same call path are being merged.
* **Counters are reset by whoever reads them**, so a value belongs to the time
  since the previous record, and the handlers of one record depend on the flags
  they set for each other.
* **Loops are nested by mutation**: merging divides iteration counts in place,
  moves callstacks between loops and drops what did not fit.
* **The pseudo-code is read by its indentation.** Calls are factored out of
  blocks and repeated calls hidden entry by entry; whether what is left still
  says which ranks make which call is nowhere checked.
* **The processes of the multi-process reader wait for each other** over pipes
  that fill up, and a worker may die.

`PROJECT.json` lists these hazards at their lines with the properties that
cover them.

What makes each component correct:

* library: stacks agree with the program; what is marked as open is open; the
  count fired belongs to the loop left; MPI calls carry the open loops;
* loop profile: never reads an empty stack; per-loop statistics equal what ran;
* callstack parser: each message's size and partner reaches exactly the
  callstack of its call; counters go to the right interval;
* cluster merging: no callstack is duplicated, and none is lost but with a
  superloop whose subloop was pushed away; a nested loop really iterates inside
  its parent; iterations stay positive; a merged loop is finished;
* rank blocks: ranks of a block contain those of what is inside, no assertion
  fails; whoever reads the pseudo-code reads every call once, for exactly its
  ranks, in its loops and with its path;
* shell: the view shown is the one the options describe;
* multi-process reader: every chunk of lines is parsed once, by the worker
  whose turn it is, and the reader ends.

## 2. Modules

| Module | Models | Lines of code |
|---|---|---|
| `LoopMonitor` | `helper.c` driven by an instrumented program (`loop-visitor.cpp`) | helper.c 107-368, loop-visitor.cpp 144-302 |
| `MCLoopMonitor` | constants for TLC | |
| `LoopMonitorProofs` | theorems about `LoopMonitor` | |
| `LoopProfile` | `LoopMonitor` composed with `loop_parser.py` | loop_parser.py 74-169, 213-236 |
| `MCLoopProfile` | constants for TLC | |
| `LoopProfileProofs` | theorems about `LoopProfile` | |
| `CallstacksParser` | `callstacks_parser.py`, the online merge of `callstack.py`, the record order of `trace.py` | callstacks_parser.py 38-220, callstack.py 60-260, trace.py 64-86, 302-342 |
| `MCCallstacksParser` | constants for TLC | |
| `CallstacksParserProofs` | theorems about `CallstacksParser` | |
| `LoopNest` | the input of the analysis: programs of nested loops, the instants of their calls, the clusters made of them | callstack.py 225-232, cluster.py 276-328, structure_detection.py 221-255, and scikit-learn's DBSCAN |
| `ClusterMerge` | `cluster.py` and the merging methods of `loop.py`, for one rank and one delta | cluster.py 15-249, 341-404, loop.py 105-115, 309-589, temp_matrix.py 46-288 (its result) |
| `MCClusterMerge` | the programs TLC goes through | |
| `ClusterMergeProofs` | theorems about `ClusterMerge` | |
| `LoopTable` | `LoopMonitor` in mode `only_mpi` composed with the table of loop locations, `MPI_Init`/`MPI_Finalize` and the parser's stack of loops | helper.c 14-299, loop-visitor.cpp 180-338, callstacks_parser.py 84-218 |
| `MCLoopTable` | constants for TLC | |
| `LoopTableProofs` | theorems about `LoopTable` | |
| `RankBlocks` | compaction of ranks, nested conditional rank blocks | loop.py 168-307, 590-645, structure_detection.py 276-284 |
| `Pseudocode` | extends `RankBlocks`: common calls, hidden calls, the lines generated, and what a reader makes of them | loop.py 57-151, pseudocode.py 22-139, callstack.py 262-403 |
| `PseudocodeProofs` | theorems about `RankBlocks`, `Pseudocode` and `Shell` | |
| `MCPseudocode` | the bodies of loops TLC goes through | |
| `Shell` | commands and options of `sdshell.py` | sdshell.py 77-198, structure_detection.py 364-380 |
| `TraceReading` | abstract specification of the multi-process reader | |
| `TraceMp` | `trace_mp.py`: reader, workers, pipes; implements `TraceReading` | trace_mp.py 314-371 |
| `TraceMpProofs` | theorems about `TraceMp` | |
| `SequenceFacts` | lemmas about numbers and sequences that several proofs need | |

### LoopMonitor

The program is a stack of open loops (`loops`, each with the iterations it has
started) and a flag saying whether it is between two iterations or in a body.
Its actions are what a program with loops can do - `EnterLoop`, `BeginIter`,
`EndIter`, `ExitLoop`, `MpiCall` and, if `Jumps` admits them, `Continue`,
`Break` and `Return` - and each performs the library call the phase inserted
there, or none if the jump skips it. The library's three stacks are sequences
whose last element is the top; every `helper_*` operator is one C function.
`Hash` gives each loop its identifier; distinct loops may share one.
`rand() < chance` is a nondeterministic choice. `emitted` is the list of
events of the last step. `trace_loops` and `trace_iters` are histories: what a
reader who pushes on entry events and pops on exit events holds open.
A NULL top that is dereferenced sets `crashed` and stops the behaviour.

`Spec` allows all of `Jumps`, `StructuredSpec` none.

### LoopProfile

Adds the parser's state for one task (a record of another task touches nothing
of it), the hardware counter since it was last read (`pending`), and what
really happened (`truth`, `starts`, `work`), computed from the program's own
state. Each step of the program is followed in the same step by the parser's
handling of the events emitted: reading a finished trace record by record gives
the same states. `Work` is computation between events. No account of work is
kept after a jump (`jumped`); the behaviours themselves go on, and the
invariants about failures hold in them too.

### CallstacksParser

A task's calls alternate `Entry` and `Exit` records; `Comm` is a communication
record that names the entry of a send and the exit of a receive. Times are
call numbers of the task, as all that matters is which are equal. With `Split =
FALSE` records are in time order: a communication appears next to the entry of
its send and not after more of the receiver's calls have ended than the one it
belongs to. With `Split = TRUE` communications come after all events.
Sizes are the numbers of the messages, so no two are equal and a size in the
wrong place is visible; burst `k` does `2k` units of work and call `k` does
`2k+1`, so every counter value names the interval it was read from.

Up to `MaxMissing` records have no hardware counters. `burst_last` is None
until a record with counters was read, and again if the exit record of a call
has none; an entry then raises an exception. `Start` is a record with counters
before the first call of a task, as Extrae writes one when it starts, and may
or may not come. The two are the only ways a trace in one file makes the parser
fail (`NoCountersBefore`); of the records between two calls that have no MPI
event only this one is modelled, and one that comes later can only set
`burst_last`. What the pool holds as the counters of a repetition is not what
the record of that repetition says; `CountersAreOneRecordLate` states what it
is instead, so the property pins down the order in which the handlers of one
record run. It is the opposite of the comments of `callstacks_parser.py:129`
and `:132` and of `trace_parsing.py`, which is no longer called and attributes
the counters to the interval they belong to (section 3).

### LoopNest and ClusterMerge

`LoopNest` says what the analysis is given. A program is a record: the parent
of every loop, the loop of every call, trip counts, and for a call under a
condition the period with which the condition holds. `Instants` executes it:
an instant is a number with two digits per level, one for the place in the body
and one for the iteration, so the order of instants is the order of execution.
`SameCluster` is DBSCAN on repetitions and mean distance between repetitions
(or, `WithLoopInfo`, equality of loop ids), reduced to what it does to calls
that are repeated equally often; means are compared by cross multiplication.

`ClusterMerge` runs the three passes of `cluster.py` on that input, one
iteration of an innermost `for` per step:

* `Generate` is `run_loops_generation` of a cluster. Calls that alternate share
  a loop (`temp_matrix.get_subloops`); several loops in a cluster that recur
  are put under a hidden superloop. A loop object keeps `calls`, `subs` (the
  loops in it), `iterations` over `divided` (the code divides in place),
  `original` (`original_iterations`), `merged` (`already_merged`), and `run`
  and `gap`, which describe the void entries aliasing leaves in its calls'
  lists of instants.
* `PushStep` is `clusters[i].push_datacond(clusters[j])`, `EndPush` drops the
  clusters that were emptied.
* `MergeStep` is one pair of loops of `clusters[j].merge(clusters[i])`:
  `is_subloop` and `merge_with_subloop`; `NextPair` is the nest of `for` and
  `while` around it. `EndMerge` keeps the last cluster as `TopLevel`.

The items of a loop are kept sorted in program order by the code and no method
depends on anything else of their order, so sets stand for them.

`NestEqualsProgram` is the specification the passes are held to: the loops that
remain are the program's. `StructureEmerges` states for which programs they
are: one outermost loop, calls of its own in every loop, conditions between two
unconditional calls of their loop, and no inner loops inside loops that share a
cluster. Each assumption is needed; the runs that are violated and the hazards
at `loop.py:521` and `cluster.py:402` are what happens without it. An inner
loop of one of two aliased loops is put into the wrong one of them, or into
their superloop; a third inner loop beside two aliased ones is lost.
`NoFalseRelations` and `IterationsReplayCalls` need almost none of them: even
where the structure does not emerge nothing false is said of what is there.

The model was compared with the code: for every program of two enumerations,
about 5100 clustered by repetitions and 4700 by loop ids, `cluster.py`,
`loop.py`, `callstack.py` and `temp_matrix.py` were executed on the callstacks
`Instants` describes, with DBSCAN replaced by `SameCluster`, and the loops they
end with are those of the model in every one.

### LoopTable

Everything between the source line of a loop and the loop ids of a callstack.
The program of `LoopMonitor` runs in mode `only_mpi`, and calls `MPI_Init`,
`MPI_Initialized`, `MPI_Finalize` and `MPI_Finalized` anywhere. The phase finds
MPI calls by their names, so `MPI_Initialized` is an `MPI_Init` and a function
whose name contains `mpi_` is an MPI call: `CallWrapper` and `LeaveWrapper`
emit its labels, and loops and MPI calls lie inside. `loopid_hashmap` is the
table, a list per bucket; `get_loop_uid` looks a location up by its line and by
the *address* of its file name, so a loop of a header included twice is two
entries. `helper_init` clears the table once, `helper_fini` gives the contents
to Extrae (`labels`). `loop_stack` is the parser's stack, moved by the same
events in the same step while tracing is on.

### RankBlocks and Pseudocode

The initial state is what the merge of the ranks leaves: a loop with inner
loops, each a list of callstacks of single ranks in program order. `Compact`
and `Group` are `compact_callstacks` and
`group_into_conditional_rank_blocks` with `add_callstack`; the tree is a list
of entries, each after the entry it is in. `Beautify` is
`extract_common_callstack` and `hide_contiguous_callstacks`, `Generate` is the
pseudo-code of any ranks, with or without call paths. A line is its indentation
and what it says. `Beautify` raises an exception, and nothing is generated, if
the first item of a list is a block or loop whose callstacks have no common
call (`Raises`, the index of `loop.py:68`). `FailsWithoutCommonCall` says when
that is, in terms of the callstacks alone: if they do not all begin with the
same call, or one is the MPI call only. Callstacks recorded to less depth than
the program's do not begin with `main`.

The specification is a reader's: `WhatIsRead` goes through the lines as a
programmer does, by indentation, and collects each MPI call with the calls,
loops and conditions around it; `WhatIsDone` is the same of the program.
`EveryCallIsRead` says they agree without call paths, `PathsAreRead` that they
agree with call paths unless a call was hidden as a repetition of one in
another block; `ConditionsAreRead` drops that exception and is violated.

### Shell

`do_pseudocode` is one action with the order of the code: options are assigned
first, then the command is validated, reset, filtered, and the view is generated
only if something changed. An argument that is missing or no number
(`malformed`) is an exception that ends the shell where the code converts it:
the threshold's after the options before it were assigned (`sdshell.py:157`),
the ranks' after `default` was obeyed as well (`:173`), and not at all if the
command is rejected before. `asked`, `rejected` and `command` are histories for
the properties. `default wo-cs` is rejected after `wo-cs` was assigned, so options
and view disagree until a later command changes an option (`ViewIsCurrent`
excepts this); a `wo-cs` that follows it changes nothing and shows the old view
with call paths. `wo-cs` together with `w-burst-info`, in one command or in
two, is a TypeError that ends the shell, and so does a second `clustering`, or
the first one if clusters come from loop ids. `DiesOfBothOptions` says that no
command with well-formed arguments ends it otherwise.

### TraceMp and TraceReading

`TraceReading` is what the reader promises: chunks of lines are parsed once
each, every worker's in order; a worker that dies at a chunk loses it and those
that would follow; `returned` comes when nothing is left. `TraceMp` is the code:
a reader that fills a buffer and sends it to the worker whose turn it is over a
pipe that may be full, a `None` for each worker at the end, workers that
receive, parse line by line and die of a line that raises an exception, and the
joins. The refinement maps `parsed` to the chunks all of whose lines are
records and `lost` to the chunks after the line a worker died at; it is checked
as the property `ImplementsTraceReading`. Two facts about the code are part of
the model rather than of a property: the lines after the last whole chunk are
never sent, and no process closes its ends of the pipes, so a dead worker's
pipe fills and the reader waits forever (`EndsOrWaitsForTheDead`).

## 3. Runs

| Run | Module, specification | What it shows |
|---|---|---|
| `monitor_structured` | MCLoopMonitor, `StructuredSpec` | the stacks and the trace follow the program; the count fired is that of the loop left |
| `loop_table` | MCLoopTable, `TableSpec` | a location is in the table once; every loop of the trace gets its location; labels are balanced and the loops of a callstack are the open ones |
| `profile` | MCLoopProfile, `ProfSpec` | no NULL counter, nested decisions, the parser never fails with any jumps; without jumps statistics are exact |
| `callstacks` | MCCallstacksParser, `Spec` | sizes and partners are exact in every record order; counters are one record late; the parser fails only of an entry before which no record had counters |
| `callstacks_split` | MCCallstacksParser, `Spec` | *violated*: the parser does not fail on a split trace |
| `clusters` | MCClusterMerge, `Spec` | merging duplicates nothing and loses only the callstacks of a superloop removed with one of its subloops, never changes a merged loop, keeps the product of iterations equal to the number of executions, relates only loops the program relates, and ends with the program's nest |
| `clusters_split` | MCClusterMerge, `Spec` | *violated*: `methodology.tex:1405`, a conditional call is pushed into its loop wherever it stands; one at the edge of its loop is not (`loop.py:384`) |
| `clusters_top_level` | MCClusterMerge, `Spec` | *violated*: `cluster.py:400`, a cluster that was not merged is a result; of two successive loops one is lost |
| `pseudocode` | MCPseudocode, `Spec` | rank blocks nest; the pseudo-code of any ranks reads as what they execute; the analysis fails only of callstacks without a common first call |
| `pseudocode_conditions` | MCPseudocode, `Spec` | *violated*: `methodology.tex:711`, conditions show who executes what; a call hidden across blocks reads as if it were under the other block's condition |
| `shell` | Shell, `ShellSpec` | the cached view is current, `default` always gets the default view, with well-formed arguments the shell dies only of two options together and of the clustering |
| `trace_mp` | TraceMp, `Spec` | chunks are dealt in turn and without gap; the reader ends or waits for a dead worker; `TraceReading` is implemented |

Bounds. `MaxDepth` (open loops), `MaxIters` (iterations of one execution),
`MaxStack` (elements of a stack), `MaxEntries` (loop entries of a behaviour),
`MaxWork`, `MaxCalls`, `MaxComms`, `MaxMissing`, `MaxFrames`, `MaxLines`. Three
nested loops with a decision for each parent exercise every combination of
sampled and unsampled levels; a decision is only compared with the one on top
and AND-ed with one parent, so a fourth level repeats what the third shows (and
the proofs hold for any depth). `UIntMod = 3` in `monitor_structured` makes
counts wrap within four iterations. In `profile` two loops entered three times
give a loop that runs twice inside or after another, each time with or without
its iterations sampled. Three repetitions of a call path are needed to tell the
first merge, which makes a list of two, from later ones, which append;
`callstacks` has three, and one record without counters, which is enough to put
it at every place.

`loop_table` has two buckets and three loops in one of them, the third a copy
of the second (the same line and identifier, another address of the file
name); a wrapper open at a time and two open loops put MPI calls
inside and outside wrappers, wrappers inside and outside loops, and `MPI_Init`
in each of them.

`MCPrograms` (`clusters`) is every well-formed program with up to three loops
and four calls and trip counts 2 and 3, with four loops and four or five calls
and trip count 2, with three inner loops side by side and trip counts 2 and 3,
with one or two loops, five calls of which one is conditional, and trip counts 4
and 6, and with two inner loops side by side, four calls of which one is
conditional, and trip counts 2 and 4. Two trip counts are needed for loops that
are and that are not repeated equally often, four loops for three levels and a
loop next to them, or three aliased loops; a conditional call must be repeated
at least twice, and its loop has calls before and after it and an inner loop on
either side of it. The last family has a condition inside one of two aliased
loops, where pushing empties a subloop and its superloop goes with it.
`MaxDepth` is the deepest nest and `Base` more than any digit of an instant.

`pseudocode` takes up to four of six callstacks - calls in `main` and in a
function, a function called there, one inner loop, one call path that occurs
both in and outside it - and two callstacks recorded to less depth, which do not
begin with `main`, each alone and with one or two others, so that the analysis
may or may not fail with them; all executed by any non-empty sets out of three
ranks. Three ranks make chains of conditions two deep and sets that overlap
without containing each other. `RanksInOrder` is a `CONSTRAINT` that keeps one
of the initial states that differ only in the names of ranks; it looks at
nothing a step changes. `trace_mp` has three workers, chunks of two lines, pipes
of one message and every trace of up to 15 lines with no or one bad line: two
full rounds of the workers, an odd line at the end, and a chunk more than the
pipes and buffers hold. `shell` has two thresholds and two selections of ranks
and is otherwise unbounded.

`CHECK_DEADLOCK FALSE` is said where the system stops: the parsers when the
trace is read or an exception was raised, the pseudo-code when it is generated
or its analysis failed, the shell when it has quit or died, and the
multi-process reader when it has returned or waits for a dead worker, which
`EndsOrWaitsForTheDead` is about.

Fairness. The multi-process reader is the only component that waits. `Spec` of
`TraceMp` has weak fairness of the reading process, of each worker and of the
join: they are processes the operating system schedules, each has one action
enabled at a time, and a blocked `send` or `recv` stays possible once it is
possible, as a pipe has one writer and one reader. `ClusterMerge` is a
sequential program whose steps are bounded; its `Done` marks its regular end and
deadlock is checked.

`IterationCountersComplete` assumes that Extrae reads the counters only at the
events of the library (`MpiCounters = FALSE`). With `MpiCounters = TRUE` and
without that conjunct it is violated: work before an MPI call is in a record
`loop_parser.py` does not handle.

Disagreements between code and documents that no run states, because another
run stands for the same hazard or the document is not specific:

* `break` out of an iteration that was not sampled leaves the loop's exit
  unmarked (`appendices.tex:486` says every loop exit is marked), and `return`
  leaves the loops of a function on `my_stack` (`appendices.tex:600` says the
  loops are known at any instant). The theorems name the programs for which
  both hold; `profile` checks that no failure follows.
* With loop ids, two inner loops with equal trip counts become one
  (`loop.py:543`); `NoFalseRelations` excludes exactly that.
* A superloop is removed from its cluster as soon as one of its subloops has
  been emptied by pushing, with the callstacks of the others (`cluster.py:164`).
  The TODO of `cluster.py:169` says that it should be removed only if all have
  been; `Lost` is what is lost by it, and `EveryCallInOneLoop` says that it is
  all that is lost.
* The comment of `EXTRAE_LOOPEVENT` (`loop-visitor.cpp:40`) has the type of a
  label increase with every nested level, and `trace.py:122` takes what is added
  to it for the level of nesting. `helper.c:273` counts from the top of
  `my_stack`: the innermost loop is level 0, and a loop's level depends on what
  is inside it. No parser reads `nested_level`.
  `MpiLabelsAreTheOpenLoops` states the code's numbering; it is a finding of
  run `loop_table`.
* The comments of `callstacks_parser.py:129` and `:132` call what is
  stored with a call the counters of the call, and what `burst_last` keeps those
  of the burst, and `trace_parsing.py:381` assigns them so;
  `CountersAreOneRecordLate` states that a call has those of the burst before it
  and a burst those of the call before it. It is a
  finding of run `callstacks`.
* `wo-cs` after a rejected `default wo-cs` shows call paths (see Shell).
* With ranks selected, a call whose repetition was hidden because of a call of
  ranks not shown is missing from the view; `HidingIsVisible` excludes it.

## 4. Proofs

A run shows a property for the constants of its configuration, a theorem for
all that satisfy the assumptions of the modules. The theorems assume nothing
else unless it is said here. Each follows from an inductive invariant with one
lemma per action.

### LoopMonitorProofs

| Theorem | Statement |
|---|---|
| `TypeCorrect` | `Spec => []TypeOK` |
| `StacksCorrect` | `StructuredSpec => []StacksFollowProgram` |
| `TraceCorrect` | `StructuredSpec => []TraceFollowsProgram` |
| `NiterCorrect` | `StructuredSpec => NiterOfTheLoopLeft` |
| `NestedDecisionsCorrect` | `Spec => []NestedDecisions`, whatever jumps |
| `NoNullCounterCorrect` | unless `OnlyMpi` and `WithIters`, `Spec => []NoNullCounter`, whatever jumps |
| `LabelsCorrect` | if no body returns, `Spec => MpiLabelsAreTheOpenLoops` |

The argument for a program without jumps is one inductive invariant: `TypeOK`,
`StacksFollowProgram` and `TraceFollowsProgram` together. Neither of the last
two is inductive alone: the length of the counter stack is stated in terms of
the number of open ITER events, and that a loop exit closes the right LOOP
event needs the counter stack to have an element exactly for the loops that are
marked. For the labels the invariant is that `my_stack` holds the hashes of the
open loops in order; `return` is the one action that breaks it.
`NestedDecisions` is preserved because what is pushed is AND-ed with the top
and popping keeps a prefix.

With jumps neither stack follows the program any more: `continue` leaves
decisions behind, and `break` out of an iteration that was not sampled leaves a
counter. That the counter an iteration increments is still there follows from
something the state does not hold, the height of the decision stack when each
open loop was entered. `EveryLoopKeepsItsCounter` says heights exist, strictly
increasing with the open loops, such that a loop entered at height 0 or under a
decision of 1 has a counter on the stack, and that the innermost height is below
the stack's while an iteration is open; entering a loop appends a height, a jump
drops some, and nothing else removes what lies below. The mode left out is the
one the hazard at `loop-visitor.cpp:158` is about: with `OnlyMpi` no loop pushes
a counter and the first iteration dereferences NULL.

### LoopTableProofs

| Theorem | Statement |
|---|---|
| `TableCorrect` | `TableSpec => []TableSound` |
| `LabelsCompleteCorrect` | `TableSpec => []LabelsComplete` |
| `PopsBalancedCorrect` | `TableSpec => []PopsAreBalanced` |
| `LoopInfoCorrect` | `TableSpec => []LoopInfoIsTheOpenLoops` |

Two assumptions of `LoopTable` are used: the identifier of a loop is computed
from its line and file name (`get_loop_hash`), without which an entry found
could carry another loop's identifier, and the mode is `only_mpi` in programs
that do not return from inside a loop. `TableSound` is inductive with the type
of the table. `LabelsComplete` is about the state after `MPI_Finalize`, so it
needs what holds before: every open loop and every loop of the trace is in the
table or was dropped from it, `my_stack` is the path of open loops
(`LoopMonitorProofs`), and the table is not cleared once there is a trace.

The two theorems about the parser's stack share `BalanceInv`. While the parser
has not failed its stack is as high as the sum of the loops that were open at
the call of each wrapper, counting only the wrappers called since `MPI_Init`
(`StackOfFrames`). Leaving one of these removes what its call appended. Leaving
one called before `MPI_Init` removes what was never appended: the stack is
empty then, and the parser fails exactly if the wrapper was called in a loop.

### LoopProfileProofs

| Theorem | Statement |
|---|---|
| `ProfileTypes` | `ProfSpec => []ProfTypeOK` |
| `ParserReadsEveryTrace` | `ProfSpec => []ParserNeverFails`, whatever jumps |
| `ParserFollowsCorrect` | `ProfSpec => []ParserFollowsProgram` |
| `StatisticsCorrect` | if `Identified`, not `Recursion` and `MaxIters < UIntMod`, `ProfSpec => []ProfileExact` |
| `CountersCorrect` | under the same three, `ProfSpec => []IterationCountersComplete` |

The hypotheses are those of run `profile` and name what the profile cannot do:
tell loops apart that have one identifier, hold two executions of one loop that
are open at a time, and count past an unsigned int.

`ParserInv` puts the parser beside the library that writes its trace. The
objects on `loop_stack` are those of the open LOOP events, in order (`Follows`);
there are as many as counters on `itercounter_stack`; and the iterations marked
as open are the outermost decisions that are 1 (`Marked`), so that no exit is
marked but of something that is open. `GoodOrder` is the parser's own part: it
has not failed, and its stack and its dictionary hold objects, the dictionary
each under its identifier. A step of the program either emits nothing the parser
handles or marks one entry or exit (`Silent`, `MarksEntry`, `MarksExit`,
`MarksIterEntry`, `MarksIterExit`), which is what the parser reads. With
`break` and `continue` the invariant stands although the trace then holds
iterations open that the program has left. `FollowInv` adds the invariant of
`LoopMonitorProofs` as long as nothing jumped. `ExactInv` relates the objects to
the truth: a loop is open once at a time and within its bound of iterations
(`LoopsInv`), the object of an open loop, also one not yet in the dictionary,
accounts for what was read of it (`OpenExact`), the object of a loop that is
over for all of it (`ClosedExact`), and an element of `iter_stack`, what the
counter holds and the work before its iteration are together all the work done
(`StartsExact`). `ProfileExact` alone is not inductive, since it
says nothing of executions that are not over.

### CallstacksParserProofs

| Theorem | Statement |
|---|---|
| `ParserTypes` | `Spec => []TypeOK` |
| `PartnersCorrect` | `Spec => []PartnersExact` |
| `SizesCorrect` | `Spec => []SizesExact` |
| `LateCorrect` | `Spec => []CountersAreOneRecordLate` |
| `ParserFailsOnlyWithoutCounters` | unless `Split`, `Spec => []ParserNeverFails` |

`PartInv` is the invariant of the first two. `MapsInv` says what the four
dictionaries hold: the pool, the callstacks of calls that are over, by their
signatures; the two maps of entries and of exits, calls that no communication
has named yet; the last one, communications whose call was not read to its entry
or exit. `MessagesInv`: a call takes part in one communication, with two
different tasks. `PartnersInv`: a callstack of the pool has the partners of its
repetitions, that of an open call those it has sent to. The invariant holds for
every order of communications and calls that `Split` allows. That the parser
does not fail otherwise needs that `burst_last` is without counters only before
the first of them and after an exit without them (`BurstInv`), and that the last
call no communication has named yet has room for its size (`SizesInv`).

`ExactInv` adds to `PartInv` what the sizes need (`ValuesInv`). A callstack holds
the size of each message of its repetitions once (`Holds`); that is preserved
because the next place a size goes to is still empty (`Room`), which is not true
of every callstack: a send in a trace in one file has got its size before it is
merged, so its list fills up without the index moving. `Room` is claimed of
receives, and of all callstacks if the communications come last, and two facts
say that no other callstack takes a size once it is merged: a call named by a
communication is of its kind (`KindInv`), and in a split trace nothing happens
to the calls after the first communication (`SplitInv`). The size of a callstack
that was not merged is overwritten, so it has to stand for one call (`Single`).
The reduction's sum of the list is the sum of the set of messages by induction
over the length of the list (`TotalIsSum`), with the equations of the library's
`SumSet` derived in `SequenceFacts`.

`CountInv` is the invariant of the counters. A callstack of the pool holds what
`CountersAreOneRecordLate` says (`PoolLate`), also after an exception. As long
as none was raised, the open call has the counters of the burst before it and,
if its signature was seen before, the iteration that ends with it (`OpenLate`);
what a signature has accumulated is the work since the entry record of its last
repetition, which that record is not part of since the exit record sets it to
zero before it is added to (`AccInv`); and `burst_last` is the last exit record
(`RecordsInv`). Each handler adds one record to every sum (`SinceSteps`), and a
merge appends one value to each list that has its first (`PooledMerged`).

### PseudocodeProofs

| Theorem | Statement |
|---|---|
| `BlocksCorrect` | `Spec => []BlocksNest` |
| `PseudocodeTypes` | `Spec => []TypeOK` |
| `FailureNeedsNoCommonCall` | `Spec => [](stage = "failed" => NoCommonCall)` |
| `ShellTypes` | `ShellSpec => []ShellOK` |
| `ViewCorrect` | `ShellSpec => []ViewIsCurrent` |
| `DeathsCorrect` | `ShellSpec => []DiesOfBothOptions` |
| `DefaultCorrect` | `ShellSpec => DefaultIsDefault` |

The first three are for any finite set of ranks and any loop bodies that are
sequences of callstacks with calls (`SourceAssumption`); they do not need
`PlacesAssumption`. `BlocksInv` is the invariant: the list of an
inner loop has callstacks only, for all ranks of the loop together and no
others; in the list of the outer loop an inner loop stands for the ranks that
execute any of its callstacks; every item is executed by some rank and is a
callstack of the body (`Full`); and the tree is empty or nested (`Nested`) and
sound (`Sound`: each block or loop is followed by the first entry it holds).
`MergedFacts` establishes it and `CompactFacts` shows that compaction neither
adds nor loses ranks nor touches an inner loop. The work is in
`add_callstack`: `OpenInv` says what is known of the open blocks, each the last
item of the one before it, and `Innermost` that the last of them ends with a
callstack or a loop. The first makes the descent stop at the block that
`BlocksClosed` leaves innermost, the second is why a block opened there differs
from the one before it (`CallstackAdded`). A loop is put into the tree with the
blocks it was grouped into, whose entries keep their order and move by the
number of entries before them (`BodyFits`).

`TypeOK` needs more than types, for what all callstacks of a block have in
common is defined only if there is one. A sound tree has one in each of its
blocks and loops (`CallUnder`: going from a block to the first entry in it ends
at a callstack, and nothing else is the last entry). `add_callstack` opens a
block only to put something into it (`CallstackSound`); the one block it finds
empty, that of the whole loop, is filled by the first item, which is why the
lists must not be empty: that they are not is what `RanksOf(lists[0]) # {}`
carries through the merge and the compaction. Then what is hidden of a callstack
is a part of what it agrees in with another, and of no more calls than it has
(`HideFacts`), and the indentation, a recursion over the entries an entry is in
(`TabsFacts`), is a number for every line (`PseudoLines`). `PseudoInv` is the
invariant. The analysis may fail in `Beautify`, of a block or loop that is a
list's first item and has no common call. If all callstacks begin with one call
and none is that call alone, the first call is common to any of them
(`AgreeOnFirst`), so that such an item has none only if `NoCommonCall`. The
converse, that the analysis does fail then, is checked by TLC.

The theorems about the shell hold for any thresholds and selections of ranks
and for malformed arguments in any command: what they leave behind is never
shown, as the shell has ended.
`DefaultIsDefault` holds although `default` may find nothing to change and show
the view kept, and although the view kept may not be that of the options: the
invariant `RejectedLeavesAnOption` says the two never happen together.

### ClusterMergeProofs

| Theorem | Statement |
|---|---|
| `Invariance` | `Spec => []Inv`, the inductive invariant |
| `TypeCorrect` | `Spec => []TypeOK` |
| `NothingElseIsLost` | `Spec => []EveryCallInOneLoop` |
| `MergedLoopsAreFinished` | `Spec => MergedLoopsStay` |

for any programs that satisfy `ProgramsAssumption`: a program has callstacks,
finitely many, each executed at least once; every callstack has the label of
one cluster; and the subloops of a cluster do not overlap. The last two are what
DBSCAN and the ranges of rows of the aliasing matrix give. Nothing is assumed
of the instants or of how clusters are ordered, so the theorems hold for any
way of clustering.

`Inv` says different things before and while loops are merged. While they are
generated and pushed (`Unmerged`, `Partitioned`, `Filled`) every callstack is in
exactly one loop object, no loop lies in another one but the subloops in their
hidden superloop, which stands in the cluster for them (`KeptOK`), a loop that
was taken out of its cluster has no callstacks left, and a loop that is still
there has some. A loop outside all clusters that is not a superloop is thus
empty, so what is lost when pushing ends is what the removed superloops hold.
While loops are merged, those in the clusters and what lies in them are a forest
(`Tree`) in which every callstack that is not lost is held once (`Nesting`).
`Nest` is a recursive function over the loops; it is defined because a loop lies
in one of a later cluster or in the superloop of its own (`Rank`), and it is
equal to the least set of loops closed under `subs` (`NestLeast`), which is what
the steps are about: joining two roots, or putting one under the other, removes
one root and keeps the rest of the forest (`JoinedTree`, `NestedTree`).

`EveryCallInOneLoop` is not inductive: the step that puts loop `o` into loop `l`
must know that `l` has not been merged, for then it could lie in `o`.
`Merging` says why: the clusters are in the order of their numbers, and no loop
of a cluster after the `i`-th one has been merged. `MergedLoopsStay` follows from
the same two facts. That the positions of the four loops of `merge_clusters`
stay inside the lists needs that no cluster is empty any more (`EndPush` drops
those that are), or the first loop of the next cluster would not exist.

### TraceMpProofs

| Theorem | Statement |
|---|---|
| `ReaderTypes` | `Spec => []TypeOK` |
| `DealtInTurn` | `Spec => []ChunksAreDealtInTurn` |
| `ReadingImplemented` | `Spec => ImplementsTraceReading`: `TraceReading` is implemented |

for any numbers of workers, lines, chunk and pipe sizes and any bad lines.
`ReadingInv` is the invariant: what the pipes hold, what a worker has parsed
and what it has in its hands, put together, are the chunks dealt to it, in turn
(`ChunksAreDealtInTurn`); where the reader is between two chunks (`ReaderInv`);
a worker parses the line after the last it parsed (`WorkersInv`); and the
`None` of a worker is the last message of its pipe (`EndInv`). Without the last
a worker could end before the chunks that were sent to it.

### SequenceFacts

The prover cannot instantiate the induction rules of its library, as they take
a predicate. `SetInduction` gets induction from the well-foundedness of the
natural numbers, with a set in place of the predicate. With it the functions
that the models define by recursion over a list of events (`FlattenSeq`,
`Handled` of `LoopProfile`, `Stacks` of `LoopTable`) are shown to exist and to
satisfy their equations for lists of any length. The same is done for the sum
of a finite set, by induction over its size.

### What is only model-checked

* `IterationsReplayCalls`, `NoFalseRelations` and `StructureEmerges` of
  `ClusterMerge`. They compare the loops with the program that was executed, and
  follow from where the instants of one program's calls lie and how DBSCAN
  groups them: from arithmetic on numbers with two digits per loop of the nest
  and on mean distances, for nests of any depth. The inductive invariant above
  says nothing of instants, and for arbitrary instants the three are false.
* `Pseudocode` beyond its blocks, types and one direction of
  `FailsWithoutCommonCall`: `EveryCallIsRead` and `PathsAreRead` compare
  what a reader makes of all lines with the program.
* `EndsOrWaitsForTheDead`: liveness, out of the prover's reach.

## 5. Plan

Done: the statistics from the callstacks to the pseudo-code and its shell, the
instrumentation from the loop to the loop ids of a callstack and to the
profile, and the multi-process reader, with proofs of the library, the table,
the profile, the callstacks, the merging of clusters, the rank blocks, the shell
and the multi-process reader.
Left: `TempMatrix`, the columns and voids of a cluster whose calls are repeated
unequally often, whose results `ClusterMerge` takes as given; several ranks
and deltas in `ClusterMerge`.

## 6. Not modelled

The delta calculation is floating-point arithmetic; its result, which callstacks
share a delta, is an input of merging, and one delta is modelled. DBSCAN is
modelled by what it does to calls repeated equally often. In `ClusterMerge` all
calls of a cluster are repeated equally often (with loop ids: programs without
conditions), there is one rank, so `__ranks_level_merge` is the identity, and a
hidden superloop is never a subloop of another hidden superloop (the code would
slice a list with a float there and stop). The merge of the ranks appears as
the initial state of `RankBlocks`, whose loops have one level of inner loops.

The metrics of callstacks (`calc_metrics`) and the statistics over collected
lists are arithmetic; what a line says about sizes, partners and bursts, and
plotting and the GUI, are formatting. `do_paraver` drives an external process by
signals and by polling for its process id; nothing in the repository says what
Paraver answers. Of the phase, the walk over the syntax tree is Mercurium's, and
the pragma mode asserts false. In `trace_mp.py` nothing calls
`_program_callbacks` (it would never end: it does not look for the end of its
pipes), and of a split trace only the first file would be read.

`trace_parsing.py` and `callstack_distribution.py` are no longer called;
`callstack_alignement.py`, `cplex_interface.py` and `flowgraph.py` are not
reachable from the driver. Threads inside a process are not modelled although
the library's globals are not protected: the thesis instruments MPI processes.

By lines, nearly the whole repository is the Mercurium compiler
(`src/mcxx-2.1.0`, except `src/tl/loopsmonitors`), vendored and third-party:
more than 490000 lines of C and C++ beside about 1100 of the project's own C
and C++ and 6400 of Python. The models cover the latter; a share of
the former would say nothing about this system.
