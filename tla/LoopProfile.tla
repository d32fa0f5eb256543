----------------------------- MODULE LoopProfile -----------------------------
(***************************************************************************)
(* An instrumented program (LoopMonitor) together with the analysis of its *)
(* trace, pca-analysis/loop_parser.py, which rebuilds per loop the number  *)
(* of executions, of iterations, of sampled iterations and their hardware  *)
(* counters.  The parser keeps its stacks per task and a record only       *)
(* touches those of its own task, so one task stands for all.  Reading the *)
(* finished trace record by record is the same as handling each record as  *)
(* it is emitted.                                                          *)
(***************************************************************************)
EXTENDS LoopMonitor

CONSTANTS
  MpiCounters,  (* Extrae reads (and resets) the counters at MPI calls too    *)
  Recursion,    (* a loop may be entered while it is open                     *)
  MaxEntries,   (* bound: loop entries of a behaviour                         *)
  MaxWork       (* bound: work steps of a behaviour                           *)

ASSUME ProfileAssumption ==
  /\ MpiCounters \in BOOLEAN /\ Recursion \in BOOLEAN
  /\ MaxEntries \in Nat /\ MaxWork \in Nat

VARIABLES
  objs,        (* the objects of class loop that were created                 *)
  loop_stack,  (* indices into objs                                           *)
  iter_stack,  (* the open iterations, with the counter each accumulates      *)
  loop_hmap,   (* loop identifier -> index into objs, 0 for no entry          *)
  failed,      (* the parser raised IndexError                                *)
  pending,     (* the hardware counter: work since it was last read           *)
  entries,     (* loop entries so far (only to bound them)                    *)
  work,        (* history: work done so far                                   *)
  starts,      (* history: work at the start of each sampled open iteration   *)
  truth,       (* history: what really happened, per loop identifier          *)
  jumped       (* history: the program has executed a jump                    *)

parser   == <<objs, loop_stack, iter_stack, loop_hmap, failed>>
history  == <<work, starts, truth, jumped>>
profVars == <<vars, parser, pending, entries, history>>

LoopId == {Hash[l] : l \in Loop}

Total == [execs |-> 0, iters |-> 0, sampled |-> 0, work |-> 0]

(* Sums of what an object of class loop collects in its lists: init and fini  *)
(* (own: every duration was measured from the entry it ends), niters,         *)
(* iterations and their counters.                                             *)
NewLoop(id) ==
  [id |-> id, lastInit |-> 0, own |-> TRUE,
   execs |-> 0, iters |-> 0, sampled |-> 0, work |-> 0]

-----------------------------------------------------------------------------
(* The handlers of loop_parser.py, on the parser's state as a record.        *)

ParserState == [objs |-> objs, loops |-> loop_stack, iters |-> iter_stack,
                hmap |-> loop_hmap, failed |-> failed]

Raise(st) == [st EXCEPT !.failed = TRUE]

(* Bug variant: every execution of a loop gets an object of its own.         *)
loop_entry_always_new(st, id) ==
  [st EXCEPT !.objs  = Append(@, [NewLoop(id) EXCEPT !.lastInit = Len(st.loops)]),
             !.loops = Append(@, Len(st.objs) + 1)]

(* The entry takes the object of an earlier execution only from loop_hmap,   *)
(* which an object reaches at its first exit.                                *)
loop_entry(st, id) ==
  LET known == st.hmap[id] # 0
      o     == IF known THEN st.hmap[id] ELSE Len(st.objs) + 1
      os    == IF known THEN st.objs ELSE Append(st.objs, NewLoop(id))
  IN [st EXCEPT !.objs  = [os EXCEPT ![o].lastInit = Len(st.loops)],
                !.loops = Append(@, o)]

(* Bug variants: the top is read and not popped; the object is registered    *)
(* with an index that is one too large.                                      *)
loop_exit_reading_top(st) ==
  IF st.loops = <<>> THEN Raise(st)
  ELSE [st EXCEPT !.objs = [st.objs EXCEPT ![Last(st.loops)].execs = @ + 1],
                  !.hmap = [@ EXCEPT ![st.objs[Last(st.loops)].id] = Last(st.loops)]]

loop_exit_index_off(st) ==
  IF st.loops = <<>> THEN Raise(st)
  ELSE [st EXCEPT !.loops = Front(@),
                  !.hmap  = [@ EXCEPT ![st.objs[Last(st.loops)].id] = Last(st.loops) + 1]]

loop_exit(st) ==
  IF st.loops = <<>> THEN Raise(st)
  ELSE LET o  == Last(st.loops)
           id == st.objs[o].id
       IN [st EXCEPT
             !.loops = Front(@),
             !.objs  = [st.objs EXCEPT
                          ![o].execs = @ + 1,
                          ![o].own   = @ /\ st.objs[o].lastInit = Len(st.loops) - 1],
             !.hmap  = IF @[id] # 0 THEN @ ELSE [@ EXCEPT ![id] = o]]

loop_handler(st, e) == IF e.value # 0 THEN loop_entry(st, e.value) ELSE loop_exit(st)

(* Bug variant: only the innermost open iteration is updated.                *)
update_innermost(st, hwc) ==
  [st EXCEPT !.iters = [i \in DOMAIN @ |-> IF i = Len(@) THEN @[i] + hwc ELSE @[i]]]

(* Every open iteration accounts for the counter that came with the event.   *)
update(st, hwc) == [st EXCEPT !.iters = [i \in DOMAIN @ |-> @[i] + hwc]]

iter_handler(st, e, hwc) ==
  LET up == update(st, hwc) IN
  IF e.value # 0 THEN [up EXCEPT !.iters = Append(@, 0)]
  ELSE IF up.iters = <<>> \/ up.loops = <<>> THEN Raise(up)
  ELSE LET o == Last(up.loops)
       IN [up EXCEPT !.iters = Front(@),
                     !.objs  = [up.objs EXCEPT ![o].sampled = @ + 1,
                                               ![o].work    = @ + Last(up.iters)]]

niter_handler(st, e) ==
  IF st.loops = <<>> THEN Raise(st)
  ELSE [st EXCEPT !.objs = [st.objs EXCEPT ![Last(st.loops)].iters = @ + e.value]]

(* main's event_handler: one record per call of Extrae.                      *)
event_handler(st, e) ==
  CASE e.type = "LOOP"  -> loop_handler(st, e)
    [] e.type = "ITER"  -> iter_handler(st, e, pending)
    [] e.type = "NITER" -> niter_handler(st, e)
    [] OTHER            -> st

(* The trace is read in the order in which it was written.                   *)
AllHandled(st, events) ==
  LET upTo[n \in 0..Len(events)] ==
        IF n = 0 THEN st ELSE event_handler(upTo[n - 1], events[n])
  IN upTo[Len(events)]

Handled == AllHandled(ParserState, emitted')

Parse ==
  /\ objs'       = Handled.objs
  /\ loop_stack' = Handled.loops
  /\ iter_stack' = Handled.iters
  /\ loop_hmap'  = Handled.hmap
  /\ failed'     = Handled.failed

-----------------------------------------------------------------------------
(* Extrae_eventandcounters reads the counter and resets it; so does an MPI   *)
(* call if Extrae is configured to.                                          *)
CountersRead(mpi) ==
  \/ mpi /\ MpiCounters
  \/ \E i \in 1..Len(emitted') : emitted'[i].type = "ITER"

ReadCounters(mpi) == pending' = IF CountersRead(mpi) THEN 0 ELSE pending

(* What really happened, from the program's own state: a marked loop that is *)
(* left has made its iterations, a sampled iteration that ends its work.  No *)
(* account is kept after a jump.                                             *)
Emits(t, v) == \E i \in 1..Len(emitted') : emitted'[i].type = t /\ (emitted'[i].value # 0 <=> v)

RecordTruth ==
  LET id    == Hash[Last(loops).loop]
      began == ~jumped' /\ Emits("ITER", TRUE)
      ended == ~jumped' /\ Emits("ITER", FALSE) /\ starts # <<>>
      left  == ~jumped' /\ loops # <<>> /\ Emits("LOOP", FALSE)
  IN /\ truth' = CASE left  -> [truth EXCEPT ![id].execs = @ + 1,
                                             ![id].iters = @ + Last(loops).n]
                   [] ended -> [truth EXCEPT ![id].sampled = @ + 1,
                                             ![id].work    = @ + (work - Last(starts))]
                   [] OTHER -> truth
     /\ starts' = CASE began -> Append(starts, work)
                    [] ended -> Front(starts)
                    [] OTHER -> starts

(* A step of the program, the record it leaves in the trace, and its reading.*)
Observed(mpi) ==
  /\ ~failed
  /\ Parse
  /\ ReadCounters(mpi)
  /\ RecordTruth
  /\ UNCHANGED work

ProfEnter(l) ==
  /\ entries < MaxEntries
  /\ Recursion \/ \A i \in 1..Len(loops) : loops[i].loop # l
  /\ EnterLoop(l)
  /\ entries' = entries + 1
  /\ UNCHANGED jumped
  /\ Observed(FALSE)

ProfStep ==
  /\ \/ \E sampled \in {0, 1} : BeginIter(sampled)
     \/ EndIter
     \/ ExitLoop
  /\ UNCHANGED <<entries, jumped>>
  /\ Observed(FALSE)

ProfMpiCall ==
  /\ MpiCall
  /\ UNCHANGED <<entries, jumped>>
  /\ Observed(TRUE)

ProfJump ==
  /\ JumpStep
  /\ jumped' = TRUE
  /\ UNCHANGED entries
  /\ Observed(FALSE)

(* The program computes.  After a jump no account of the work is kept, so    *)
(* none is done.                                                             *)
Work ==
  /\ ~failed /\ ~crashed /\ ~atHeader /\ ~jumped
  /\ work < MaxWork
  /\ work' = work + 1
  /\ pending' = pending + 1
  /\ emitted' = <<>>
  /\ UNCHANGED <<program, library, trace_loops, trace_iters, parser,
                 entries, starts, truth, jumped>>

ProfInit ==
  /\ Init
  /\ objs = <<>>
  /\ loop_stack = <<>>
  /\ iter_stack = <<>>
  /\ loop_hmap = [id \in LoopId |-> 0]
  /\ failed = FALSE
  /\ pending = 0
  /\ entries = 0
  /\ work = 0
  /\ starts = <<>>
  /\ truth = [id \in LoopId |-> Total]
  /\ jumped = FALSE

ProfNext ==
  \/ \E l \in Loop : ProfEnter(l)
  \/ ProfStep
  \/ ProfMpiCall
  \/ ProfJump
  \/ Work

ProfSpec == ProfInit /\ [][ProfNext]_profVars

-----------------------------------------------------------------------------
ProfTypeOK ==
  /\ TypeOK
  /\ loop_stack \in Seq(1..Len(objs))
  /\ iter_stack \in Seq(Nat)
  /\ loop_hmap \in [LoopId -> 0..Len(objs)]
  /\ failed \in BOOLEAN /\ jumped \in BOOLEAN
  /\ pending \in 0..MaxWork /\ work \in 0..MaxWork /\ entries \in 0..MaxEntries
  /\ starts \in Seq(0..MaxWork)

(* The parser pops and reads the tops of its stacks without asking whether   *)
(* they are empty.  No program makes it fail: every exit event it meets has  *)
(* an open entry, whatever jumps left unclosed.                              *)
ParserNeverFails == ~failed

(* No event of the trace is closed before what it encloses: loops and        *)
(* iterations the parser holds open are those the program is in.             *)
ParserFollowsProgram ==
  IterMode /\ ~jumped =>
    /\ Len(loop_stack) = Len(trace_loops)
    /\ \A i \in 1..Len(loop_stack) : objs[loop_stack[i]].id = Hash[loops[i].loop]
    /\ Len(iter_stack) = Len(trace_iters)

Stats(id) == IF loop_hmap[id] = 0 THEN NewLoop(id) ELSE objs[loop_hmap[id]]

Open(id) == \E i \in 1..Len(loops) : Hash[loops[i].loop] = id

(* For a program without jumps and without re-entered loops, the statistics  *)
(* of a loop - executions and their durations, iterations, sampled           *)
(* iterations - are those of the marked executions that have ended.          *)
ProfileExact ==
  IterMode /\ ~jumped =>
    \A id \in LoopId : ~Open(id) =>
      /\ Stats(id).execs   = truth[id].execs
      /\ Stats(id).own
      /\ Stats(id).iters   = truth[id].iters
      /\ Stats(id).sampled = truth[id].sampled

(* loop_parser.py: update "is needed since extrae reset the HWC on every     *)
(* event": the counters of an iteration cover all the work done in it, the   *)
(* work of nested iterations included, unless they are also read at events   *)
(* that are not handled (MPI calls, with MpiCounters).                       *)
IterationCountersComplete ==
  IterMode /\ ~jumped /\ ~MpiCounters =>
    \A id \in LoopId : ~Open(id) => Stats(id).work = truth[id].work
=============================================================================
