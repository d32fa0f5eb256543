------------------------------ MODULE LoopTable ------------------------------
(***************************************************************************)
(* Mode only_mpi from the program to the analysis: the table of loop       *)
(* locations helper.c builds and turns into the labels of the trace, and   *)
(* the stack of loops callstacks_parser.py keeps from the events.          *)
(*                                                                         *)
(* loop-visitor.cpp finds MPI calls by their names: MPI_Initialized is an  *)
(* MPI_Init, and a function of the program whose name contains "mpi_" -    *)
(* here a wrapper - is an MPI call, with loops and MPI calls inside.       *)
(***************************************************************************)
EXTENDS LoopMonitor, FiniteSets

CONSTANTS
  Where,         (* the line of each loop and the address of its file's name *)
  HASHMAP_SIZE,  (* buckets of the table                                     *)
  MaxFrames      (* bound: wrappers open at a time                           *)

(* get_loop_hash computes the identifier from the line and the file's name.  *)
ASSUME TableAssumption ==
  /\ HASHMAP_SIZE \in Nat \ {0} /\ DOMAIN Where = Loop
  /\ \A l, m \in Loop : Where[l] = Where[m] => Hash[l] = Hash[m]
(* The mode, and programs that do not return from inside a loop.             *)
ASSUME ProgramAssumption == OnlyMpi /\ "return" \notin Jumps

VARIABLES
  mpi,                (* MPI, and so the tracing, is "off", "on" or "over"   *)
  frames,             (* program: open wrappers, by the loops open at their  *)
                      (* call                                                *)
  helper_initialized, loopid_hashmap,  (* helper.c; a bucket is its list     *)
  labels,             (* the values helper_fini gave a location              *)
  loop_stack,         (* callstacks_parser.py: the loops open in the trace   *)
  failed,             (* the parser popped from an empty list                *)
  traced,             (* history: the identifiers in the trace               *)
  dropped,            (* history: those of loops open when the table was     *)
                      (* cleared, and not entered again before MPI's end     *)
  init_frames         (* history: the frames MPI_Init was called in          *)

table    == <<helper_initialized, loopid_hashmap, labels, dropped>>
analysis == <<loop_stack, failed, traced>>
allvars  == <<vars, mpi, frames, table, analysis, init_frames>>

Bucket(l) == Hash[l] % HASHMAP_SIZE

-----------------------------------------------------------------------------
(* helper.c *)

(* Bug variant: the location is entered each time.                           *)
uid_always_new(l) ==
  loopid_hashmap' = [loopid_hashmap EXCEPT
                       ![Bucket(l)] = <<[where |-> Where[l], id |-> Hash[l]]>> \o @]

(* A location is looked for by its line and the address of its file name,    *)
(* and entered at the head of its bucket.  What is found is the hash of the  *)
(* loop (TableSound), which LoopMonitor pushes.                              *)
get_loop_uid(l) ==
  \/ /\ \E i \in DOMAIN loopid_hashmap[Bucket(l)] :
          loopid_hashmap[Bucket(l)][i].where = Where[l]
     /\ UNCHANGED loopid_hashmap
  \/ /\ \A i \in DOMAIN loopid_hashmap[Bucket(l)] :
          loopid_hashmap[Bucket(l)][i].where # Where[l]
     /\ loopid_hashmap' = [loopid_hashmap EXCEPT
                             ![Bucket(l)] = <<[where |-> Where[l], id |-> Hash[l]]>> \o @]

EmptyTable == [b \in 0..(HASHMAP_SIZE - 1) |-> <<>>]
OpenIds    == {Hash[loops[i].loop] : i \in DOMAIN loops}

(* Bug variant: every call clears the table.                                 *)
helper_init_each_time ==
  /\ helper_initialized' = TRUE
  /\ loopid_hashmap' = EmptyTable
  /\ dropped' = OpenIds
  /\ UNCHANGED labels

helper_init ==
  /\ helper_initialized' = TRUE
  /\ \/ ~helper_initialized /\ loopid_hashmap' = EmptyTable /\ dropped' = OpenIds
     \/ helper_initialized /\ UNCHANGED <<loopid_hashmap, dropped>>
  /\ UNCHANGED labels

helper_fini ==
  /\ labels' = labels \cup UNION {ToSet(loopid_hashmap[b]) : b \in DOMAIN loopid_hashmap}
  /\ UNCHANGED <<helper_initialized, loopid_hashmap, dropped>>

-----------------------------------------------------------------------------
(* callstacks_parser.py *)

(* Bug variant: exit events are ignored.                                     *)
loops_handler_entries(stack, events) ==
  stack \o SelectSeq([k \in DOMAIN events |-> events[k].value], LAMBDA v : v # 0)

(* The stacks the events lead to, one by one.                                *)
Stacks(stack, events) ==
  LET after[k \in 0..Len(events)] ==
        IF k = 0 THEN stack ELSE Stacked(after[k - 1], events[k].value)
  IN after

loops_handler(stack, events) == Stacks(stack, events)[Len(events)]

PopsNothing(stack, events) ==
  \E k \in 1..Len(events) : events[k].value = 0 /\ Stacks(stack, events)[k - 1] = <<>>

(* What the parser does with the events of the step, if they are traced.     *)
Parse(events) ==
  IF mpi = "on"
  THEN /\ loop_stack' = loops_handler(loop_stack, events)
       /\ failed' = (failed \/ PopsNothing(loop_stack, events))
       /\ traced' = traced \cup ({events[k].value : k \in DOMAIN events} \ {0})
  ELSE UNCHANGED <<loop_stack, failed, traced>>

-----------------------------------------------------------------------------
(* The instrumented program *)

(* The loops of a wrapper are those entered since it was called.             *)
CallerLoops == IF frames = <<>> THEN 0 ELSE Last(frames)

EnterNewLoop(l) ==
  /\ EnterLoop(l)
  /\ get_loop_uid(l)
  /\ dropped' = IF mpi = "over" THEN dropped ELSE dropped \ {Hash[l]}
  /\ UNCHANGED <<mpi, frames, helper_initialized, labels, analysis, init_frames>>

RunLoop ==
  /\ Len(loops) > CallerLoops
  /\ BeginIter(1) \/ EndIter \/ ExitLoop \/ Continue \/ Break
  /\ UNCHANGED <<mpi, frames, table, analysis, init_frames>>

CallMpi ==
  /\ mpi = "on"
  /\ MpiCall
  /\ Parse(Labels(my_stack))
  /\ UNCHANGED <<mpi, frames, table, init_frames>>

EntryLabels == SubSeq(Labels(my_stack), 1, Len(my_stack))
ExitLabels  == SubSeq(Labels(my_stack), Len(my_stack) + 1, 2 * Len(my_stack))

(* The loops of a callstack, made at the entry of a call, after its labels.  *)
loop_info == loops_handler(loop_stack, EntryLabels)

Emit(events) ==
  /\ emitted' = events
  /\ Parse(events)
  /\ UNCHANGED <<program, library, trace_loops, trace_iters>>

CallWrapper ==
  /\ ~atHeader /\ Len(frames) < MaxFrames
  /\ frames' = Append(frames, Len(loops))
  /\ Emit(EntryLabels)
  /\ UNCHANGED <<mpi, table, init_frames>>

LeaveWrapper ==
  /\ ~atHeader /\ frames # <<>> /\ Len(loops) = CallerLoops
  /\ frames' = Front(frames)
  /\ Emit(ExitLabels)
  /\ UNCHANGED <<mpi, table, init_frames>>

MPI_Init ==
  /\ ~atHeader /\ mpi = "off"
  /\ mpi' = "on" /\ init_frames' = frames
  /\ helper_init
  /\ Emit(<<>>) /\ UNCHANGED frames

MPI_Initialized ==
  /\ ~atHeader
  /\ helper_init
  /\ Emit(<<>>) /\ UNCHANGED <<mpi, frames, init_frames>>

MPI_Finalize ==
  /\ ~atHeader /\ mpi = "on"
  /\ mpi' = "over"
  /\ helper_fini
  /\ Emit(<<>>) /\ UNCHANGED <<frames, init_frames>>

MPI_Finalized ==
  /\ ~atHeader
  /\ helper_fini
  /\ Emit(<<>>) /\ UNCHANGED <<mpi, frames, init_frames>>

-----------------------------------------------------------------------------
TableInit ==
  /\ Init
  /\ mpi = "off" /\ frames = <<>> /\ init_frames = <<>>
  /\ helper_initialized = FALSE /\ loopid_hashmap = EmptyTable
  /\ labels = {} /\ dropped = {}
  /\ loop_stack = <<>> /\ failed = FALSE /\ traced = {}

TableNext ==
  \/ \E l \in Loop : EnterNewLoop(l)
  \/ RunLoop
  \/ CallMpi
  \/ CallWrapper \/ LeaveWrapper
  \/ MPI_Init \/ MPI_Initialized \/ MPI_Finalize \/ MPI_Finalized

TableSpec == TableInit /\ [][TableNext]_allvars

-----------------------------------------------------------------------------
(* A location is in the table once, in its bucket: helper_fini counts the    *)
(* entries of all buckets and names each of them to Extrae once.             *)
TableSound ==
  \A b \in DOMAIN loopid_hashmap : \A i, j \in DOMAIN loopid_hashmap[b] :
    LET e == loopid_hashmap[b][i] IN
    /\ e.id % HASHMAP_SIZE = b
    /\ \E l \in Loop : Where[l] = e.where /\ Hash[l] = e.id
    /\ e.where = loopid_hashmap[b][j].where => i = j

(* When MPI is finalized every loop of the trace has got its location, from  *)
(* whatever order of loops, MPI_Init and MPI_Initialized - except the loops  *)
(* that were open when the table was cleared and were not entered again.     *)
LabelsComplete ==
  mpi = "over" =>
    \A id \in traced \ dropped : \E e \in labels : e.id = id

(* A callstack made now would have the loops that are open now, innermost    *)
(* first; inside a wrapper they come after those open when it was called.    *)
LoopInfoIsTheOpenLoops ==
  mpi = "on" /\ ~atHeader /\ ~failed =>
    LET open == [k \in DOMAIN loops |-> Hash[loops[Len(loops) - k + 1].loop]]
        more == Len(loop_info) - Len(open)
    IN /\ more >= 0
       /\ SubSeq(loop_info, more + 1, Len(loop_info)) = open
       /\ frames = <<>> => more = 0

(* The events of every call and wrapper are balanced, so the parser never    *)
(* pops from an empty list - unless MPI was initialized in a wrapper that    *)
(* was called in a loop: only its exit is traced.                            *)
PopsAreBalanced == failed => \E i \in DOMAIN init_frames : init_frames[i] > 0
=============================================================================
