----------------------------- MODULE LoopMonitor -----------------------------
(***************************************************************************)
(* The loop monitor that the Mercurium phase "loopsmonitors" weaves into a *)
(* program: the run-time library helper.c and the places where             *)
(* loop-visitor.cpp calls it.                                              *)
(*                                                                         *)
(* Every loop is surrounded by two sibling statements and, if iterations   *)
(* are instrumented, its body B becomes { iter_entry; B; iter_exit; }.     *)
(* So the program drives the library: a loop is entered, runs iterations   *)
(* and is left, and its body may contain loops, MPI calls and - for the    *)
(* programs that Jumps admits - a break, a continue or a return, which     *)
(* jump over the call the phase appended.                                  *)
(***************************************************************************)
EXTENDS Naturals, Sequences, SequencesExt

CONSTANTS
  Loop,       (* the loops of the program                                    *)
  Hash,       (* get_loop_hash: the 32-bit identifier of each loop           *)
  OnlyMpi,    (* phase parameter only_mpi: label MPI calls, not boundaries   *)
  WithIters,  (* phase parameter with_iters > 0: instrument iterations       *)
  Jumps,      (* the jump statements the loop bodies contain                 *)
  UIntMod,    (* 2^(width of unsigned int)                                   *)
  MaxDepth,   (* bound: open loops of the program                            *)
  MaxIters,   (* bound: iterations of one execution of a loop                *)
  MaxStack    (* bound: elements a stack of the library may accumulate       *)

ASSUME HashAssumption    == Hash \in [Loop -> Nat \ {0}]
ASSUME ModeAssumption    == OnlyMpi \in BOOLEAN /\ WithIters \in BOOLEAN
ASSUME JumpsAssumption   == Jumps \subseteq {"break", "continue", "return"}
ASSUME UIntAssumption    == UIntMod \in Nat \ {0, 1}
ASSUME BoundsAssumption  == MaxDepth \in Nat /\ MaxIters \in Nat /\ MaxStack \in Nat

VARIABLES
  loops,             (* program: the open loops, outermost first, each with  *)
                     (* the number of iterations it has started              *)
  atHeader,          (* program: the innermost open loop is between two      *)
                     (* iterations (FALSE: in a body, or outside any loop)   *)
  my_stack,          (* helper.c: identifiers of the loops, only_mpi mode    *)
  decission_stack,   (* helper.c: one 0/1 decision per open iteration        *)
  itercounter_stack, (* helper.c: one counter per open marked loop           *)
  crashed,           (* helper.c dereferenced a NULL top                     *)
  emitted,           (* the events the last step handed to Extrae            *)
  trace_loops,       (* history: LOOP events of the trace not yet closed     *)
  trace_iters        (* history: ITER events of the trace not yet closed     *)

program == <<loops, atHeader>>
library == <<my_stack, decission_stack, itercounter_stack, crashed>>
trace   == <<emitted, trace_loops, trace_iters>>
vars    == <<loops, atHeader, my_stack, decission_stack, itercounter_stack,
             crashed, emitted, trace_loops, trace_iters>>

(***************************************************************************)
(* Events.  Value 0 is EXTRAE_EXITEVENT.  A label event carries the level  *)
(* that helper_loopuid_stack_extrae_entry adds to EXTRAE_LOOPEVENT.        *)
(***************************************************************************)
Event(t, v)    == [type |-> t, level |-> 0, value |-> v]
Label(k, v)    == [type |-> "LABEL", level |-> k, value |-> v]
EventRecord    == [type : {"LOOP", "ITER", "NITER", "LABEL"}, level : Nat, value : Nat]

(* loopuidstack_pop: an empty stack is left alone and yields 0.  Otherwise   *)
(* the value passes through an unsigned int.                                 *)
Rest(s)   == IF s = <<>> THEN s ELSE Front(s)
Popped(s) == IF s = <<>> THEN 0 ELSE Last(s) % UIntMod

(* An entry event opens an element of the trace, an exit event closes the    *)
(* last one: the "Stacked" view of Paraver, and the stacks of loop_parser.py *)
Stacked(open, v) == IF v = 0 THEN Rest(open) ELSE Append(open, v)

-----------------------------------------------------------------------------
(* helper.c *)

(* What the open iteration decided; outside any iteration, instrument.       *)
TopDecision == IF decission_stack = <<>> THEN 1 ELSE Last(decission_stack)

helper_loopuid_push(l) ==
  /\ my_stack' = Append(my_stack, Hash[l])
  /\ emitted'  = <<>>
  /\ UNCHANGED <<decission_stack, itercounter_stack, crashed, trace_loops, trace_iters>>

(* Bug variant: the loop stays on the stack.                                 *)
loopuid_pop_forgotten == emitted' = <<>> /\ UNCHANGED <<library, trace_loops, trace_iters>>

helper_loopuid_pop ==
  /\ my_stack' = Rest(my_stack)
  /\ emitted'  = <<>>
  /\ UNCHANGED <<decission_stack, itercounter_stack, crashed, trace_loops, trace_iters>>

helper_loop_entry(l) ==
  /\ \/ /\ TopDecision # 0
        /\ emitted'           = <<Event("LOOP", Hash[l])>>
        /\ trace_loops'       = Stacked(trace_loops, Hash[l])
        /\ itercounter_stack' = Append(itercounter_stack, 0)
     \/ /\ TopDecision = 0
        /\ emitted' = <<>>
        /\ UNCHANGED <<trace_loops, itercounter_stack>>
  /\ UNCHANGED <<my_stack, decission_stack, crashed, trace_iters>>

(* Bug variants of helper_loop_exit: the counter stays on its stack; the     *)
(* count is fired after the exit event; the decision is not consulted when   *)
(* the counter is popped.                                                    *)
loop_exit_keeping_counter ==
  /\ emitted' = IF TopDecision = 0 THEN <<>>
                ELSE <<Event("NITER", Popped(itercounter_stack)), Event("LOOP", 0)>>
  /\ trace_loops' = IF TopDecision = 0 THEN trace_loops ELSE Stacked(trace_loops, 0)
  /\ UNCHANGED <<my_stack, decission_stack, itercounter_stack, crashed, trace_iters>>

loop_exit_before_niter ==
  /\ emitted' = IF TopDecision = 0 THEN <<>>
                ELSE <<Event("LOOP", 0), Event("NITER", Popped(itercounter_stack))>>
  /\ trace_loops' = IF TopDecision = 0 THEN trace_loops ELSE Stacked(trace_loops, 0)
  /\ itercounter_stack' = IF TopDecision = 0 THEN itercounter_stack ELSE Rest(itercounter_stack)
  /\ UNCHANGED <<my_stack, decission_stack, crashed, trace_iters>>

loop_exit_popping_always ==
  /\ itercounter_stack' = Rest(itercounter_stack)
  /\ emitted' = IF TopDecision = 0 THEN <<>>
                ELSE <<Event("NITER", Popped(itercounter_stack)), Event("LOOP", 0)>>
  /\ trace_loops' = IF TopDecision = 0 THEN trace_loops ELSE Stacked(trace_loops, 0)
  /\ UNCHANGED <<my_stack, decission_stack, crashed, trace_iters>>

helper_loop_exit ==
  /\ \/ /\ TopDecision # 0
        /\ itercounter_stack' = Rest(itercounter_stack)
        /\ emitted'     = <<Event("NITER", Popped(itercounter_stack)), Event("LOOP", 0)>>
        /\ trace_loops' = Stacked(trace_loops, 0)
     \/ /\ TopDecision = 0
        /\ emitted' = <<>>
        /\ UNCHANGED <<trace_loops, itercounter_stack>>
  /\ UNCHANGED <<my_stack, decission_stack, crashed, trace_iters>>

(* Bug variants of helper_loop_iter_entry: the counter is pushed in place of  *)
(* the decision; the decision of the parent is not AND-ed; the iteration is   *)
(* marked whatever was decided for the parent.                                *)
iter_entry_pushing_counter(sampled) ==
  /\ itercounter_stack # <<>>
  /\ LET n == Last(itercounter_stack) + TopDecision IN
       /\ itercounter_stack' = Append(Front(itercounter_stack), n)
       /\ decission_stack'   = Append(decission_stack, n * sampled)
  /\ emitted' = <<>>
  /\ UNCHANGED <<my_stack, crashed, trace_loops, trace_iters>>

iter_entry_without_parent(sampled) ==
  /\ decission_stack' = Append(decission_stack, sampled)
  /\ LET n      == Last(itercounter_stack) + 1
         counts == TopDecision # 0 /\ itercounter_stack # <<>>
         marks  == counts /\ sampled = 1
     IN /\ itercounter_stack' = IF counts THEN Append(Front(itercounter_stack), n)
                                ELSE itercounter_stack
        /\ emitted'     = IF marks THEN <<Event("ITER", n)>> ELSE <<>>
        /\ trace_iters' = IF marks THEN Stacked(trace_iters, n) ELSE trace_iters
  /\ UNCHANGED <<my_stack, crashed, trace_loops>>

iter_entry_marking_always(sampled) ==
  /\ itercounter_stack # <<>>
  /\ LET n == Last(itercounter_stack) + 1 IN
       /\ itercounter_stack' = Append(Front(itercounter_stack), n)
       /\ emitted'           = <<Event("ITER", n)>>
       /\ trace_iters'       = Stacked(trace_iters, n)
  /\ decission_stack' = Append(decission_stack, sampled * TopDecision)
  /\ UNCHANGED <<my_stack, crashed, trace_loops>>

(* "sampled" is the outcome of rand() < chance.  Under a parent iteration    *)
(* that is not instrumented nothing is counted and the decision is 0.        *)
helper_loop_iter_entry(sampled) ==
  /\ \/ /\ TopDecision = 0
        /\ decission_stack' = Append(decission_stack, 0)
        /\ emitted' = <<>>
        /\ UNCHANGED <<itercounter_stack, crashed, trace_iters>>
     \/ /\ TopDecision # 0
        /\ itercounter_stack # <<>>
        /\ LET n == Last(itercounter_stack) + 1 IN
             /\ itercounter_stack' = Append(Front(itercounter_stack), n)
             /\ emitted'     = IF sampled = 1 THEN <<Event("ITER", n)>> ELSE <<>>
             /\ trace_iters' = IF sampled = 1 THEN Stacked(trace_iters, n) ELSE trace_iters
        /\ decission_stack' = Append(decission_stack, sampled)
        /\ UNCHANGED crashed
     \/ /\ TopDecision # 0
        /\ itercounter_stack = <<>>
        /\ crashed' = TRUE
        /\ emitted' = <<>>
        /\ UNCHANGED <<decission_stack, itercounter_stack, trace_iters>>
  /\ UNCHANGED <<my_stack, trace_loops>>

(* Bug variant: the exit is marked whatever was decided at the entry.        *)
iter_exit_marking_always ==
  /\ decission_stack' = Rest(decission_stack)
  /\ emitted'         = <<Event("ITER", 0)>>
  /\ trace_iters'     = Stacked(trace_iters, 0)
  /\ UNCHANGED <<my_stack, itercounter_stack, crashed, trace_loops>>

helper_loop_iter_exit ==
  /\ decission_stack' = Rest(decission_stack)
  /\ \/ /\ Popped(decission_stack) # 0
        /\ emitted'     = <<Event("ITER", 0)>>
        /\ trace_iters' = Stacked(trace_iters, 0)
     \/ /\ Popped(decission_stack) = 0
        /\ emitted' = <<>>
        /\ UNCHANGED trace_iters
  /\ UNCHANGED <<my_stack, itercounter_stack, crashed, trace_loops>>

(* No call of the library: the phase inserted none, or a jump skipped it.    *)
NoCall == emitted' = <<>> /\ UNCHANGED <<library, trace_loops, trace_iters>>

-----------------------------------------------------------------------------
(* The instrumented program *)

LoopEntryCall(l) == IF OnlyMpi THEN helper_loopuid_push(l) ELSE helper_loop_entry(l)
LoopExitCall     == IF OnlyMpi THEN helper_loopuid_pop ELSE helper_loop_exit

EnterLoop(l) ==
  /\ ~crashed /\ ~atHeader
  /\ Len(loops) < MaxDepth
  /\ Len(itercounter_stack) < MaxStack /\ Len(my_stack) < MaxStack
  /\ loops' = Append(loops, [loop |-> l, n |-> 0])
  /\ atHeader' = TRUE
  /\ LoopEntryCall(l)

BeginIter(sampled) ==
  /\ ~crashed /\ atHeader
  /\ Last(loops).n < MaxIters
  /\ Len(decission_stack) < MaxStack
  /\ loops' = Append(Front(loops), [Last(loops) EXCEPT !.n = @ + 1])
  /\ atHeader' = FALSE
  /\ IF WithIters THEN helper_loop_iter_entry(sampled) ELSE NoCall

EndIter ==
  /\ ~crashed /\ ~atHeader /\ loops # <<>>
  /\ atHeader' = TRUE
  /\ UNCHANGED loops
  /\ IF WithIters THEN helper_loop_iter_exit ELSE NoCall

ExitLoop ==
  /\ ~crashed /\ atHeader
  /\ loops' = Front(loops)
  /\ atHeader' = FALSE
  /\ LoopExitCall

(* continue jumps over helper_loop_iter_exit.                                *)
Continue ==
  /\ "continue" \in Jumps
  /\ ~crashed /\ ~atHeader /\ loops # <<>>
  /\ atHeader' = TRUE
  /\ UNCHANGED loops
  /\ NoCall

(* break jumps over helper_loop_iter_exit, to the call appended to the loop. *)
Break ==
  /\ "break" \in Jumps
  /\ ~crashed /\ ~atHeader /\ loops # <<>>
  /\ loops' = Front(loops)
  /\ UNCHANGED atHeader
  /\ LoopExitCall

(* return leaves every loop of the function: the k outer ones are those of   *)
(* its callers.  It jumps over all the calls appended in the function.       *)
Return(k) ==
  /\ "return" \in Jumps
  /\ ~crashed /\ ~atHeader /\ k < Len(loops)
  /\ loops' = SubSeq(loops, 1, k)
  /\ UNCHANGED atHeader
  /\ NoCall

(* Bug variant: loopuidstack_tov reads the top of my_stack for every label.  *)
labels_of_the_innermost(s) ==
  [k \in 1..Len(s) |-> Label(k - 1, Last(s))] \o [k \in 1..Len(s) |-> Label(k - 1, 0)]

(* An MPI call between helper_loopuid_stack_extrae_entry and _exit: the      *)
(* labels, from the top of my_stack down, and the same events with value 0.  *)
(* So level 0 is the innermost loop, whatever loop-visitor.cpp:40 says.      *)
Labels(s) ==
  [k \in 1..Len(s) |-> Label(k - 1, s[Len(s) - k + 1])]
  \o [k \in 1..Len(s) |-> Label(k - 1, 0)]

MpiCall ==
  /\ ~crashed /\ ~atHeader
  /\ emitted' = Labels(my_stack)
  /\ UNCHANGED <<program, library, trace_loops, trace_iters>>

-----------------------------------------------------------------------------
Init ==
  /\ loops = <<>>
  /\ atHeader = FALSE
  /\ my_stack = <<>>
  /\ decission_stack = <<>>
  /\ itercounter_stack = <<>>
  /\ crashed = FALSE
  /\ emitted = <<>>
  /\ trace_loops = <<>>
  /\ trace_iters = <<>>

(* The steps of a program without jumps. *)
StructuredStep ==
  \/ \E l \in Loop : EnterLoop(l)
  \/ \E sampled \in {0, 1} : BeginIter(sampled)
  \/ EndIter
  \/ ExitLoop
  \/ MpiCall

JumpStep ==
  \/ Continue
  \/ Break
  \/ \E k \in 0..MaxDepth : Return(k)

Next == StructuredStep \/ JumpStep

Spec           == Init /\ [][Next]_vars
StructuredSpec == Init /\ [][StructuredStep]_vars

-----------------------------------------------------------------------------
ProgramOK ==
  /\ loops \in Seq([loop : Loop, n : Nat])
  /\ atHeader \in BOOLEAN
  /\ atHeader => loops # <<>>

LibraryOK ==
  /\ my_stack \in Seq(Nat)
  /\ decission_stack \in Seq({0, 1})
  /\ itercounter_stack \in Seq(Nat)
  /\ crashed \in BOOLEAN
  /\ emitted \in Seq(EventRecord)
  /\ trace_loops \in Seq(Nat)
  /\ trace_iters \in Seq(Nat)

(* The type invariant. *)
TypeOK == ProgramOK /\ LibraryOK

(* Iterations are marked: the mode the thesis uses for the PCA analysis.     *)
IterMode == WithIters /\ ~OnlyMpi

(* The number of iterations the program is in. *)
OpenIters == IF atHeader THEN Len(loops) - 1 ELSE Len(loops)

(* helper_loop_iter_entry increments the counter on top of itercounter_stack *)
(* without asking whether there is one.  Whatever breaks, continues and      *)
(* returns the program takes, there always is one.                           *)
NoNullCounter == ~crashed

(* "Nested loops will be instrumented depending on the decission taken for   *)
(* the parent iteration": no decision 1 is stacked on a decision 0, even     *)
(* when jumps have left decisions of dead iterations behind.                 *)
NestedDecisions ==
  \A i, j \in 1..Len(decission_stack) :
    i < j /\ decission_stack[j] = 1 => decission_stack[i] = 1

(* Why there always is one.  The decision stack had a height when each open  *)
(* loop was entered; what runs inside the loop, jumps included, never pops   *)
(* it below that - nor, inside an iteration, below that and its decision.    *)
(* A loop entered under no decision 0 has pushed a counter, which is still   *)
(* there.  The heights are in no variable, so they are guessed.              *)
HeightsAtEntry(height, open, inBody, decisions, counters) ==
  /\ \A j, k \in 1..open : j < k => height[j] < height[k]
  /\ open > 0 /\ inBody => height[open] < Len(decisions)
  /\ \A k \in 1..open : height[k] = 0 \/ decisions[height[k]] = 1 => k <= Len(counters)

EveryLoopKeepsItsCounter ==
  IterMode =>
    \E height \in [1..Len(loops) -> 0..Len(decission_stack)] :
      HeightsAtEntry(height, Len(loops), ~atHeader, decission_stack, itercounter_stack)

(* helper_loop_entry, _exit, _iter_entry and _iter_exit each consult the top *)
(* decision of the moment they run.  For a program without jumps the         *)
(* decisions they see agree: there is a decision per open iteration, sampled *)
(* ones outermost, a counter for exactly the loops all of whose enclosing    *)
(* iterations are sampled, and it holds that loop's own iterations.          *)
StacksFollowProgram ==
  IterMode =>
    LET s == Len(trace_iters) IN
    /\ Len(decission_stack) = OpenIters
    /\ s <= OpenIters
    /\ \A i \in 1..OpenIters : decission_stack[i] = IF i <= s THEN 1 ELSE 0
    /\ Len(itercounter_stack) = IF s < Len(loops) THEN s + 1 ELSE s
    /\ \A i \in 1..Len(itercounter_stack) : itercounter_stack[i] = loops[i].n

(* "For every loop entry and exit are marked", "for every instrumented       *)
(* iteration entry and exit are marked": what is open in the trace is what   *)
(* the program is in - the loops that have a counter, the sampled iterations.*)
TraceFollowsProgram ==
  IterMode =>
    /\ Len(trace_loops) = Len(itercounter_stack)
    /\ Len(trace_loops) <= Len(loops)
    /\ \A i \in 1..Len(trace_loops) : trace_loops[i] = Hash[loops[i].loop]
    /\ Len(trace_iters) <= OpenIters
    /\ \A i \in 1..Len(trace_iters) : trace_iters[i] = loops[i].n

(* "Before the exit event, the total number of iterations performed is fired *)
(* to trace": the number is that of the loop that is being left, and the     *)
(* LOOP event that follows it closes that loop.                              *)
NiterStep ==
  \A i \in 1..Len(emitted') :
    IterMode /\ emitted'[i].type = "NITER" =>
      /\ emitted'[i].value = Last(loops).n % UIntMod
      /\ i < Len(emitted') /\ emitted'[i+1] = Event("LOOP", 0)
      /\ trace_loops # <<>>
      /\ Last(trace_loops) = Hash[Last(loops).loop]

NiterOfTheLoopLeft == [][NiterStep]_vars

(* only_mpi mode: "on any instant the information about where the execution  *)
(* is in terms of loops or nested loops is available": an MPI call is        *)
(* labelled with all the loops that are open and no other.  The levels count *)
(* from the innermost loop; the comment of EXTRAE_LOOPEVENT has it increase  *)
(* "on every new nested level", as if they counted from the outermost.       *)
MpiLabelsAreTheOpenLoops ==
  [][MpiCall /\ OnlyMpi =>
       /\ Len(emitted') = 2 * Len(loops)
       /\ \A k \in 1..Len(loops) :
            emitted'[k] = Label(k - 1, Hash[loops[Len(loops) - k + 1].loop])]_vars

(* The inductive invariant behind the labels; a return inside a loop breaks  *)
(* it, since it skips helper_loopuid_pop.                                    *)
LabelsAvailableAtAnyInstant ==
  OnlyMpi => my_stack = [i \in 1..Len(loops) |-> Hash[loops[i].loop]]
=============================================================================
