-------------------------- MODULE LoopProfileProofs --------------------------
(***************************************************************************)
(* Proofs about the trace of an instrumented program and its analysis.     *)
(* With any jumps and any recursion the parser never reads the top of an   *)
(* empty stack, and without jumps it holds open what the program is in.    *)
(* Without recursion, and if no two loops share an identifier, what it has *)
(* collected of a loop is what happened.                                   *)
(***************************************************************************)
EXTENDS LoopProfile, LoopMonitorProofs, SequenceFacts

(* What the parser relies on: the facts about the library's stacks that hold *)
(* in every mode of the phase.                                               *)
MonitorInv ==
  /\ TypeOK
  /\ NestedDecisions
  /\ IterMode => CountersInv
  /\ OnlyMpi => decission_stack = <<>> /\ itercounter_stack = <<>>
  /\ ~WithIters => decission_stack = <<>>
  /\ ~WithIters /\ ~OnlyMpi => Len(loops) <= Len(itercounter_stack)

LEMMA MonitorFacts ==
  ASSUME MonitorInv
  PROVE  /\ Len(loops) \in Nat /\ loops \in Seq([loop : Loop, n : Nat])
         /\ Len(decission_stack) \in Nat /\ decission_stack \in Seq({0, 1})
         /\ Len(itercounter_stack) \in Nat /\ itercounter_stack \in Seq(Nat)
         /\ my_stack \in Seq(Nat) /\ trace_loops \in Seq(Nat) /\ trace_iters \in Seq(Nat)
         /\ atHeader \in BOOLEAN
         /\ atHeader \/ loops # <<>> => Len(loops) > 0 /\ loops # <<>>
         /\ Len(itercounter_stack) > 0 => itercounter_stack # <<>>
  BY LenProperties, EmptySeq DEF MonitorInv, TypeOK, ProgramOK, LibraryOK

LEMMA MonitorInit == Init => MonitorInv
  BY InitType, CountersInit, EmptySeq DEF Init, MonitorInv, NestedDecisions

LEMMA ReturnLength ==
  ASSUME NEW S, NEW s \in Seq(S), NEW k \in Nat, k < Len(s)
  PROVE  Len(SubSeq(s, 1, k)) = k
<1>1. \A i \in 1..k : i \in 1..Len(s)
  OBVIOUS
<1>2. \A i \in 1..Len(s) : s[i] \in S
  BY ElementOfSeq
<1>3. k \in Int /\ \A i \in 1..k : s[i] \in S
  BY <1>1, <1>2
<1>4. Len(SubSeq(s, 1, k)) = IF 1 <= k THEN k - 1 + 1 ELSE 0
  BY <1>3, SubSeqProperties
<1>5. QED
  BY <1>4

(* Without iterations no decision is ever taken: every loop is marked, and a *)
(* return leaves counters behind but takes none.                             *)
LEMMA EveryLoopIsMarked ==
  ASSUME MonitorInv, ~WithIters, ~OnlyMpi, [Next]_vars
  PROVE  decission_stack' = <<>> /\ Len(loops') <= Len(itercounter_stack')
<1>0. /\ Len(loops) \in Nat /\ Len(itercounter_stack) \in Nat /\ Len(loops) <= Len(itercounter_stack)
      /\ loops \in Seq([loop : Loop, n : Nat]) /\ itercounter_stack \in Seq(Nat)
      /\ decission_stack = <<>> /\ TopDecision # 0
      /\ atHeader \/ loops # <<>> => Len(loops) > 0 /\ loops # <<>>
      /\ Len(itercounter_stack) > 0 => itercounter_stack # <<>>
  BY MonitorFacts DEF MonitorInv, TopDecision
<1>1. ASSUME NEW l \in Loop, EnterLoop(l)
      PROVE  decission_stack' = <<>> /\ Len(loops') <= Len(itercounter_stack')
  <2>1. /\ loops' = Append(loops, [loop |-> l, n |-> 0]) /\ decission_stack' = decission_stack
        /\ itercounter_stack' = Append(itercounter_stack, 0)
    BY <1>0, <1>1 DEF EnterLoop, LoopEntryCall, helper_loop_entry
  <2>2. Len(loops') = Len(loops) + 1 /\ Len(itercounter_stack') = Len(itercounter_stack) + 1
    BY <1>0, <2>1, AppendProperties
  <2>3. QED
    BY <1>0, <2>1, <2>2
<1>2. ASSUME NEW sampled \in {0, 1}, BeginIter(sampled)
      PROVE  decission_stack' = <<>> /\ Len(loops') <= Len(itercounter_stack')
  <2>1. /\ loops' = Append(Front(loops), [Last(loops) EXCEPT !.n = @ + 1]) /\ loops # <<>>
        /\ decission_stack' = decission_stack /\ itercounter_stack' = itercounter_stack
    BY <1>0, <1>2 DEF BeginIter, NoCall, library
  <2>2. [Last(loops) EXCEPT !.n = @ + 1] \in [loop : Loop, n : Nat]
    BY <1>0, <2>1, LoopRecords
  <2>3. Len(loops') = Len(loops)
    BY <1>0, <2>1, <2>2, ReplaceLast
  <2>4. QED
    BY <1>0, <2>1, <2>3
<1>3. CASE EndIter \/ Continue \/ MpiCall \/ UNCHANGED vars
  BY <1>0, <1>3 DEF EndIter, Continue, MpiCall, NoCall, library, program, vars
<1>4. CASE ExitLoop \/ Break
  <2>1. /\ loops' = Front(loops) /\ loops # <<>> /\ Len(loops) > 0
        /\ decission_stack' = decission_stack /\ itercounter_stack' = Rest(itercounter_stack)
    BY <1>0, <1>4 DEF ExitLoop, Break, LoopExitCall, helper_loop_exit
  <2>2. Len(loops') = Len(loops) - 1
    BY <1>0, <2>1, FrontProperties
  <2>3. Len(itercounter_stack') = Len(itercounter_stack) - 1
    <3>1. itercounter_stack # <<>>
      BY <1>0, <2>1
    <3>2. Len(Front(itercounter_stack)) = Len(itercounter_stack) - 1
      BY <1>0, <3>1, FrontProperties
    <3>3. QED
      BY <2>1, <3>1, <3>2 DEF Rest
  <2>4. QED
    BY <1>0, <2>1, <2>2, <2>3
<1>5. ASSUME NEW k \in 0..MaxDepth, Return(k)
      PROVE  decission_stack' = <<>> /\ Len(loops') <= Len(itercounter_stack')
  <2>1. /\ k \in Nat /\ k < Len(loops) /\ loops' = SubSeq(loops, 1, k)
        /\ decission_stack' = decission_stack /\ itercounter_stack' = itercounter_stack
    BY <1>5, BoundsAssumption DEF Return, NoCall, library
  <2>2. Len(loops') = k
    BY <1>0, <2>1, ReturnLength
  <2>3. QED
    BY <1>0, <2>1, <2>2
<1>6. QED
  BY <1>1, <1>2, <1>3, <1>4, <1>5 DEF Next, StructuredStep, JumpStep

(* In only_mpi mode no loop pushes a counter; the first iteration that is    *)
(* instrumented stops the program before it has taken a decision.            *)
LEMMA NothingIsStacked ==
  ASSUME MonitorInv, OnlyMpi, [Next]_vars
  PROVE  decission_stack' = <<>> /\ itercounter_stack' = <<>>
<1>0. decission_stack = <<>> /\ itercounter_stack = <<>> /\ TopDecision # 0
  BY DEF MonitorInv, TopDecision
<1>1. StructuredStep => decission_stack' = <<>> /\ itercounter_stack' = <<>>
  BY <1>0 DEF StructuredStep, EnterLoop, BeginIter, EndIter, ExitLoop, MpiCall, LoopEntryCall,
       LoopExitCall, helper_loopuid_push, helper_loopuid_pop, helper_loop_iter_entry,
       helper_loop_iter_exit, NoCall, library, Rest
<1>2. JumpStep => decission_stack' = <<>> /\ itercounter_stack' = <<>>
  BY <1>0 DEF JumpStep, Continue, Break, Return, LoopExitCall, helper_loopuid_pop, NoCall, library
<1>3. QED
  BY <1>0, <1>1, <1>2 DEF Next, vars

LEMMA MonitorStep == MonitorInv /\ [Next]_vars => MonitorInv'
<1> SUFFICES ASSUME MonitorInv, [Next]_vars
             PROVE  MonitorInv'
  OBVIOUS
<1>1. TypeOK' /\ NestedDecisions'
  BY TypeStep, NestedStep DEF MonitorInv
<1>2. IterMode => CountersInv'
  BY CountersStep DEF MonitorInv
<1>3. OnlyMpi => decission_stack' = <<>> /\ itercounter_stack' = <<>>
  BY NothingIsStacked
<1>4. ~WithIters => decission_stack' = <<>>
  BY <1>3, EveryLoopIsMarked
<1>5. ~WithIters /\ ~OnlyMpi => Len(loops') <= Len(itercounter_stack')
  BY EveryLoopIsMarked
<1>6. IterMode' = IterMode
  BY DEF IterMode
<1>7. QED
  BY <1>1, <1>2, <1>3, <1>4, <1>5, <1>6 DEF MonitorInv

-----------------------------------------------------------------------------
(* What the steps of the program leave in the trace.                         *)

(* Nothing, or the labels of an MPI call.                                    *)
Silent ==
  /\ emitted' \in Seq(EventRecord)
  /\ \A i \in 1..Len(emitted') : emitted'[i].type = "LABEL"
  /\ trace_loops' = trace_loops /\ trace_iters' = trace_iters
  /\ Len(itercounter_stack') = Len(itercounter_stack)
  /\ \/ decission_stack' = decission_stack
     \/ decission_stack' = Rest(decission_stack) /\ Popped(decission_stack) = 0
     \/ decission_stack' = Append(decission_stack, 0)

MarksEntry(l) ==
  /\ emitted' = <<Event("LOOP", Hash[l])>>
  /\ trace_loops' = Append(trace_loops, Hash[l]) /\ trace_iters' = trace_iters
  /\ itercounter_stack' = Append(itercounter_stack, 0)
  /\ decission_stack' = decission_stack
  /\ loops' = Append(loops, [loop |-> l, n |-> 0])

MarksExit ==
  /\ itercounter_stack # <<>> /\ loops # <<>> /\ TopDecision # 0
  /\ emitted' = <<Event("NITER", Popped(itercounter_stack)), Event("LOOP", 0)>>
  /\ trace_loops' = Rest(trace_loops) /\ trace_iters' = trace_iters
  /\ itercounter_stack' = Rest(itercounter_stack)
  /\ decission_stack' = decission_stack
  /\ loops' = Front(loops)

MarksIterEntry(n) ==
  /\ itercounter_stack # <<>> /\ TopDecision # 0
  /\ emitted' = <<Event("ITER", n)>>
  /\ trace_loops' = trace_loops /\ trace_iters' = Append(trace_iters, n)
  /\ Len(itercounter_stack') = Len(itercounter_stack)
  /\ decission_stack' = Append(decission_stack, 1)

MarksIterExit ==
  /\ itercounter_stack # <<>> /\ TopDecision # 0
  /\ decission_stack # <<>> /\ Popped(decission_stack) # 0
  /\ emitted' = <<Event("ITER", 0)>>
  /\ trace_loops' = trace_loops /\ trace_iters' = Rest(trace_iters)
  /\ itercounter_stack' = itercounter_stack
  /\ decission_stack' = Rest(decission_stack)
  /\ UNCHANGED loops

(* Where a decision 0 is not on top, the innermost open loop has a counter.  *)
LEMMA OpenLoopHasCounter ==
  ASSUME MonitorInv, ~OnlyMpi, TopDecision # 0, loops # <<>>
  PROVE  itercounter_stack # <<>>
<1>1. Len(loops) > 0 /\ Len(loops) \in Nat /\ Len(itercounter_stack) \in Nat
  BY MonitorFacts
<1>2. Len(loops) <= Len(itercounter_stack)
  <2>1. IterMode => CountersInv
    BY DEF MonitorInv
  <2>2. IterMode => Len(loops) <= Len(itercounter_stack)
    BY <2>1, OpenLoopsAreCounted
  <2>3. ~IterMode => Len(loops) <= Len(itercounter_stack)
    BY ModeAssumption DEF MonitorInv, IterMode
  <2>4. QED
    BY <2>2, <2>3
<1>3. Len(itercounter_stack) > 0
  BY <1>1, <1>2
<1>4. QED
  BY <1>3, EmptySeq

LEMMA NothingMarked ==
  ASSUME emitted' = <<>>, trace_loops' = trace_loops, trace_iters' = trace_iters,
         Len(itercounter_stack') = Len(itercounter_stack),
         \/ decission_stack' = decission_stack
         \/ decission_stack' = Rest(decission_stack) /\ Popped(decission_stack) = 0
         \/ decission_stack' = Append(decission_stack, 0)
  PROVE  Silent
<1>1. <<>> \in Seq(EventRecord) /\ Len(<<>>) = 0
  BY EmptySeq
<1>2. QED
  BY <1>1 DEF Silent

LEMMA EntryMarks ==
  ASSUME MonitorInv, NEW l \in Loop, EnterLoop(l)
  PROVE  Silent \/ MarksEntry(l)
<1>1. CASE OnlyMpi
  <2>1. helper_loopuid_push(l)
    BY <1>1 DEF EnterLoop, LoopEntryCall
  <2>2. QED
    BY <2>1, NothingMarked DEF helper_loopuid_push
<1>2. CASE ~OnlyMpi
  <2>1. helper_loop_entry(l) /\ loops' = Append(loops, [loop |-> l, n |-> 0])
    BY <1>2 DEF EnterLoop, LoopEntryCall
  <2>2. CASE TopDecision = 0
    BY <2>1, <2>2, NothingMarked DEF helper_loop_entry
  <2>3. CASE TopDecision # 0
    <3>1. Stacked(trace_loops, Hash[l]) = Append(trace_loops, Hash[l])
      BY HashAssumption DEF Stacked
    <3>2. QED
      BY <2>1, <2>3, <3>1 DEF helper_loop_entry, MarksEntry
  <2>4. QED
    BY <2>2, <2>3
<1>3. QED
  BY <1>1, <1>2

LEMMA ExitMarks ==
  ASSUME MonitorInv, ExitLoop \/ Break
  PROVE  Silent \/ MarksExit
<1>1. loops # <<>> /\ loops' = Front(loops) /\ LoopExitCall
  BY MonitorFacts DEF ExitLoop, Break
<1>2. CASE OnlyMpi
  BY <1>1, <1>2, NothingMarked DEF LoopExitCall, helper_loopuid_pop
<1>3. CASE ~OnlyMpi /\ TopDecision = 0
  BY <1>1, <1>3, NothingMarked DEF LoopExitCall, helper_loop_exit
<1>4. CASE ~OnlyMpi /\ TopDecision # 0
  <2>1. itercounter_stack # <<>>
    BY <1>1, <1>4, OpenLoopHasCounter
  <2>2. Stacked(trace_loops, 0) = Rest(trace_loops)
    BY DEF Stacked
  <2>3. QED
    BY <1>1, <1>4, <2>1, <2>2 DEF LoopExitCall, helper_loop_exit, MarksExit
<1>5. QED
  BY <1>2, <1>3, <1>4

LEMMA IterEntryMarks ==
  ASSUME MonitorInv, NEW sampled \in {0, 1}, BeginIter(sampled)
  PROVE  Silent \/ \E n \in Nat \ {0} : MarksIterEntry(n)
<1>1. CASE ~WithIters
  BY <1>1, NothingMarked DEF BeginIter, NoCall, library
<1>2. CASE WithIters
  <2>1. helper_loop_iter_entry(sampled)
    BY <1>2 DEF BeginIter
  <2>2. CASE TopDecision = 0
    BY <2>1, <2>2, NothingMarked DEF helper_loop_iter_entry
  <2>3. CASE TopDecision # 0 /\ itercounter_stack = <<>>
    BY <2>1, <2>3, NothingMarked DEF helper_loop_iter_entry
  <2>4. CASE TopDecision # 0 /\ itercounter_stack # <<>>
    <3> DEFINE n == Last(itercounter_stack) + 1
    <3>1. Last(itercounter_stack) \in Nat
      BY <2>4, NatStacks, MonitorFacts
    <3>2. n \in Nat \ {0} /\ n \in Nat
      BY <3>1
    <3>3. itercounter_stack' = Append(Front(itercounter_stack), n)
      BY <2>1, <2>4 DEF helper_loop_iter_entry
    <3>4. Len(itercounter_stack') = Len(itercounter_stack)
      BY <2>4, <3>2, <3>3, ReplaceLast, MonitorFacts
    <3>5. CASE sampled = 0
      BY <2>1, <2>4, <3>4, <3>5, NothingMarked DEF helper_loop_iter_entry
    <3>6. CASE sampled = 1
      <4>1. Stacked(trace_iters, n) = Append(trace_iters, n)
        BY <3>2 DEF Stacked
      <4>2. MarksIterEntry(n)
        BY <2>1, <2>4, <3>4, <3>6, <4>1 DEF helper_loop_iter_entry, MarksIterEntry
      <4>3. QED
        BY <3>2, <4>2
    <3>7. QED
      BY <3>5, <3>6
  <2>5. QED
    BY <2>2, <2>3, <2>4
<1>3. QED
  BY <1>1, <1>2

LEMMA IterExitMarks ==
  ASSUME MonitorInv, EndIter
  PROVE  Silent \/ MarksIterExit
<1>1. CASE ~WithIters
  BY <1>1, NothingMarked DEF EndIter, NoCall, library
<1>2. CASE WithIters
  <2>1. helper_loop_iter_exit /\ loops # <<>> /\ loops' = loops
    BY <1>2 DEF EndIter
  <2>2. CASE Popped(decission_stack) = 0
    BY <2>1, <2>2, NothingMarked DEF helper_loop_iter_exit
  <2>3. CASE Popped(decission_stack) # 0
    <3>1. decission_stack # <<>>
      BY <2>3 DEF Popped
    <3>2. TopDecision # 0
      <4>1. Popped(decission_stack) = TopDecision % UIntMod
        BY <3>1 DEF Popped, TopDecision
      <4>2. 0 % UIntMod = 0
        BY UIntAssumption
      <4>3. QED
        BY <2>3, <4>1, <4>2
    <3>3. itercounter_stack # <<>>
      BY <2>1, <3>1, <3>2, OpenLoopHasCounter DEF MonitorInv
    <3>4. Stacked(trace_iters, 0) = Rest(trace_iters)
      BY DEF Stacked
    <3>5. QED
      BY <2>1, <2>3, <3>1, <3>2, <3>3, <3>4 DEF helper_loop_iter_exit, MarksIterExit
  <2>4. QED
    BY <2>2, <2>3
<1>3. QED
  BY <1>1, <1>2

(* A label is no event of the parser.                                        *)
LEMMA LabelTypes ==
  ASSUME NEW s \in Seq(Nat)
  PROVE  \A i \in 1..Len(Labels(s)) : Labels(s)[i].type = "LABEL"
<1> DEFINE n   == Len(s)
           on  == [k \in 1..n |-> Label(k - 1, s[n - k + 1])]
           off == [k \in 1..n |-> Label(k - 1, 0)]
           Lab == [type : {"LABEL"}, level : Nat, value : Nat]
<1>1. n \in Nat
  BY LenProperties
<1>2. on \in Seq(Lab) /\ off \in Seq(Lab)
  <2>1. ASSUME NEW k \in 1..n
        PROVE  Label(k - 1, s[n - k + 1]) \in Lab /\ Label(k - 1, 0) \in Lab
    <3>1. k - 1 \in Nat /\ n - k + 1 \in 1..n
      BY <1>1, <2>1
    <3>2. s[n - k + 1] \in Nat
      BY <3>1, ElementOfSeq
    <3>3. QED
      BY <3>1, <3>2 DEF Label
  <2>2. QED
    BY <1>1, <2>1, IsASeq
<1>3. Labels(s) = on \o off
  BY DEF Labels
<1> HIDE DEF on, off, Lab
<1>4. on \o off \in Seq(Lab)
  BY <1>2, ConcatProperties
<1>5. \A i \in 1..Len(on \o off) : (on \o off)[i] \in Lab
  BY <1>4, ElementOfSeq
<1>6. QED
  BY <1>3, <1>5 DEF Lab

LEMMA Marks ==
  ASSUME MonitorInv, Next
  PROVE  \/ Silent \/ MarksExit \/ MarksIterExit
         \/ \E l \in Loop : MarksEntry(l)
         \/ \E n \in Nat \ {0} : MarksIterEntry(n)
<1>1. MpiCall => Silent
  <2> SUFFICES ASSUME MpiCall
               PROVE  Silent
    OBVIOUS
  <2>1. emitted' = Labels(my_stack)
    BY DEF MpiCall
  <2>2. Labels(my_stack) \in Seq(EventRecord) /\ my_stack \in Seq(Nat)
    BY MonitorFacts, LabelsType
  <2>3. QED
    BY <2>1, <2>2, LabelTypes DEF MpiCall, library, Silent
<1>2. Continue \/ (\E k \in 0..MaxDepth : Return(k)) => Silent
  BY NothingMarked DEF Continue, Return, NoCall, library
<1>3. QED
  BY <1>1, <1>2, EntryMarks, ExitMarks, IterEntryMarks, IterExitMarks
  DEF Next, StructuredStep, JumpStep
-----------------------------------------------------------------------------
(* Reading a record: the events are handled one after the other.             *)
Handling(f, st, events, last) ==
  f = [n \in 0..last |-> IF n = 0 THEN st ELSE event_handler(f[n - 1], events[n])]

LEMMA HandlingAt ==
  ASSUME NEW f, NEW st, NEW events, NEW n, Handling(f, st, events, n), NEW i \in 0..n
  PROVE  f[i] = IF i = 0 THEN st ELSE event_handler(f[i - 1], events[i])
<1> DEFINE g == [k \in 0..n |-> IF k = 0 THEN st ELSE event_handler(f[k - 1], events[k])]
<1>1. f = g
  BY DEF Handling
<1>2. g[i] = IF i = 0 THEN st ELSE event_handler(f[i - 1], events[i])
  OBVIOUS
<1> HIDE DEF g
<1>3. QED
  BY <1>1, <1>2

LEMMA HandlingExists ==
  ASSUME NEW st, NEW events, NEW n \in Nat
  PROVE  \E f : Handling(f, st, events, n)
<1> DEFINE T == {m \in Nat : \E f : Handling(f, st, events, m)}
<1>1. 0 \in T
  <2> DEFINE g == [i \in 0..0 |-> st]
  <2>1. g = [i \in 0..0 |-> IF i = 0 THEN st ELSE event_handler(g[i - 1], events[i])]
    <3>1. \A i \in 0..0 : i = 0
      OBVIOUS
    <3>2. QED
      BY <3>1
  <2> HIDE DEF g
  <2>2. Handling(g, st, events, 0)
    BY <2>1 DEF Handling
  <2>3. QED
    BY <2>2
<1>2. ASSUME NEW m \in Nat, m \in T
      PROVE  m + 1 \in T
  <2>1. PICK f : Handling(f, st, events, m)
    BY <1>2
  <2> DEFINE new == event_handler(f[m], events[m + 1])
             g   == [i \in 0..(m + 1) |-> IF i = m + 1 THEN new ELSE f[i]]
  <2>2. ASSUME NEW i \in 0..(m + 1)
        PROVE  g[i] = IF i = 0 THEN st ELSE event_handler(g[i - 1], events[i])
    <3>1. CASE i = m + 1
      <4>1. i # 0 /\ g[i - 1] = f[m] /\ g[i] = new
        BY <3>1
      <4> HIDE DEF g
      <4>2. QED
        BY <3>1, <4>1
    <3>2. CASE i # m + 1
      <4>1. i \in 0..m /\ (i = 0 \/ i - 1 \in 0..m) /\ i - 1 # m + 1
        BY <3>2
      <4>2. f[i] = IF i = 0 THEN st ELSE event_handler(f[i - 1], events[i])
        BY <2>1, <4>1, HandlingAt
      <4>3. g[i] = f[i] /\ (i = 0 \/ g[i - 1] = f[i - 1])
        BY <4>1
      <4> HIDE DEF g
      <4>4. QED
        BY <4>2, <4>3
    <3>3. QED
      BY <3>1, <3>2
  <2>3. g = [i \in 0..(m + 1) |-> g[i]]
    OBVIOUS
  <2> HIDE DEF g
  <2>4. Handling(g, st, events, m + 1)
    BY <2>2, <2>3 DEF Handling
  <2>5. QED
    BY <2>4
<1>3. n \in T
  <2> HIDE DEF T
  <2>1. QED
    BY <1>1, <1>2, SetInduction
<1>4. QED
  BY <1>3

LEMMA Handlings ==
  ASSUME NEW st, NEW events, Len(events) \in Nat
  PROVE  \E f : /\ AllHandled(st, events) = f[Len(events)]
                /\ Handling(f, st, events, Len(events))
<1> DEFINE f == CHOOSE g : g = [n \in 0..Len(events) |->
                                  IF n = 0 THEN st ELSE event_handler(g[n - 1], events[n])]
<1>1. AllHandled(st, events) = f[Len(events)]
  BY Zenon DEF AllHandled
<1>2. \E g : g = [n \in 0..Len(events) |->
                    IF n = 0 THEN st ELSE event_handler(g[n - 1], events[n])]
  <2>1. \E g : Handling(g, st, events, Len(events))
    BY HandlingExists
  <2>2. QED
    BY <2>1, Zenon DEF Handling
<1>3. Handling(f, st, events, Len(events))
  BY <1>2, Zenon DEF Handling
<1>4. QED
  BY <1>1, <1>3

LEMMA OneEvent ==
  ASSUME NEW st, NEW e
  PROVE  AllHandled(st, <<e>>) = event_handler(st, e)
<1> DEFINE q == <<e>>
<1>1. Len(q) = 1 /\ q[1] = e
  OBVIOUS
<1> HIDE DEF q
<1>2. PICK f : AllHandled(st, q) = f[1] /\ Handling(f, st, q, 1)
  BY <1>1, Handlings
<1>3. f[0] = st
  BY <1>2, HandlingAt
<1>4. f[1] = event_handler(f[0], q[1])
  BY <1>2, HandlingAt
<1>5. QED
  BY <1>1, <1>2, <1>3, <1>4 DEF q

LEMMA TwoEvents ==
  ASSUME NEW st, NEW d, NEW e
  PROVE  AllHandled(st, <<d, e>>) = event_handler(event_handler(st, d), e)
<1> DEFINE q == <<d, e>>
<1>1. Len(q) = 2 /\ q[1] = d /\ q[2] = e
  OBVIOUS
<1> HIDE DEF q
<1>2. PICK f : AllHandled(st, q) = f[2] /\ Handling(f, st, q, 2)
  <2>1. Len(q) \in Nat
    BY <1>1
  <2>2. QED
    BY <1>1, <2>1, Handlings
<1>3. f[0] = st
  BY <1>2, HandlingAt
<1>4. f[1] = event_handler(f[0], q[1])
  BY <1>2, HandlingAt
<1>5. f[2] = event_handler(f[1], q[2])
  BY <1>2, HandlingAt
<1>6. QED
  BY <1>1, <1>2, <1>3, <1>4, <1>5 DEF q

LEMMA NoEvents ==
  ASSUME NEW st, NEW q \in Seq(EventRecord), \A i \in 1..Len(q) : q[i].type = "LABEL"
  PROVE  AllHandled(st, q) = st
<1>1. Len(q) \in Nat
  BY LenProperties
<1>2. PICK f : AllHandled(st, q) = f[Len(q)] /\ Handling(f, st, q, Len(q))
  BY <1>1, Handlings
<1> DEFINE T == {n \in Nat : n <= Len(q) => f[n] = st}
<1>3. 0 \in T
  BY <1>1, <1>2, HandlingAt
<1>4. ASSUME NEW n \in Nat, n \in T
      PROVE  n + 1 \in T
  <2> SUFFICES ASSUME n + 1 <= Len(q)
               PROVE  f[n + 1] = st
    OBVIOUS
  <2>1. n + 1 \in 0..Len(q) /\ n + 1 \in 1..Len(q) /\ n + 1 # 0 /\ n + 1 - 1 = n /\ n <= Len(q)
    BY <1>1
  <2>2. f[n + 1] = event_handler(f[n], q[n + 1])
    BY <1>2, <2>1, HandlingAt
  <2>3. f[n] = st /\ q[n + 1].type = "LABEL"
    BY <1>4, <2>1
  <2>4. QED
    BY <2>2, <2>3 DEF event_handler
<1>5. Len(q) \in T
  <2> HIDE DEF T
  <2>1. QED
    BY <1>1, <1>3, <1>4, SetInduction
<1>6. QED
  BY <1>1, <1>2, <1>5
-----------------------------------------------------------------------------
(* The handlers.  A parser in good order has only indices of objects on its  *)
(* stack of loops and in loop_hmap, and there under the object's identifier. *)
LoopObject == [id : LoopId, lastInit : Nat, own : BOOLEAN,
               execs : Nat, iters : Nat, sampled : Nat, work : Nat]

ParserRecord == [objs : Seq(LoopObject), loops : Seq(Nat), iters : Seq(Nat),
                 hmap : [LoopId -> Nat], failed : BOOLEAN]

GoodOrder(st) ==
  /\ st \in ParserRecord
  /\ ~st.failed
  /\ \A i \in 1..Len(st.loops) : st.loops[i] \in 1..Len(st.objs)
  /\ \A id \in LoopId : st.hmap[id] # 0 =>
       st.hmap[id] \in 1..Len(st.objs) /\ st.objs[st.hmap[id]].id = id

(* What an exit, a count of iterations, a sampled iteration make of the      *)
(* object ob: new.                                                           *)
Exited(ob, init, new) ==
  /\ new.execs = ob.execs + 1
  /\ new.own <=> ob.own /\ ob.lastInit = init
  /\ new.iters = ob.iters /\ new.sampled = ob.sampled /\ new.work = ob.work
  /\ new.lastInit = ob.lastInit /\ new.id = ob.id

Counted(ob, v, new) ==
  /\ new.iters = ob.iters + v
  /\ new.execs = ob.execs /\ new.sampled = ob.sampled /\ new.work = ob.work
  /\ new.own = ob.own /\ new.lastInit = ob.lastInit /\ new.id = ob.id

Sampled(ob, w, new) ==
  /\ new.sampled = ob.sampled + 1 /\ new.work = ob.work + w
  /\ new.execs = ob.execs /\ new.iters = ob.iters
  /\ new.own = ob.own /\ new.lastInit = ob.lastInit /\ new.id = ob.id

(* What the handlers make of a parser st in good order: r.                   *)
ObjectFor(st, id) == IF st.hmap[id] # 0 THEN st.hmap[id] ELSE Len(st.objs) + 1

OthersKept(st, o, r) ==
  /\ Len(st.objs) <= Len(r.objs) /\ o \in 1..Len(r.objs)
  /\ \A p \in 1..Len(st.objs) : p # o => r.objs[p] = st.objs[p]

EntryRead(st, id, r) ==
  /\ OthersKept(st, ObjectFor(st, id), r)
  /\ r.objs[ObjectFor(st, id)] =
       [IF st.hmap[id] # 0 THEN st.objs[st.hmap[id]] ELSE NewLoop(id)
        EXCEPT !.lastInit = Len(st.loops)]
  /\ r.loops = Append(st.loops, ObjectFor(st, id))
  /\ r.iters = st.iters
  /\ r.hmap = st.hmap

ExitRead(st, r) ==
  LET o  == Last(st.loops)
      id == st.objs[o].id
  IN /\ OthersKept(st, o, r)
     /\ Len(r.objs) = Len(st.objs)
     /\ Exited(st.objs[o], Len(st.loops) - 1, r.objs[o])
     /\ r.loops = Front(st.loops)
     /\ r.iters = st.iters
     /\ r.hmap = IF st.hmap[id] # 0 THEN st.hmap ELSE [st.hmap EXCEPT ![id] = o]

NiterRead(st, v, r) ==
  LET o == Last(st.loops)
  IN /\ OthersKept(st, o, r)
     /\ Len(r.objs) = Len(st.objs)
     /\ Counted(st.objs[o], v, r.objs[o])
     /\ r.loops = st.loops
     /\ r.iters = st.iters
     /\ r.hmap = st.hmap

Updated(list, hwc) == [i \in 1..Len(list) |-> list[i] + hwc]

IterEntryRead(st, hwc, r) ==
  /\ r.objs = st.objs /\ r.loops = st.loops /\ r.hmap = st.hmap
  /\ r.iters = Append(Updated(st.iters, hwc), 0)

IterExitRead(st, hwc, r) ==
  LET o == Last(st.loops)
  IN /\ OthersKept(st, o, r)
     /\ Len(r.objs) = Len(st.objs)
     /\ Sampled(st.objs[o], Last(Updated(st.iters, hwc)), r.objs[o])
     /\ r.loops = st.loops
     /\ r.iters = Front(Updated(st.iters, hwc))
     /\ r.hmap = st.hmap

LEMMA OrderFacts ==
  ASSUME NEW st, GoodOrder(st)
  PROVE  /\ st.objs \in Seq(LoopObject) /\ st.loops \in Seq(Nat) /\ st.iters \in Seq(Nat)
         /\ Len(st.objs) \in Nat /\ Len(st.loops) \in Nat /\ Len(st.iters) \in Nat
         /\ st.hmap \in [LoopId -> Nat]
         /\ \A o \in 1..Len(st.objs) : st.objs[o] \in LoopObject
         /\ st.loops # <<>> => /\ Last(st.loops) \in 1..Len(st.objs)
                               /\ Len(st.loops) > 0
<1> USE DEF GoodOrder
<1>1. /\ st.objs \in Seq(LoopObject) /\ st.loops \in Seq(Nat) /\ st.iters \in Seq(Nat)
      /\ st.hmap \in [LoopId -> Nat]
  BY DEF ParserRecord
<1>2. Len(st.objs) \in Nat /\ Len(st.loops) \in Nat /\ Len(st.iters) \in Nat
  BY <1>1, LenProperties
<1>3. \A o \in 1..Len(st.objs) : st.objs[o] \in LoopObject
  BY <1>1, ElementOfSeq
<1>4. ASSUME st.loops # <<>>
      PROVE  Last(st.loops) \in 1..Len(st.objs) /\ Len(st.loops) > 0
  <2>1. Last(st.loops) = st.loops[Len(st.loops)] /\ Len(st.loops) \in Nat \ {0}
    BY <1>1, <1>4, FrontProperties
  <2>2. Len(st.loops) \in 1..Len(st.loops)
    BY <2>1
  <2>3. QED
    BY <2>1, <2>2
<1>5. QED
  BY <1>1, <1>2, <1>3, <1>4

LEMMA EntryHandled ==
  ASSUME NEW st, GoodOrder(st), NEW id \in LoopId
  PROVE  /\ GoodOrder(loop_entry(st, id))
         /\ EntryRead(st, id, loop_entry(st, id))
<1> DEFINE known == st.hmap[id] # 0
           o     == ObjectFor(st, id)
           os    == IF known THEN st.objs ELSE Append(st.objs, NewLoop(id))
           new   == [os[o] EXCEPT !.lastInit = Len(st.loops)]
           q     == [os EXCEPT ![o] = new]
           open  == Append(st.loops, o)
           r     == loop_entry(st, id)
           n     == Len(st.objs)
<1>0. /\ st.objs \in Seq(LoopObject) /\ st.loops \in Seq(Nat) /\ n \in Nat /\ Len(st.loops) \in Nat
      /\ st.hmap \in [LoopId -> Nat] /\ st.iters \in Seq(Nat)
      /\ \A p \in 1..n : st.objs[p] \in LoopObject
  BY OrderFacts
<1>1. r = [st EXCEPT !.objs = q, !.loops = open]
  BY DEF loop_entry, ObjectFor
<1>2. NewLoop(id) \in LoopObject
  BY DEF NewLoop, LoopObject
<1>3. /\ os \in Seq(LoopObject) /\ Len(os) \in Nat /\ Len(os) >= n /\ o \in 1..Len(os)
      /\ \A p \in 1..n : os[p] = st.objs[p]
      /\ os[o] = IF known THEN st.objs[st.hmap[id]] ELSE NewLoop(id)
      /\ os[o].id = id
  <2>1. CASE known
    <3>1. o \in 1..n /\ st.objs[o].id = id /\ o = st.hmap[id]
      BY <2>1 DEF GoodOrder, ObjectFor
    <3>2. QED
      BY <1>0, <2>1, <3>1
  <2>2. CASE ~known
    <3>1. /\ Append(st.objs, NewLoop(id)) \in Seq(LoopObject)
          /\ Len(Append(st.objs, NewLoop(id))) = n + 1
          /\ \A p \in 1..n : Append(st.objs, NewLoop(id))[p] = st.objs[p]
          /\ Append(st.objs, NewLoop(id))[n + 1] = NewLoop(id)
      BY <1>0, <1>2, AppendProperties
    <3>2. o = n + 1 /\ NewLoop(id).id = id
      BY <2>2 DEF ObjectFor, NewLoop
    <3>3. QED
      BY <1>0, <2>2, <3>1, <3>2
  <2>3. QED
    BY <2>1, <2>2
<1>4. os[o] \in LoopObject
  BY <1>3, ElementOfSeq
<1> HIDE DEF os
<1>5. new \in LoopObject /\ new.id = id
  BY <1>0, <1>3, <1>4 DEF LoopObject
<1> HIDE DEF new
<1>6. /\ q \in Seq(LoopObject) /\ Len(q) = Len(os)
      /\ \A p \in 1..Len(os) : q[p] = IF p = o THEN new ELSE os[p]
  BY <1>3, <1>5, ExceptSeq
<1>7. o \in Nat
  BY <1>3
<1>8. /\ open \in Seq(Nat) /\ Len(open) = Len(st.loops) + 1
      /\ \A i \in 1..Len(st.loops) : open[i] = st.loops[i]
      /\ open[Len(st.loops) + 1] = o
  BY <1>0, <1>7, AppendProperties
<1> HIDE DEF q, open, o
<1>9. \A i \in 1..Len(open) : open[i] \in 1..Len(q)
  <2>1. \A i \in 1..Len(st.loops) : st.loops[i] \in 1..n
    BY DEF GoodOrder
  <2>2. \A i \in 1..Len(open) : i \in 1..Len(st.loops) \/ i = Len(st.loops) + 1
    BY <1>0, <1>8
  <2>3. \A p \in 1..n : p \in 1..Len(q)
    BY <1>0, <1>3, <1>6
  <2>4. QED
    BY <1>3, <1>6, <1>8, <2>1, <2>2, <2>3
<1>10. \A x \in LoopId : st.hmap[x] # 0 => st.hmap[x] \in 1..Len(q) /\ q[st.hmap[x]].id = x
  <2> SUFFICES ASSUME NEW x \in LoopId, st.hmap[x] # 0
               PROVE  st.hmap[x] \in 1..Len(q) /\ q[st.hmap[x]].id = x
    OBVIOUS
  <2>1. st.hmap[x] \in 1..n /\ st.objs[st.hmap[x]].id = x
    BY DEF GoodOrder
  <2>2. st.hmap[x] \in 1..Len(os) /\ os[st.hmap[x]] = st.objs[st.hmap[x]]
    BY <1>0, <1>3, <2>1
  <2>3. CASE st.hmap[x] = o
    BY <1>3, <1>5, <1>6, <2>1, <2>2, <2>3
  <2>4. CASE st.hmap[x] # o
    BY <1>6, <2>1, <2>2, <2>4
  <2>5. QED
    BY <2>3, <2>4
<1>11. st \in ParserRecord /\ st.failed = FALSE
  BY DEF GoodOrder, ParserRecord
<1> HIDE DEF r
<1>12. /\ r \in ParserRecord /\ r.failed = FALSE
       /\ r.objs = q /\ r.loops = open /\ r.iters = st.iters /\ r.hmap = st.hmap
  BY <1>1, <1>6, <1>8, <1>11 DEF ParserRecord
<1>13. GoodOrder(r) /\ r.objs = q /\ r.loops = open /\ r.iters = st.iters /\ r.hmap = st.hmap
  BY <1>9, <1>10, <1>12 DEF GoodOrder
<1>14. OthersKept(st, o, r)
  <2>1. \A p \in 1..n : p \in 1..Len(os)
    BY <1>0, <1>3
  <2>2. QED
    BY <1>3, <1>6, <1>13, <2>1 DEF OthersKept
<1>15. r.objs[o] = new
  BY <1>3, <1>6, <1>13
<1>16. EntryRead(st, id, r)
  BY <1>3, <1>13, <1>14, <1>15 DEF EntryRead, o, new, open
<1>17. QED
  BY <1>13, <1>16 DEF r
LEMMA ObjectAfter ==
  ASSUME NEW ob \in LoopObject, NEW v \in Nat, NEW init
  PROVE  LET one   == [ob EXCEPT !.execs = @ + 1]
             exit  == [one EXCEPT !.own = @ /\ ob.lastInit = init]
             count == [ob EXCEPT !.iters = @ + v]
             half  == [ob EXCEPT !.sampled = @ + 1]
             iter  == [half EXCEPT !.work = @ + v]
         IN /\ one \in LoopObject /\ one.id = ob.id
            /\ exit \in LoopObject /\ Exited(ob, init, exit)
            /\ count \in LoopObject /\ Counted(ob, v, count)
            /\ half \in LoopObject /\ half.id = ob.id
            /\ iter \in LoopObject /\ Sampled(ob, v, iter)
<1> DEFINE one   == [ob EXCEPT !.execs = @ + 1]
           exit  == [one EXCEPT !.own = @ /\ ob.lastInit = init]
           count == [ob EXCEPT !.iters = @ + v]
           half  == [ob EXCEPT !.sampled = @ + 1]
           iter  == [half EXCEPT !.work = @ + v]
<1>1. /\ one \in LoopObject /\ one.id = ob.id /\ one.execs = ob.execs + 1
      /\ one.own = ob.own /\ one.lastInit = ob.lastInit
      /\ one.iters = ob.iters /\ one.sampled = ob.sampled /\ one.work = ob.work
  BY DEF LoopObject
<1>2. exit \in LoopObject /\ Exited(ob, init, exit)
  <2> DEFINE b == one.own /\ ob.lastInit = init
             y == [one EXCEPT !.own = b]
  <2>1. b \in BOOLEAN /\ exit = y /\ (b <=> ob.own /\ ob.lastInit = init)
    BY <1>1
  <2> HIDE DEF one, b, exit
  <2>2. /\ y \in LoopObject /\ y.own = b /\ y.id = one.id /\ y.execs = one.execs
        /\ y.lastInit = one.lastInit
        /\ y.iters = one.iters /\ y.sampled = one.sampled /\ y.work = one.work
    BY <1>1, <2>1 DEF LoopObject
  <2> HIDE DEF y
  <2>3. Exited(ob, init, y)
    BY <1>1, <2>1, <2>2 DEF Exited
  <2>4. QED
    BY <2>1, <2>2, <2>3
<1>3. count \in LoopObject /\ Counted(ob, v, count)
  BY DEF LoopObject, Counted
<1>4. /\ half \in LoopObject /\ half.id = ob.id /\ half.sampled = ob.sampled + 1
      /\ half.own = ob.own /\ half.lastInit = ob.lastInit
      /\ half.iters = ob.iters /\ half.execs = ob.execs /\ half.work = ob.work
  BY DEF LoopObject
<1>5. iter \in LoopObject /\ Sampled(ob, v, iter)
  <2> HIDE DEF half
  <2>1. /\ iter \in LoopObject /\ iter.id = half.id /\ iter.sampled = half.sampled
        /\ iter.own = half.own /\ iter.lastInit = half.lastInit
        /\ iter.iters = half.iters /\ iter.execs = half.execs /\ iter.work = half.work + v
    BY <1>4 DEF LoopObject
  <2> HIDE DEF iter
  <2>2. QED
    BY <1>4, <2>1 DEF Sampled
<1>6. QED
  BY <1>1, <1>2, <1>3, <1>4, <1>5

(* One object is given new contents under its identifier.                    *)
LEMMA ObjectReplaced ==
  ASSUME NEW st, GoodOrder(st), NEW o \in 1..Len(st.objs),
         NEW new \in LoopObject, new.id = st.objs[o].id,
         NEW q, q = [st.objs EXCEPT ![o] = new]
  PROVE  /\ q \in Seq(LoopObject) /\ Len(q) = Len(st.objs) /\ q[o] = new
         /\ \A p \in 1..Len(st.objs) : p # o => q[p] = st.objs[p]
         /\ \A p \in 1..Len(st.objs) : q[p].id = st.objs[p].id
         /\ \A id \in LoopId : st.hmap[id] # 0 =>
              st.hmap[id] \in 1..Len(q) /\ q[st.hmap[id]].id = id
<1>1. st.objs \in Seq(LoopObject)
  BY OrderFacts
<1>2. /\ q \in Seq(LoopObject) /\ Len(q) = Len(st.objs)
      /\ \A p \in 1..Len(st.objs) : q[p] = IF p = o THEN new ELSE st.objs[p]
  BY <1>1, ExceptSeq
<1>3. \A p \in 1..Len(st.objs) : q[p].id = st.objs[p].id
  BY <1>2
<1>4. \A id \in LoopId : st.hmap[id] # 0 =>
        st.hmap[id] \in 1..Len(q) /\ q[st.hmap[id]].id = id
  BY <1>2, <1>3 DEF GoodOrder
<1>5. QED
  BY <1>2, <1>3, <1>4

LEMMA ExitHandled ==
  ASSUME NEW st, GoodOrder(st), st.loops # <<>>
  PROVE  /\ GoodOrder(loop_exit(st))
         /\ ExitRead(st, loop_exit(st))
<1> DEFINE o     == Last(st.loops)
           n     == Len(st.objs)
           id    == st.objs[o].id
           x     == [st.objs[o] EXCEPT !.execs = @ + 1]
           once  == [st.objs EXCEPT ![o] = x]
           new   == [once[o] EXCEPT !.own = @ /\ st.objs[o].lastInit = Len(st.loops) - 1]
           q     == [once EXCEPT ![o] = new]
           hm    == IF st.hmap[id] # 0 THEN st.hmap ELSE [st.hmap EXCEPT ![id] = o]
           r     == loop_exit(st)
<1>0. /\ st.objs \in Seq(LoopObject) /\ st.loops \in Seq(Nat) /\ n \in Nat /\ Len(st.loops) \in Nat
      /\ st.hmap \in [LoopId -> Nat] /\ st.iters \in Seq(Nat)
      /\ o \in 1..n /\ st.objs[o] \in LoopObject /\ o \in Nat /\ o # 0
  BY OrderFacts
<1>1. r = [st EXCEPT !.loops = Front(st.loops), !.objs = q, !.hmap = hm]
  BY DEF loop_exit
<1>2. id \in LoopId /\ x \in LoopObject /\ x.id = id
  <2>1. id \in LoopId
    BY <1>0 DEF LoopObject
  <2>2. x \in LoopObject /\ x.id = id
    BY <1>0, ObjectAfter
  <2>3. QED
    BY <2>1, <2>2
<1>3. /\ once \in Seq(LoopObject) /\ Len(once) = n /\ once[o] = x
      /\ \A p \in 1..n : p # o => once[p] = st.objs[p]
  BY <1>0, <1>2, ObjectReplaced
<1>4. /\ Exited(st.objs[o], Len(st.loops) - 1, new)
      /\ new \in LoopObject /\ new.id = id
  <2> HIDE DEF once
  <2>1. new = [x EXCEPT !.own = @ /\ st.objs[o].lastInit = Len(st.loops) - 1]
    BY <1>3
  <2> DEFINE init == Len(st.loops) - 1
             ob   == st.objs[o]
             y    == [[ob EXCEPT !.execs = @ + 1] EXCEPT !.own = @ /\ ob.lastInit = init]
  <2>2. new = y
    BY <2>1
  <2> HIDE DEF new, init
  <2>3. y \in LoopObject /\ Exited(ob, init, y)
    <3>1. ob \in LoopObject
      BY <1>0
    <3> HIDE DEF ob, o
    <3>2. QED
      BY <3>1, ObjectAfter
  <2> HIDE DEF y
  <2>4. QED
    BY <2>2, <2>3 DEF Exited, init
<1> HIDE DEF new, x, once, id
<1>5. /\ q \in Seq(LoopObject) /\ Len(q) = n
      /\ \A p \in 1..n : q[p] = IF p = o THEN new ELSE st.objs[p]
  <2>1. /\ q \in Seq(LoopObject) /\ Len(q) = n
        /\ \A p \in 1..n : q[p] = IF p = o THEN new ELSE once[p]
    <3>1. o \in 1..Len(once)
      BY <1>0, <1>3
    <3>2. /\ q \in Seq(LoopObject) /\ Len(q) = Len(once)
          /\ \A p \in 1..Len(once) : q[p] = IF p = o THEN new ELSE once[p]
      BY <1>3, <1>4, <3>1, ExceptSeq
    <3>3. QED
      BY <1>3, <3>2
  <2>2. QED
    BY <1>3, <2>1
<1>6. /\ Front(st.loops) \in Seq(Nat) /\ Len(Front(st.loops)) = Len(st.loops) - 1
      /\ \A i \in 1..(Len(st.loops) - 1) : Front(st.loops)[i] = st.loops[i]
  BY <1>0, FrontProperties
<1>7. \A i \in 1..Len(Front(st.loops)) : Front(st.loops)[i] \in 1..Len(q)
  <2>1. \A i \in 1..Len(st.loops) : st.loops[i] \in 1..n
    BY DEF GoodOrder
  <2>2. \A i \in 1..(Len(st.loops) - 1) : i \in 1..Len(st.loops)
    BY <1>0
  <2>3. QED
    BY <1>5, <1>6, <2>1, <2>2
<1>8. \A p \in 1..n : q[p].id = st.objs[p].id
  BY <1>4, <1>5 DEF id
<1>9. hm \in [LoopId -> Nat]
  BY <1>0, <1>2
<1>10. \A y \in LoopId : hm[y] # 0 => hm[y] \in 1..Len(q) /\ q[hm[y]].id = y
  <2> SUFFICES ASSUME NEW y \in LoopId, hm[y] # 0
               PROVE  hm[y] \in 1..n /\ st.objs[hm[y]].id = y
    BY <1>5, <1>8
  <2>1. hm[y] = st.hmap[y] \/ (y = id /\ hm[y] = o)
    BY <1>0, <1>2
  <2>2. CASE hm[y] = st.hmap[y]
    BY <2>2 DEF GoodOrder
  <2>3. CASE y = id /\ hm[y] = o
    BY <1>0, <2>3 DEF id
  <2>4. QED
    BY <2>1, <2>2, <2>3
<1>11. st \in ParserRecord /\ st.failed = FALSE
  BY DEF GoodOrder, ParserRecord
<1> HIDE DEF q, hm, r, o
<1>12. /\ r \in ParserRecord /\ r.failed = FALSE
       /\ r.objs = q /\ r.loops = Front(st.loops) /\ r.iters = st.iters /\ r.hmap = hm
  BY <1>1, <1>5, <1>6, <1>9, <1>11 DEF ParserRecord
<1>13. GoodOrder(r)
  BY <1>7, <1>10, <1>12 DEF GoodOrder
<1>14. OthersKept(st, o, r)
  BY <1>0, <1>5, <1>12 DEF OthersKept
<1>15. r.objs[o] = new
  BY <1>0, <1>5, <1>12
<1>16. ExitRead(st, r)
  BY <1>4, <1>5, <1>12, <1>14, <1>15 DEF ExitRead, o, id, hm
<1>17. QED
  BY <1>13, <1>16 DEF r

LEMMA NiterHandled ==
  ASSUME NEW st, GoodOrder(st), st.loops # <<>>, NEW e, e.value \in Nat
  PROVE  /\ GoodOrder(niter_handler(st, e))
         /\ NiterRead(st, e.value, niter_handler(st, e))
<1> DEFINE o   == Last(st.loops)
           n   == Len(st.objs)
           new == [st.objs[o] EXCEPT !.iters = @ + e.value]
           q   == [st.objs EXCEPT ![o] = new]
           r   == niter_handler(st, e)
<1>0. o \in 1..n /\ st.objs[o] \in LoopObject
  BY OrderFacts
<1>1. r = [st EXCEPT !.objs = q]
  BY DEF niter_handler
<1>2. new \in LoopObject /\ Counted(st.objs[o], e.value, new)
  BY <1>0, ObjectAfter
<1> HIDE DEF new, o
<1>3. /\ q \in Seq(LoopObject) /\ Len(q) = n /\ q[o] = new
      /\ \A p \in 1..n : p # o => q[p] = st.objs[p]
      /\ \A id \in LoopId : st.hmap[id] # 0 =>
           st.hmap[id] \in 1..Len(q) /\ q[st.hmap[id]].id = id
  <2>1. new.id = st.objs[o].id /\ q = [st.objs EXCEPT ![o] = new]
    BY <1>2 DEF Counted
  <2>2. o \in 1..Len(st.objs) /\ new \in LoopObject
    BY <1>0, <1>2
  <2> HIDE DEF q, n, r
  <2>3. q \in Seq(LoopObject) /\ Len(q) = Len(st.objs) /\ q[o] = new
    <3>1. st.objs \in Seq(LoopObject)
      BY OrderFacts
    <3>2. QED
      BY <2>1, <2>2, <3>1, ExceptSeq
  <2>6. \A p \in 1..Len(st.objs) : p # o => q[p] = st.objs[p]
    BY <2>1, <2>2, ObjectReplaced
  <2>4. \A id \in LoopId : st.hmap[id] # 0 =>
           st.hmap[id] \in 1..Len(q) /\ q[st.hmap[id]].id = id
    BY <2>1, <2>2, ObjectReplaced
  <2>5. QED
    BY <2>3, <2>4, <2>6 DEF n
<1>4. st \in ParserRecord /\ st.failed = FALSE /\ n \in Nat
  BY OrderFacts DEF GoodOrder, ParserRecord
<1> HIDE DEF q, r
<1>5. /\ r \in ParserRecord /\ r.failed = FALSE
      /\ r.objs = q /\ r.loops = st.loops /\ r.iters = st.iters /\ r.hmap = st.hmap
  BY <1>1, <1>3, <1>4 DEF ParserRecord
<1>6. GoodOrder(r)
  BY <1>3, <1>5 DEF GoodOrder
<1>7. OthersKept(st, o, r)
  BY <1>0, <1>3, <1>4, <1>5 DEF OthersKept
<1>8. NiterRead(st, e.value, r)
  BY <1>2, <1>3, <1>5, <1>7 DEF NiterRead, o
<1>9. QED
  BY <1>6, <1>8 DEF r
LEMMA UpdatedFacts ==
  ASSUME NEW list \in Seq(Nat), NEW hwc \in Nat
  PROVE  /\ Updated(list, hwc) \in Seq(Nat) /\ Len(Updated(list, hwc)) = Len(list)
         /\ \A i \in 1..Len(list) : Updated(list, hwc)[i] = list[i] + hwc
         /\ list # <<>> => Updated(list, hwc) # <<>>
<1> DEFINE u == [i \in 1..Len(list) |-> list[i] + hwc]
<1>1. Len(list) \in Nat /\ \A i \in 1..Len(list) : list[i] \in Nat
  BY LenProperties, ElementOfSeq
<1>2. \A i \in 1..Len(list) : list[i] + hwc \in Nat
  BY <1>1
<1>3. u \in Seq(Nat)
  BY <1>1, <1>2, IsASeq
<1>4. Len(u) = Len(list) /\ \A i \in 1..Len(list) : u[i] = list[i] + hwc
  BY <1>1, <1>3, LenProperties
<1> HIDE DEF u
<1>5. list # <<>> => u # <<>>
  <2>1. list # <<>> => Len(list) # 0
    BY EmptySeq
  <2>2. QED
    BY <1>4, <2>1, EmptySeq
<1>6. QED
  BY <1>3, <1>4, <1>5 DEF Updated, u

LEMMA UpdateHandled ==
  ASSUME NEW st, GoodOrder(st), NEW hwc \in Nat
  PROVE  /\ GoodOrder(update(st, hwc))
         /\ update(st, hwc).objs = st.objs /\ update(st, hwc).loops = st.loops
         /\ update(st, hwc).hmap = st.hmap
         /\ update(st, hwc).iters = Updated(st.iters, hwc)
<1> DEFINE r == update(st, hwc)
           u == Updated(st.iters, hwc)
<1>1. st \in ParserRecord /\ st.failed = FALSE /\ st.iters \in Seq(Nat)
  BY OrderFacts DEF GoodOrder, ParserRecord
<1>2. DOMAIN st.iters = 1..Len(st.iters)
  BY <1>1, LenProperties
<1>3. r = [st EXCEPT !.iters = u]
  BY <1>2 DEF update, Updated
<1>4. u \in Seq(Nat)
  BY <1>1, UpdatedFacts
<1> HIDE DEF r, u
<1>5. /\ r \in ParserRecord /\ r.failed = FALSE
      /\ r.objs = st.objs /\ r.loops = st.loops /\ r.iters = u /\ r.hmap = st.hmap
  BY <1>1, <1>3, <1>4 DEF ParserRecord
<1>6. GoodOrder(r)
  BY <1>5 DEF GoodOrder
<1>7. QED
  BY <1>5, <1>6 DEF r, u

LEMMA IterEntryHandled ==
  ASSUME NEW st, GoodOrder(st), NEW hwc \in Nat, NEW e, e.value # 0
  PROVE  /\ GoodOrder(iter_handler(st, e, hwc))
         /\ IterEntryRead(st, hwc, iter_handler(st, e, hwc))
<1> DEFINE up == update(st, hwc)
           a  == Append(up.iters, 0)
           r  == iter_handler(st, e, hwc)
<1>1. /\ GoodOrder(up) /\ up.objs = st.objs /\ up.loops = st.loops
      /\ up.hmap = st.hmap /\ up.iters = Updated(st.iters, hwc)
  BY UpdateHandled
<1>2. r = [up EXCEPT !.iters = a]
  BY DEF iter_handler
<1> HIDE DEF up, r
<1>3. up \in ParserRecord /\ up.failed = FALSE /\ up.iters \in Seq(Nat)
  BY <1>1, OrderFacts DEF GoodOrder, ParserRecord
<1>4. a \in Seq(Nat)
  <2>1. 0 \in Nat
    OBVIOUS
  <2>2. QED
    BY <1>3, <2>1, AppendProperties
<1> HIDE DEF a
<1>5. /\ r \in ParserRecord /\ r.failed = FALSE
      /\ r.objs = up.objs /\ r.loops = up.loops /\ r.iters = a /\ r.hmap = up.hmap
  BY <1>2, <1>3, <1>4 DEF ParserRecord
<1>6. GoodOrder(r)
  BY <1>1, <1>5 DEF GoodOrder
<1>7. IterEntryRead(st, hwc, r)
  BY <1>1, <1>5 DEF IterEntryRead, a
<1>8. QED
  BY <1>6, <1>7 DEF r

LEMMA IterExitHandled ==
  ASSUME NEW st, GoodOrder(st), NEW hwc \in Nat, NEW e, e.value = 0,
         st.iters # <<>>, st.loops # <<>>
  PROVE  /\ GoodOrder(iter_handler(st, e, hwc))
         /\ IterExitRead(st, hwc, iter_handler(st, e, hwc))
<1> DEFINE up   == update(st, hwc)
           o    == Last(up.loops)
           half == [up.objs[o] EXCEPT !.sampled = @ + 1]
           once == [up.objs EXCEPT ![o] = half]
           new  == [once[o] EXCEPT !.work = @ + Last(up.iters)]
           q    == [once EXCEPT ![o] = new]
           r    == iter_handler(st, e, hwc)
           n    == Len(up.objs)
<1>1. /\ GoodOrder(up) /\ up.objs = st.objs /\ up.loops = st.loops
      /\ up.hmap = st.hmap /\ up.iters = Updated(st.iters, hwc)
  BY UpdateHandled
<1>2. up.iters # <<>> /\ up.loops # <<>> /\ up.iters \in Seq(Nat)
  <2>1. st.iters \in Seq(Nat)
    BY OrderFacts
  <2> HIDE DEF up
  <2>2. QED
    BY <1>1, <2>1, UpdatedFacts
<1>3. r = [up EXCEPT !.iters = Front(up.iters), !.objs = q]
  BY <1>2 DEF iter_handler
<1> HIDE DEF up, r
<1>4. /\ up.objs \in Seq(LoopObject) /\ n \in Nat
      /\ o \in 1..n /\ up.objs[o] \in LoopObject
  BY <1>1, <1>2, OrderFacts
<1>5. Last(up.iters) \in Nat /\ Front(up.iters) \in Seq(Nat)
  BY <1>2, FrontProperties
<1>6. half \in LoopObject /\ half.id = up.objs[o].id
  BY <1>4, ObjectAfter
<1>7. /\ once \in Seq(LoopObject) /\ Len(once) = n /\ once[o] = half
      /\ \A p \in 1..n : p # o => once[p] = up.objs[p]
  <2> HIDE DEF half, o
  <2>1. /\ once \in Seq(LoopObject) /\ Len(once) = n
        /\ \A p \in 1..n : once[p] = IF p = o THEN half ELSE up.objs[p]
    BY <1>4, <1>6, ExceptSeq
  <2>2. QED
    BY <1>4, <2>1
<1>8. new \in LoopObject /\ Sampled(up.objs[o], Last(up.iters), new)
  <2> DEFINE ob == up.objs[o]
             w  == Last(up.iters)
             y  == [[ob EXCEPT !.sampled = @ + 1] EXCEPT !.work = @ + w]
  <2>1. new = y
    <3> HIDE DEF once
    <3>1. new = [half EXCEPT !.work = @ + w]
      BY <1>7
    <3>2. QED
      BY <3>1
  <2>2. y \in LoopObject /\ Sampled(ob, w, y)
    <3>1. ob \in LoopObject /\ w \in Nat
      BY <1>4, <1>5
    <3> HIDE DEF ob, w
    <3>2. QED
      BY <3>1, ObjectAfter
  <2> HIDE DEF y, new
  <2>3. QED
    BY <2>1, <2>2
<1> HIDE DEF new, half, once
<1>9. /\ q \in Seq(LoopObject) /\ Len(q) = n /\ q[o] = new
      /\ \A p \in 1..n : p # o => q[p] = up.objs[p]
  <2> HIDE DEF o
  <2>1. o \in 1..Len(once)
    BY <1>4, <1>7
  <2>2. /\ q \in Seq(LoopObject) /\ Len(q) = Len(once)
        /\ \A p \in 1..Len(once) : q[p] = IF p = o THEN new ELSE once[p]
    BY <1>7, <1>8, <2>1, ExceptSeq
  <2>3. QED
    BY <1>4, <1>7, <2>2
<1> HIDE DEF q, o
<1>10. up \in ParserRecord /\ up.failed = FALSE
  BY <1>1 DEF GoodOrder, ParserRecord
<1>11. /\ r \in ParserRecord /\ r.failed = FALSE
       /\ r.objs = q /\ r.loops = up.loops /\ r.iters = Front(up.iters) /\ r.hmap = up.hmap
  BY <1>3, <1>5, <1>9, <1>10 DEF ParserRecord
<1>12. \A p \in 1..n : q[p].id = up.objs[p].id
  BY <1>4, <1>8, <1>9 DEF Sampled
<1>13. GoodOrder(r)
  BY <1>1, <1>9, <1>11, <1>12 DEF GoodOrder
<1>14. OthersKept(st, o, r)
  BY <1>1, <1>4, <1>9, <1>11 DEF OthersKept
<1>15. Sampled(st.objs[o], Last(Updated(st.iters, hwc)), r.objs[o])
  BY <1>1, <1>8, <1>9, <1>11
<1>16. o = Last(st.loops)
  BY <1>1 DEF o
<1>17. IterExitRead(st, hwc, r)
  BY <1>1, <1>9, <1>11, <1>14, <1>15, <1>16 DEF IterExitRead
<1>18. QED
  BY <1>13, <1>17 DEF r
-----------------------------------------------------------------------------
(* The parser's stacks beside those of the library.                          *)

(* The loops the parser holds open are those the trace has open.             *)
Follows(st, open) ==
  /\ Len(st.loops) = Len(open)
  /\ \A i \in 1..Len(open) : st.objs[st.loops[i]].id = open[i]

(* k iterations are marked: those with a decision 1, the outermost ones.     *)
Marked(decisions, k) ==
  /\ k \in Nat /\ k <= Len(decisions)
  /\ \A i \in 1..Len(decisions) : decisions[i] = 1 <=> i <= k

LEMMA MarkedGrows ==
  ASSUME NEW d \in Seq({0, 1}), NEW k, Marked(d, k)
  PROVE  /\ Marked(Append(d, 0), k)
         /\ (\A i \in 1..Len(d) : d[i] = 1) => k = Len(d) /\ Marked(Append(d, 1), k + 1)
<1>1. \A v \in {0, 1} : /\ Len(Append(d, v)) = Len(d) + 1
                        /\ \A i \in 1..Len(d) : Append(d, v)[i] = d[i]
                        /\ Append(d, v)[Len(d) + 1] = v
  BY AppendProperties
<1>2. Len(d) \in Nat /\ k \in Nat /\ k <= Len(d)
  BY LenProperties DEF Marked
<1>3. \A i \in 1..(Len(d) + 1) : i \in 1..Len(d) \/ i = Len(d) + 1
  BY <1>2
<1>4. Marked(Append(d, 0), k)
  BY <1>1, <1>2, <1>3 DEF Marked
<1>5. ASSUME \A i \in 1..Len(d) : d[i] = 1
      PROVE  k = Len(d) /\ Marked(Append(d, 1), k + 1)
  <2>1. k = Len(d)
    <3>1. Len(d) = 0 \/ (Len(d) \in 1..Len(d) /\ d[Len(d)] = 1)
      BY <1>2, <1>5
    <3>2. QED
      BY <1>2, <3>1 DEF Marked
  <2>2. QED
    BY <1>1, <1>2, <1>3, <1>5, <2>1 DEF Marked
<1>6. QED
  BY <1>4, <1>5

LEMMA MarkedShrinks ==
  ASSUME NEW d \in Seq({0, 1}), NEW k, Marked(d, k)
  PROVE  /\ Popped(d) = 0 => Marked(Rest(d), k)
         /\ Popped(d) # 0 => k > 0 /\ Marked(Rest(d), k - 1)
<1>1. CASE d = <<>>
  BY <1>1 DEF Popped, Rest
<1>2. CASE d # <<>>
  <2>1. /\ Len(d) \in Nat \ {0} /\ Rest(d) = Front(d) /\ Len(Front(d)) = Len(d) - 1
        /\ \A i \in 1..(Len(d) - 1) : Front(d)[i] = d[i]
        /\ Last(d) = d[Len(d)] /\ Last(d) \in {0, 1}
    BY <1>2, FrontProperties DEF Rest
  <2>2. Popped(d) = Last(d)
    <3>1. 0 % UIntMod = 0 /\ 1 % UIntMod = 1
      BY UIntAssumption
    <3>2. QED
      BY <1>2, <2>1, <3>1 DEF Popped
  <2>3. Len(d) \in 1..Len(d) /\ k \in Nat /\ k <= Len(d)
    BY <2>1 DEF Marked
  <2>4. Popped(d) # 0 <=> k = Len(d)
    BY <2>1, <2>2, <2>3 DEF Marked
  <2>5. \A i \in 1..(Len(d) - 1) : i \in 1..Len(d)
    BY <2>1
  <2>6. \A i \in 1..(Len(d) - 1) : Rest(d)[i] = 1 <=> i <= k
    BY <2>1, <2>5 DEF Marked
  <2>7. Popped(d) = 0 => Marked(Rest(d), k)
    BY <2>1, <2>3, <2>4, <2>6 DEF Marked
  <2>8. Popped(d) # 0 => k > 0 /\ Marked(Rest(d), k - 1)
    BY <2>1, <2>3, <2>4, <2>6 DEF Marked
  <2>9. QED
    BY <2>7, <2>8
<1>3. QED
  BY <1>1, <1>2

LEMMA FollowsSame ==
  ASSUME NEW st, GoodOrder(st), NEW open, Follows(st, open),
         NEW o, NEW r, OthersKept(st, o, r), r.loops = st.loops,
         o \in 1..Len(st.objs) => r.objs[o].id = st.objs[o].id
  PROVE  Follows(r, open)
<1>1. \A i \in 1..Len(st.loops) : st.loops[i] \in 1..Len(st.objs)
  BY DEF GoodOrder
<1>2. \A p \in 1..Len(st.objs) : r.objs[p].id = st.objs[p].id
  BY DEF OthersKept
<1>3. QED
  BY <1>1, <1>2 DEF Follows

LEMMA FollowsEntry ==
  ASSUME NEW st, GoodOrder(st), NEW open \in Seq(Nat), Follows(st, open),
         NEW id \in LoopId, id \in Nat, NEW r, EntryRead(st, id, r)
  PROVE  Follows(r, Append(open, id))
<1> DEFINE o == ObjectFor(st, id)
           n == Len(open)
<1>0. n \in Nat /\ Len(st.loops) = n /\ Len(st.objs) \in Nat /\ st.loops \in Seq(Nat)
      /\ st.hmap \in [LoopId -> Nat] /\ \A p \in 1..Len(st.objs) : st.objs[p] \in LoopObject
  BY OrderFacts DEF Follows
<1>1. /\ Len(Append(open, id)) = n + 1
      /\ \A i \in 1..n : Append(open, id)[i] = open[i]
      /\ Append(open, id)[n + 1] = id
  BY AppendProperties
<1>2. r.objs[o].id = id /\ (o \in 1..Len(st.objs) => st.objs[o].id = id) /\ o \in Nat
  <2>1. CASE st.hmap[id] # 0
    <3>1. o = st.hmap[id] /\ o \in 1..Len(st.objs) /\ st.objs[o].id = id
      BY <2>1 DEF ObjectFor, GoodOrder
    <3>2. r.objs[o] = [st.objs[o] EXCEPT !.lastInit = Len(st.loops)]
      BY <2>1, <3>1 DEF EntryRead
    <3>3. st.objs[o] \in LoopObject
      BY <1>0, <3>1
    <3>4. QED
      BY <3>1, <3>2, <3>3 DEF LoopObject
  <2>2. CASE st.hmap[id] = 0
    <3>1. o = Len(st.objs) + 1
      BY <2>2 DEF ObjectFor
    <3>2. r.objs[o] = [NewLoop(id) EXCEPT !.lastInit = Len(st.loops)]
      BY <2>2 DEF EntryRead
    <3>3. r.objs[o].id = id
      BY <3>2 DEF NewLoop
    <3>4. QED
      BY <1>0, <3>1, <3>3
  <2>3. QED
    BY <2>1, <2>2
<1>3. /\ r.loops = Append(st.loops, o) /\ OthersKept(st, o, r)
  BY DEF EntryRead
<1> HIDE DEF o
<1>4. /\ Len(r.loops) = n + 1 /\ r.loops[n + 1] = o
      /\ \A i \in 1..n : r.loops[i] = st.loops[i]
  BY <1>0, <1>2, <1>3, AppendProperties
<1>5. \A i \in 1..n : st.loops[i] \in 1..Len(st.objs) /\ st.objs[st.loops[i]].id = open[i]
  BY <1>0 DEF GoodOrder, Follows
<1>6. \A p \in 1..Len(st.objs) : r.objs[p].id = st.objs[p].id
  BY <1>2, <1>3 DEF OthersKept
<1>7. \A i \in 1..(n + 1) : i \in 1..n \/ i = n + 1
  BY <1>0
<1> DEFINE longer == Append(open, id)
<1>8. /\ Len(longer) = n + 1 /\ longer[n + 1] = id
      /\ \A i \in 1..n : longer[i] = open[i]
  BY <1>1
<1> HIDE DEF longer, n
<1>9. ASSUME NEW i \in 1..(n + 1)
      PROVE  r.objs[r.loops[i]].id = longer[i]
  <2>1. CASE i \in 1..n
    <3>1. r.loops[i] = st.loops[i] /\ longer[i] = open[i]
      BY <1>4, <1>8, <2>1
    <3>2. QED
      BY <1>5, <1>6, <2>1, <3>1
  <2>2. CASE i = n + 1
    BY <1>2, <1>4, <1>8, <2>2
  <2>3. QED
    BY <1>7, <2>1, <2>2
<1>10. Follows(r, longer)
  BY <1>4, <1>8, <1>9 DEF Follows
<1>11. QED
  BY <1>10 DEF longer

LEMMA FollowsExit ==
  ASSUME NEW st, GoodOrder(st), NEW open \in Seq(Nat), Follows(st, open), st.loops # <<>>,
         NEW r, ExitRead(st, r)
  PROVE  /\ Follows(r, Rest(open)) /\ open # <<>>
         /\ st.objs[Last(st.loops)].id = Last(open)
<1> DEFINE o == Last(st.loops)
           n == Len(open)
<1>0. /\ n \in Nat /\ Len(st.loops) = n /\ st.loops \in Seq(Nat) /\ n > 0 /\ n \in 1..n
      /\ open # <<>>
  <2>1. n \in Nat /\ Len(st.loops) = n /\ st.loops \in Seq(Nat) /\ n > 0
    BY OrderFacts DEF Follows
  <2>2. QED
    BY <2>1, EmptySeq
<1>1. /\ Len(Rest(open)) = n - 1 /\ Last(open) = open[n]
      /\ \A i \in 1..(n - 1) : Rest(open)[i] = open[i]
  BY <1>0, FrontProperties DEF Rest
<1>2. /\ Len(r.loops) = n - 1 /\ o = st.loops[n]
      /\ \A i \in 1..(n - 1) : r.loops[i] = st.loops[i]
  <2>1. st.loops # <<>>
    OBVIOUS
  <2>2. /\ Len(Front(st.loops)) = Len(st.loops) - 1 /\ Last(st.loops) = st.loops[Len(st.loops)]
        /\ \A i \in 1..(Len(st.loops) - 1) : Front(st.loops)[i] = st.loops[i]
    BY <1>0, <2>1, FrontProperties
  <2>3. QED
    BY <1>0, <2>2 DEF ExitRead
<1>3. OthersKept(st, o, r) /\ r.objs[o].id = st.objs[o].id
  BY DEF ExitRead, Exited
<1>4. \A p \in 1..Len(st.objs) : r.objs[p].id = st.objs[p].id
  BY <1>3 DEF OthersKept
<1>5. \A i \in 1..n : st.loops[i] \in 1..Len(st.objs) /\ st.objs[st.loops[i]].id = open[i]
  BY <1>0 DEF GoodOrder, Follows
<1>6. \A i \in 1..(n - 1) : i \in 1..n
  BY <1>0
<1>7. Follows(r, Rest(open))
  BY <1>0, <1>1, <1>2, <1>4, <1>5, <1>6 DEF Follows
<1>8. QED
  BY <1>0, <1>1, <1>2, <1>5, <1>7
-----------------------------------------------------------------------------
(* The inductive invariant.                                                  *)
BoundsInv ==
  /\ work \in 0..MaxWork /\ pending \in 0..work /\ entries \in 0..MaxEntries
  /\ starts \in Seq(0..MaxWork) /\ jumped \in BOOLEAN

ParserInv ==
  /\ MonitorInv
  /\ BoundsInv
  /\ GoodOrder(ParserState)
  /\ Follows(ParserState, trace_loops)
  /\ Len(loop_stack) = Len(itercounter_stack)
  /\ Marked(decission_stack, Len(iter_stack))

(* What the parser makes of a record, st before and r after it.              *)
Reads(st, r) ==
  \/ Silent /\ r = st
  \/ \E l \in Loop : MarksEntry(l) /\ EntryRead(st, Hash[l], r)
  \/ /\ MarksExit
     /\ \E mid : /\ GoodOrder(mid) /\ NiterRead(st, Popped(itercounter_stack), mid)
                 /\ ExitRead(mid, r)
  \/ \E n \in Nat \ {0} : MarksIterEntry(n) /\ IterEntryRead(st, pending, r)
  \/ MarksIterExit /\ IterExitRead(st, pending, r)

LEMMA EventHandlers ==
  ASSUME NEW st, NEW v
  PROVE  /\ event_handler(st, Event("LOOP", v)) =
              IF v # 0 THEN loop_entry(st, v) ELSE loop_exit(st)
         /\ event_handler(st, Event("ITER", v)) = iter_handler(st, Event("ITER", v), pending)
         /\ event_handler(st, Event("NITER", v)) = niter_handler(st, Event("NITER", v))
<1>1. /\ Event("LOOP", v).type = "LOOP" /\ Event("LOOP", v).value = v
      /\ Event("ITER", v).type = "ITER" /\ Event("NITER", v).type = "NITER"
  BY DEF Event
<1> HIDE DEF Event
<1>2. QED
  BY <1>1 DEF event_handler, loop_handler

LEMMA ParserFacts ==
  ASSUME ParserInv
  PROVE  /\ pending \in Nat
         /\ itercounter_stack # <<>> => ParserState.loops # <<>>
         /\ Popped(decission_stack) # 0 => ParserState.iters # <<>>
         /\ ParserState.loops = loop_stack /\ ParserState.iters = iter_stack
         /\ ParserState.objs = objs /\ ParserState.hmap = loop_hmap
<1>1. /\ ParserState.loops = loop_stack /\ ParserState.iters = iter_stack
      /\ ParserState.objs = objs /\ ParserState.hmap = loop_hmap
  BY DEF ParserState
<1>2. pending \in Nat
  BY DEF ParserInv, BoundsInv
<1>3. GoodOrder(ParserState)
  BY DEF ParserInv
<1> HIDE DEF ParserState
<1>4. itercounter_stack # <<>> => loop_stack # <<>>
  <2>1. itercounter_stack \in Seq(Nat)
    BY MonitorFacts DEF ParserInv
  <2>2. itercounter_stack # <<>> => Len(itercounter_stack) # 0
    BY <2>1, EmptySeq
  <2>3. Len(loop_stack) = Len(itercounter_stack)
    BY DEF ParserInv
  <2>4. QED
    BY <2>2, <2>3
<1>5. Popped(decission_stack) # 0 => iter_stack # <<>>
  <2>1. decission_stack \in Seq({0, 1}) /\ Marked(decission_stack, Len(iter_stack))
    BY MonitorFacts DEF ParserInv
  <2>2. Popped(decission_stack) # 0 => Len(iter_stack) > 0
    BY <2>1, MarkedShrinks
  <2>3. QED
    BY <2>2
<1>6. QED
  BY <1>1, <1>2, <1>4, <1>5

LEMMA RecordIsRead ==
  ASSUME ParserInv, Next
  PROVE  GoodOrder(Handled) /\ Reads(ParserState, Handled)
<1> DEFINE st == ParserState
<1>0. /\ MonitorInv /\ GoodOrder(st) /\ pending \in Nat
      /\ itercounter_stack # <<>> => st.loops # <<>>
      /\ Popped(decission_stack) # 0 => st.iters # <<>>
      /\ itercounter_stack \in Seq(Nat)
  BY ParserFacts, MonitorFacts DEF ParserInv
<1> HIDE DEF st
<1>1. Handled = AllHandled(st, emitted')
  BY DEF Handled, st
<1>2. ASSUME Silent
      PROVE  GoodOrder(Handled) /\ Reads(st, Handled)
  <2>1. Handled = st
    BY <1>1, <1>2, NoEvents DEF Silent
  <2>2. QED
    BY <1>0, <1>2, <2>1 DEF Reads
<1>3. ASSUME NEW l \in Loop, MarksEntry(l)
      PROVE  GoodOrder(Handled) /\ Reads(st, Handled)
  <2>1. Hash[l] \in LoopId /\ Hash[l] # 0
    BY HashAssumption DEF LoopId
  <2>2. Handled = event_handler(st, Event("LOOP", Hash[l]))
    BY <1>1, <1>3, OneEvent DEF MarksEntry
  <2>3. Handled = loop_entry(st, Hash[l])
    BY <2>1, <2>2, EventHandlers
  <2>4. GoodOrder(Handled) /\ EntryRead(st, Hash[l], Handled)
    BY <1>0, <2>1, <2>3, EntryHandled
  <2>5. QED
    BY <1>3, <2>4 DEF Reads
<1>4. ASSUME MarksExit
      PROVE  GoodOrder(Handled) /\ Reads(st, Handled)
  <2> DEFINE v   == Popped(itercounter_stack)
             d   == Event("NITER", v)
             mid == niter_handler(st, d)
  <2>1. emitted' = <<d, Event("LOOP", 0)>> /\ st.loops # <<>>
    BY <1>0, <1>4 DEF MarksExit
  <2>2. d.value = v /\ d.value \in Nat
    BY <1>0, PoppedType DEF Event
  <2>3. GoodOrder(mid) /\ NiterRead(st, v, mid)
    <3> HIDE DEF d, v
    <3>1. GoodOrder(mid) /\ NiterRead(st, d.value, mid)
      BY <1>0, <2>1, <2>2, NiterHandled
    <3>2. QED
      BY <2>2, <3>1
  <2>4. Handled = event_handler(event_handler(st, d), Event("LOOP", 0))
    BY <1>1, <2>1, TwoEvents
  <2>5. event_handler(st, d) = mid
    BY EventHandlers
  <2>6. Handled = loop_exit(mid)
    BY <2>4, <2>5, EventHandlers
  <2>7. mid.loops # <<>>
    BY <2>1, <2>3 DEF NiterRead
  <2> HIDE DEF mid
  <2>8. GoodOrder(Handled) /\ ExitRead(mid, Handled)
    BY <2>3, <2>6, <2>7, ExitHandled
  <2>9. QED
    BY <1>4, <2>3, <2>8 DEF Reads
<1>5. ASSUME NEW n \in Nat \ {0}, MarksIterEntry(n)
      PROVE  GoodOrder(Handled) /\ Reads(st, Handled)
  <2> DEFINE d == Event("ITER", n)
  <2>1. Handled = event_handler(st, d)
    BY <1>1, <1>5, OneEvent DEF MarksIterEntry
  <2>2. Handled = iter_handler(st, d, pending)
    BY <2>1, EventHandlers
  <2>3. d.value # 0
    BY DEF Event
  <2> HIDE DEF d
  <2>4. GoodOrder(Handled) /\ IterEntryRead(st, pending, Handled)
    BY <1>0, <2>2, <2>3, IterEntryHandled
  <2>5. QED
    BY <1>5, <2>4 DEF Reads
<1>6. ASSUME MarksIterExit
      PROVE  GoodOrder(Handled) /\ Reads(st, Handled)
  <2> DEFINE d == Event("ITER", 0)
  <2>1. Handled = event_handler(st, d)
    BY <1>1, <1>6, OneEvent DEF MarksIterExit
  <2>2. Handled = iter_handler(st, d, pending)
    BY <2>1, EventHandlers
  <2>3. d.value = 0
    BY DEF Event
  <2>4. st.iters # <<>> /\ st.loops # <<>>
    BY <1>0, <1>6 DEF MarksIterExit
  <2> HIDE DEF d
  <2>5. GoodOrder(Handled) /\ IterExitRead(st, pending, Handled)
    BY <1>0, <2>2, <2>3, <2>4, IterExitHandled
  <2>6. QED
    BY <1>6, <2>5 DEF Reads
<1>7. \/ Silent \/ MarksExit \/ MarksIterExit
      \/ \E l \in Loop : MarksEntry(l)
      \/ \E n \in Nat \ {0} : MarksIterEntry(n)
  BY <1>0, Marks
<1>8. QED
  BY <1>2, <1>3, <1>4, <1>5, <1>6, <1>7 DEF st

(* The stacks stay beside each other.                                        *)
LEMMA StacksStay ==
  ASSUME ParserInv, NEW r, GoodOrder(r), Reads(ParserState, r)
  PROVE  /\ Follows(r, trace_loops')
         /\ Len(r.loops) = Len(itercounter_stack')
         /\ Marked(decission_stack', Len(r.iters))
<1> DEFINE st == ParserState
<1>0. /\ GoodOrder(st) /\ Follows(st, trace_loops) /\ trace_loops \in Seq(Nat)
      /\ Len(st.loops) = Len(itercounter_stack) /\ itercounter_stack \in Seq(Nat)
      /\ Marked(decission_stack, Len(st.iters)) /\ decission_stack \in Seq({0, 1})
      /\ st.iters \in Seq(Nat) /\ pending \in Nat
      /\ st.loops \in Seq(Nat) /\ Len(st.loops) \in Nat /\ Len(st.iters) \in Nat
      /\ TypeOK /\ NestedDecisions
  <2>1. MonitorInv /\ GoodOrder(st) /\ Follows(st, trace_loops)
    BY DEF ParserInv
  <2>2. /\ Len(st.loops) = Len(itercounter_stack)
        /\ Marked(decission_stack, Len(st.iters)) /\ pending \in Nat
    BY ParserFacts DEF ParserInv
  <2> HIDE DEF st
  <2>3. /\ st.iters \in Seq(Nat) /\ st.loops \in Seq(Nat)
        /\ Len(st.loops) \in Nat /\ Len(st.iters) \in Nat
    BY <2>1, OrderFacts
  <2>4. QED
    BY <2>1, <2>2, <2>3, MonitorFacts DEF MonitorInv
<1>00. Reads(st, r)
  OBVIOUS
<1> HIDE DEF st
<1>1. ASSUME Silent, r = st
      PROVE  /\ Follows(r, trace_loops') /\ Len(r.loops) = Len(itercounter_stack')
             /\ Marked(decission_stack', Len(r.iters))
  BY <1>0, <1>1, MarkedGrows, MarkedShrinks DEF Silent
<1>2. ASSUME NEW l \in Loop, MarksEntry(l), EntryRead(st, Hash[l], r)
      PROVE  /\ Follows(r, trace_loops') /\ Len(r.loops) = Len(itercounter_stack')
             /\ Marked(decission_stack', Len(r.iters))
  <2>1. Hash[l] \in LoopId /\ Hash[l] \in Nat
    BY HashAssumption DEF LoopId
  <2>2. Follows(r, Append(trace_loops, Hash[l]))
    BY <1>0, <1>2, <2>1, FollowsEntry
  <2>3. Len(r.loops) = Len(st.loops) + 1
    <3>1. Len(Append(trace_loops, Hash[l])) = Len(trace_loops) + 1
      BY <1>0, <2>1, AppendProperties
    <3>2. QED
      BY <1>0, <2>2, <3>1 DEF Follows
  <2>4. Len(Append(itercounter_stack, 0)) = Len(itercounter_stack) + 1
    BY <1>0, AppendProperties
  <2>5. QED
    BY <1>0, <1>2, <2>2, <2>3, <2>4 DEF MarksEntry, EntryRead
<1>3. ASSUME MarksExit, NEW mid, GoodOrder(mid),
             NiterRead(st, Popped(itercounter_stack), mid), ExitRead(mid, r)
      PROVE  /\ Follows(r, trace_loops') /\ Len(r.loops) = Len(itercounter_stack')
             /\ Marked(decission_stack', Len(r.iters))
  <2> DEFINE v == Popped(itercounter_stack)
             o == Last(st.loops)
  <2>1. OthersKept(st, o, mid) /\ mid.objs[o].id = st.objs[o].id /\ mid.loops = st.loops
        /\ mid.iters = st.iters
    BY <1>3 DEF NiterRead, Counted
  <2>2. Follows(mid, trace_loops)
    BY <1>0, <2>1, FollowsSame
  <2>3. itercounter_stack # <<>> /\ Len(Rest(itercounter_stack)) = Len(itercounter_stack) - 1
    BY <1>0, <1>3, FrontProperties DEF MarksExit, Rest
  <2>4. mid.loops # <<>>
    <3>1. Len(itercounter_stack) # 0
      BY <1>0, <2>3, EmptySeq
    <3>2. QED
      BY <1>0, <2>1, <3>1
  <2>5. Follows(r, Rest(trace_loops)) /\ trace_loops # <<>>
    BY <1>0, <1>3, <2>2, <2>4, FollowsExit
  <2>6. Len(r.loops) = Len(st.loops) - 1
    <3>1. Len(Front(mid.loops)) = Len(mid.loops) - 1
      BY <1>0, <2>1, <2>4, FrontProperties
    <3>2. QED
      BY <1>3, <2>1, <3>1 DEF ExitRead
  <2>7. r.iters = st.iters
    BY <1>3, <2>1 DEF ExitRead
  <2>8. QED
    BY <1>0, <1>3, <2>3, <2>5, <2>6, <2>7 DEF MarksExit
<1>4. ASSUME NEW n \in Nat \ {0}, MarksIterEntry(n), IterEntryRead(st, pending, r)
      PROVE  /\ Follows(r, trace_loops') /\ Len(r.loops) = Len(itercounter_stack')
             /\ Marked(decission_stack', Len(r.iters))
  <2>1. Follows(r, trace_loops)
    BY <1>0, <1>4 DEF IterEntryRead, Follows
  <2>2. Len(r.iters) = Len(st.iters) + 1
    <3>1. Updated(st.iters, pending) \in Seq(Nat) /\ Len(Updated(st.iters, pending)) = Len(st.iters)
      BY <1>0, UpdatedFacts
    <3>2. 0 \in Nat
      OBVIOUS
    <3>3. Len(Append(Updated(st.iters, pending), 0)) = Len(st.iters) + 1
      BY <3>1, <3>2, AppendProperties
    <3>4. QED
      BY <1>4, <3>3 DEF IterEntryRead
  <2>3. \A i \in 1..Len(decission_stack) : decission_stack[i] = 1
    BY <1>0, <1>4, TopIsLeast DEF MarksIterEntry
  <2>4. Marked(Append(decission_stack, 1), Len(st.iters) + 1)
    BY <1>0, <2>3, MarkedGrows
  <2>5. QED
    BY <1>0, <1>4, <2>1, <2>2, <2>4 DEF MarksIterEntry, IterEntryRead
<1>5. ASSUME MarksIterExit, IterExitRead(st, pending, r)
      PROVE  /\ Follows(r, trace_loops') /\ Len(r.loops) = Len(itercounter_stack')
             /\ Marked(decission_stack', Len(r.iters))
  <2> DEFINE o == Last(st.loops)
             u == Updated(st.iters, pending)
  <2>1. OthersKept(st, o, r) /\ r.objs[o].id = st.objs[o].id /\ r.loops = st.loops
    BY <1>5 DEF IterExitRead, Sampled
  <2>2. Follows(r, trace_loops)
    BY <1>0, <2>1, FollowsSame
  <2>3. Len(st.iters) > 0 /\ Marked(Rest(decission_stack), Len(st.iters) - 1)
    BY <1>0, <1>5, MarkedShrinks DEF MarksIterExit
  <2>4. Len(r.iters) = Len(st.iters) - 1
    <3>1. u \in Seq(Nat) /\ Len(u) = Len(st.iters)
      BY <1>0, UpdatedFacts
    <3>2. r.iters = Front(u)
      BY <1>5 DEF IterExitRead
    <3> HIDE DEF u
    <3>3. u # <<>>
      BY <2>3, <3>1, EmptySeq
    <3>4. QED
      BY <3>1, <3>2, <3>3, FrontProperties
  <2>5. QED
    BY <1>0, <1>5, <2>1, <2>2, <2>3, <2>4 DEF MarksIterExit
<1>6. QED
  BY <1>00, <1>1, <1>2, <1>3, <1>4, <1>5 DEF Reads

LEMMA StartsInOrder ==
  ASSUME ProfInit
  PROVE  ParserInv
<1>1. MonitorInv
  BY MonitorInit DEF ProfInit
<1>2. <<>> \in Seq(0..MaxWork) /\ 0 \in 0..MaxWork /\ 0 \in 0..0 /\ 0 \in 0..MaxEntries
  BY ProfileAssumption, EmptySeq
<1>3. BoundsInv
  BY <1>2 DEF ProfInit, BoundsInv
<1>4. /\ <<>> \in Seq(LoopObject) /\ <<>> \in Seq(Nat) /\ Len(<<>>) = 0
      /\ \A x \in LoopId : 0 \in Nat
  BY EmptySeq
<1> DEFINE none == [x \in LoopId |-> 0]
<1>5. none \in [LoopId -> Nat] /\ \A x \in LoopId : none[x] = 0
  BY <1>4
<1> HIDE DEF none
<1>6. ParserState = [objs |-> <<>>, loops |-> <<>>, iters |-> <<>>, hmap |-> none, failed |-> FALSE]
  BY DEF ProfInit, ParserState, none
<1>7. /\ ParserState \in ParserRecord /\ ParserState.loops = <<>> /\ ParserState.hmap = none
      /\ ~ParserState.failed
  BY <1>4, <1>5, <1>6 DEF ParserRecord
<1>8. GoodOrder(ParserState)
  BY <1>4, <1>5, <1>7 DEF GoodOrder
<1>9. Follows(ParserState, <<>>) /\ Marked(<<>>, 0)
  BY <1>4, <1>7 DEF Follows, Marked
<1>10. /\ Len(loop_stack) = Len(itercounter_stack) /\ trace_loops = <<>>
       /\ decission_stack = <<>> /\ Len(iter_stack) = 0
  BY <1>4 DEF ProfInit, Init
<1>11. QED
  BY <1>1, <1>3, <1>8, <1>9, <1>10 DEF ParserInv

(* A step is one of the program, observed, or work.                          *)
ProgramStep ==
  /\ \E mpi \in BOOLEAN : Observed(mpi)
  /\ \/ StructuredStep /\ jumped' = jumped
     \/ JumpStep /\ jumped' = TRUE
  /\ \/ entries' = entries
     \/ entries < MaxEntries /\ entries' = entries + 1

LEMMA StepsOfProfile ==
  ASSUME ProfNext
  PROVE  Work \/ (ProgramStep /\ Next)
<1>1. TRUE \in BOOLEAN /\ FALSE \in BOOLEAN
  OBVIOUS
<1>2. (\E l \in Loop : ProfEnter(l)) => ProgramStep
  BY <1>1 DEF ProfEnter, ProgramStep, StructuredStep
<1>3. ProfStep => ProgramStep
  BY <1>1 DEF ProfStep, ProgramStep, StructuredStep
<1>4. ProfMpiCall => ProgramStep
  BY <1>1 DEF ProfMpiCall, ProgramStep, StructuredStep
<1>5. ProfJump => ProgramStep
  BY <1>1 DEF ProfJump, ProgramStep
<1>6. ProgramStep => Next
  BY DEF ProgramStep, Next
<1>7. QED
  BY <1>2, <1>3, <1>4, <1>5, <1>6 DEF ProfNext

LEMMA BoundsStay ==
  ASSUME ParserInv, ProgramStep
  PROVE  BoundsInv'
<1>0. /\ work \in 0..MaxWork /\ pending \in 0..work /\ entries \in 0..MaxEntries
      /\ starts \in Seq(0..MaxWork) /\ jumped \in BOOLEAN
      /\ MaxWork \in Nat /\ MaxEntries \in Nat
  BY ProfileAssumption DEF ParserInv, BoundsInv
<1>1. PICK mpi \in BOOLEAN : Observed(mpi)
  BY DEF ProgramStep
<1>2. work' \in 0..MaxWork /\ pending' \in 0..work'
  <2>1. work' = work /\ (pending' = 0 \/ pending' = pending)
    BY <1>1 DEF Observed, ReadCounters
  <2>2. QED
    BY <1>0, <2>1
<1>3. entries' \in 0..MaxEntries
  BY <1>0 DEF ProgramStep
<1>4. jumped' \in BOOLEAN
  BY <1>0 DEF ProgramStep
<1>5. starts' \in Seq(0..MaxWork)
  <2>1. \/ starts' = starts
        \/ starts' = Append(starts, work)
        \/ starts # <<>> /\ starts' = Front(starts)
    <3> DEFINE began == ~jumped' /\ Emits("ITER", TRUE)
               ended == ~jumped' /\ Emits("ITER", FALSE) /\ starts # <<>>
    <3>1. starts' = CASE began -> Append(starts, work)
                      [] ended -> Front(starts)
                      [] OTHER -> starts
      BY <1>1 DEF Observed, RecordTruth
    <3>2. ended => starts # <<>>
      OBVIOUS
    <3> HIDE DEF began, ended
    <3>3. QED
      BY <3>1, <3>2
  <2>2. Append(starts, work) \in Seq(0..MaxWork)
    BY <1>0, AppendProperties
  <2>3. starts # <<>> => Front(starts) \in Seq(0..MaxWork)
    BY <1>0, FrontProperties
  <2>4. QED
    BY <1>0, <2>1, <2>2, <2>3
<1>6. QED
  BY <1>2, <1>3, <1>4, <1>5 DEF BoundsInv

LEMMA ParsedState ==
  ASSUME GoodOrder(Handled), Parse
  PROVE  /\ ParserState' = Handled
         /\ loop_stack' = Handled.loops /\ iter_stack' = Handled.iters
<1>1. Handled \in ParserRecord
  BY DEF GoodOrder
<1> HIDE DEF Handled
<1>2. ParserState' = [objs |-> Handled.objs, loops |-> Handled.loops, iters |-> Handled.iters,
                      hmap |-> Handled.hmap, failed |-> Handled.failed]
  BY DEF Parse, ParserState
<1>3. ParserState' = Handled
  BY <1>1, <1>2 DEF ParserRecord
<1>4. QED
  BY <1>3 DEF Parse

LEMMA ParserStep == ParserInv /\ [ProfNext]_profVars => ParserInv'
<1> SUFFICES ASSUME ParserInv, [ProfNext]_profVars
             PROVE  ParserInv'
  OBVIOUS
<1>1. ASSUME ProgramStep, Next
      PROVE  ParserInv'
  <2>1. MonitorInv'
    BY <1>1, MonitorStep DEF ParserInv
  <2>2. BoundsInv'
    BY <1>1, BoundsStay
  <2>3. Parse
    BY <1>1 DEF ProgramStep, Observed
  <2>4. GoodOrder(Handled) /\ Reads(ParserState, Handled)
    BY <1>1, RecordIsRead
  <2>5. /\ ParserState' = Handled
        /\ loop_stack' = Handled.loops /\ iter_stack' = Handled.iters
    BY <2>3, <2>4, ParsedState
  <2> HIDE DEF Handled
  <2>6. /\ Follows(Handled, trace_loops')
        /\ Len(Handled.loops) = Len(itercounter_stack')
        /\ Marked(decission_stack', Len(Handled.iters))
    BY <2>4, StacksStay
  <2>7. GoodOrder(ParserState')
    BY <2>4, <2>5
  <2>8. /\ Follows(ParserState', trace_loops') /\ Len(loop_stack') = Len(itercounter_stack')
        /\ Marked(decission_stack', Len(iter_stack'))
    BY <2>5, <2>6
  <2>9. QED
    BY <2>1, <2>2, <2>7, <2>8 DEF ParserInv, GoodOrder, Follows, Marked
<1>2. ASSUME Work \/ UNCHANGED profVars
      PROVE  ParserInv'
  <2>1. /\ UNCHANGED <<loops, atHeader, my_stack, decission_stack, itercounter_stack, crashed,
                       trace_loops, trace_iters, objs, loop_stack, iter_stack, loop_hmap,
                       failed, entries, starts, jumped>>
        /\ emitted' = <<>> \/ emitted' = emitted
    BY <1>2 DEF Work, profVars, vars, program, library, parser, history
  <2>2. \/ work' = work /\ pending' = pending
        \/ work < MaxWork /\ work' = work + 1 /\ pending' = pending + 1
    BY <1>2 DEF Work, profVars, history
  <2>3. emitted' \in Seq(EventRecord)
    BY <2>1, EmptySeq DEF ParserInv, MonitorInv, TypeOK, LibraryOK
  <2>4. MonitorInv'
    BY <2>1, <2>3 DEF ParserInv, MonitorInv, TypeOK, ProgramOK, LibraryOK, NestedDecisions,
                      CountersInv, EveryLoopKeepsItsCounter
  <2>5. BoundsInv'
    <3>1. /\ work \in 0..MaxWork /\ pending \in 0..work /\ MaxWork \in Nat
      BY ProfileAssumption DEF ParserInv, BoundsInv
    <3>2. work' \in 0..MaxWork /\ pending' \in 0..work'
      BY <2>2, <3>1
    <3>3. QED
      BY <2>1, <3>2 DEF ParserInv, BoundsInv
  <2>6. ParserState' = ParserState
    BY <2>1 DEF ParserState
  <2>7. GoodOrder(ParserState') /\ Follows(ParserState', trace_loops')
    BY <2>1, <2>6 DEF ParserInv
  <2>8. QED
    BY <2>1, <2>4, <2>5, <2>7 DEF ParserInv, GoodOrder, Follows, Marked
<1>3. QED
  BY <1>1, <1>2, StepsOfProfile

LEMMA ParserInvariant == ProfSpec => []ParserInv
  BY StartsInOrder, ParserStep, PTL DEF ProfSpec

(* The types of the parser's state and of the account kept of the program.   *)
THEOREM ProfileTypes == ProfSpec => []ProfTypeOK
<1>1. ParserInv => ProfTypeOK
  <2> SUFFICES ASSUME ParserInv
               PROVE  ProfTypeOK
    OBVIOUS
  <2> DEFINE st == ParserState
             n  == Len(objs)
  <2>1. GoodOrder(st) /\ BoundsInv /\ TypeOK
    BY DEF ParserInv, MonitorInv
  <2>2. /\ st.objs = objs /\ st.loops = loop_stack /\ st.iters = iter_stack
        /\ st.hmap = loop_hmap /\ st.failed = failed
    BY DEF ParserState
  <2> HIDE DEF st
  <2>3. /\ loop_stack \in Seq(Nat) /\ iter_stack \in Seq(Nat) /\ n \in Nat
        /\ loop_hmap \in [LoopId -> Nat]
        /\ \A i \in 1..Len(loop_stack) : loop_stack[i] \in 1..n
        /\ \A id \in LoopId : loop_hmap[id] # 0 => loop_hmap[id] \in 1..n
    BY <2>1, <2>2, OrderFacts DEF GoodOrder
  <2> HIDE DEF n
  <2>4. loop_stack \in Seq(1..n)
    <3>1. /\ Len(loop_stack) \in Nat
          /\ loop_stack = [i \in 1..Len(loop_stack) |-> loop_stack[i]]
      BY <2>3, LenProperties
    <3>2. [i \in 1..Len(loop_stack) |-> loop_stack[i]] \in Seq(1..n)
      BY <2>3, <3>1, IsASeq
    <3>3. QED
      BY <3>1, <3>2
  <2>5. loop_hmap \in [LoopId -> 0..n]
    <3>1. \A id \in LoopId : loop_hmap[id] \in 0..n
      BY <2>3
    <3>2. QED
      BY <2>3, <3>1
  <2>6. failed = FALSE
    BY <2>1, <2>2 DEF GoodOrder, ParserRecord
  <2>7. pending \in 0..MaxWork
    BY <2>1, ProfileAssumption DEF BoundsInv
  <2>8. QED
    BY <2>1, <2>3, <2>4, <2>5, <2>6, <2>7 DEF ProfTypeOK, BoundsInv, n
<1>2. QED
  BY <1>1, ParserInvariant, PTL

(* Whatever breaks, continues and returns the program takes, in every mode   *)
(* of the phase and with recursion: no exit event and no count of iterations *)
(* reaches the parser while its stack of loops is empty, and no end of an    *)
(* iteration while it holds none open.                                       *)
THEOREM ParserReadsEveryTrace == ProfSpec => []ParserNeverFails
<1>1. ParserInv => ParserNeverFails
  BY DEF ParserInv, GoodOrder, ParserState, ParserNeverFails
<1>2. QED
  BY <1>1, ParserInvariant, PTL
-----------------------------------------------------------------------------
(* As long as the program has not jumped, the library's stacks follow it.    *)
FollowInv == ParserInv /\ (~jumped => IInv)

LEMMA IdleStep ==
  ASSUME IInv,
         UNCHANGED <<loops, atHeader, my_stack, decission_stack, itercounter_stack, crashed,
                     trace_loops, trace_iters>>,
         emitted' = <<>> \/ emitted' = emitted
  PROVE  IInv'
<1>1. emitted' \in Seq(EventRecord)
  BY EmptySeq DEF IInv, TypeOK, LibraryOK
<1>2. TypeOK'
  BY <1>1 DEF IInv, TypeOK, ProgramOK, LibraryOK
<1>3. IterMode => StacksFollowProgram' /\ TraceFollowsProgram' /\ NoNullCounter'
  BY UnchangedStep
<1>4. IterMode' = IterMode
  BY DEF IterMode
<1>5. QED
  BY <1>2, <1>3, <1>4 DEF IInv, StacksFollowProgram, TraceFollowsProgram

LEMMA FollowStep == FollowInv /\ [ProfNext]_profVars => FollowInv'
<1> SUFFICES ASSUME FollowInv, [ProfNext]_profVars, ~jumped'
             PROVE  IInv'
  BY ParserStep DEF FollowInv
<1>1. CASE ProgramStep
  <2>1. StructuredStep /\ ~jumped
    BY <1>1 DEF ProgramStep
  <2>2. QED
    BY <2>1, IInvStep DEF FollowInv
<1>2. CASE Work \/ UNCHANGED profVars
  <2>1. /\ UNCHANGED <<loops, atHeader, my_stack, decission_stack, itercounter_stack, crashed,
                       trace_loops, trace_iters, jumped>>
        /\ emitted' = <<>> \/ emitted' = emitted
    BY <1>2 DEF Work, profVars, vars, program, library, parser, history
  <2>2. IInv
    BY <2>1 DEF FollowInv
  <2>3. QED
    BY <2>1, <2>2, IdleStep
<1>3. QED
  BY <1>1, <1>2, StepsOfProfile

LEMMA FollowInvariant == ProfSpec => []FollowInv
<1>1. ProfInit => FollowInv
  BY StartsInOrder, InitIInv DEF FollowInv, ProfInit
<1>2. QED
  BY <1>1, FollowStep, PTL DEF ProfSpec

(* What is open in the parser, the trace and the program, side by side.      *)
LEMMA SideBySide ==
  ASSUME FollowInv, IterMode, ~jumped
  PROVE  /\ Len(loop_stack) = Len(trace_loops) /\ Len(trace_loops) \in Nat
         /\ Len(trace_loops) <= Len(loops)
         /\ \A i \in 1..Len(trace_loops) :
              /\ objs[loop_stack[i]].id = trace_loops[i]
              /\ trace_loops[i] = Hash[loops[i].loop]
         /\ Len(iter_stack) = Len(trace_iters)
<1>1. IInv /\ ParserInv
  BY DEF FollowInv
<1>2. Follows(ParserState, trace_loops) /\ Marked(decission_stack, Len(iter_stack))
  BY <1>1 DEF ParserInv
<1>3. /\ Len(loop_stack) = Len(trace_loops)
      /\ \A i \in 1..Len(trace_loops) : objs[loop_stack[i]].id = trace_loops[i]
  BY <1>2 DEF Follows, ParserState
<1>4. /\ Len(trace_loops) <= Len(loops)
      /\ \A i \in 1..Len(trace_loops) : trace_loops[i] = Hash[loops[i].loop]
  BY <1>1 DEF IInv, TraceFollowsProgram
<1>5. Len(trace_loops) \in Nat
  BY <1>1, LenProperties DEF IInv, TypeOK, LibraryOK
<1>6. Len(iter_stack) = Len(trace_iters)
  <2> DEFINE m == Len(decission_stack)
             s == Len(trace_iters)
             k == Len(iter_stack)
  <2>1. /\ m = OpenIters /\ s <= m
        /\ \A i \in 1..m : decission_stack[i] = IF i <= s THEN 1 ELSE 0
    BY <1>1 DEF IInv, StacksFollowProgram
  <2>2. m \in Nat /\ s \in Nat
    BY <1>1, Shape
  <2>3. k \in Nat /\ k <= m /\ \A i \in 1..m : decission_stack[i] = 1 <=> i <= k
    BY <1>2 DEF Marked
  <2> HIDE DEF m, s, k
  <2>4. \A i \in 1..m : i <= s <=> i <= k
    BY <2>1, <2>3
  <2>5. (k > 0 => k \in 1..m) /\ (s > 0 => s \in 1..m)
    BY <2>1, <2>2, <2>3
  <2>6. k = s
    BY <2>2, <2>3, <2>4, <2>5
  <2>7. QED
    BY <2>6 DEF k, s
<1>7. QED
  BY <1>3, <1>4, <1>5, <1>6

(* For a program that has not jumped, the parser holds open exactly the      *)
(* marked loops and the sampled iterations the program is in, and under the  *)
(* identifiers of these loops - recursion and collisions included.           *)
THEOREM ParserFollowsCorrect == ProfSpec => []ParserFollowsProgram
<1>1. FollowInv => ParserFollowsProgram
  <2> SUFFICES ASSUME FollowInv, IterMode, ~jumped
               PROVE  /\ Len(loop_stack) = Len(trace_loops)
                      /\ \A i \in 1..Len(loop_stack) : objs[loop_stack[i]].id = Hash[loops[i].loop]
                      /\ Len(iter_stack) = Len(trace_iters)
    BY DEF ParserFollowsProgram
  <2>1. QED
    BY SideBySide
<1>2. QED
  BY <1>1, FollowInvariant, PTL
-----------------------------------------------------------------------------
(* The statistics.  Without recursion no two open loops share an object, if  *)
(* no two loops share an identifier.                                         *)
Identified == \A l, m \in Loop : Hash[l] = Hash[m] => l = m

(* The object ob has collected what happened to its loop: t.                 *)
Accounts(ob, t) ==
  /\ ob.execs = t.execs /\ ob.own /\ ob.iters = t.iters /\ ob.sampled = t.sampled
  /\ ~MpiCounters => ob.work = t.work

StatsOf(st, id) == IF st.hmap[id] = 0 THEN NewLoop(id) ELSE st.objs[st.hmap[id]]

(* An open loop is accounted for by the object on the parser's stack, which  *)
(* need not be in loop_hmap yet; any other one by its object there.          *)
OpenExact(st, open, tr) ==
  \A i \in 1..Len(open) :
    /\ Accounts(st.objs[st.loops[i]], tr[open[i]])
    /\ st.objs[st.loops[i]].lastInit = i - 1
    /\ st.hmap[open[i]] = 0 \/ st.hmap[open[i]] = st.loops[i]

Closed(open, id) == \A i \in 1..Len(open) : open[i] # id

ClosedExact(st, open, tr) ==
  \A id \in LoopId : Closed(open, id) => Accounts(StatsOf(st, id), tr[id])

Distinct(open) == \A i, j \in 1..Len(open) : i < j => open[i] # open[j]

LEMMA AccountsKept ==
  ASSUME NEW ob, NEW new, NEW t, Accounts(ob, t),
         new.execs = ob.execs, new.own = ob.own, new.iters = ob.iters,
         new.sampled = ob.sampled, new.work = ob.work
  PROVE  Accounts(new, t)
BY DEF Accounts

LEMMA ExactEntry ==
  ASSUME NEW st, GoodOrder(st), NEW open \in Seq(Nat), Follows(st, open), NEW tr,
         OpenExact(st, open, tr), ClosedExact(st, open, tr),
         NEW id \in LoopId, id \in Nat, Closed(open, id), NEW r, EntryRead(st, id, r)
  PROVE  OpenExact(r, Append(open, id), tr) /\ ClosedExact(r, Append(open, id), tr)
<1> DEFINE o == ObjectFor(st, id)
           n == Len(open)
           longer == Append(open, id)
<1>0. /\ n \in Nat /\ Len(st.loops) = n /\ Len(st.objs) \in Nat /\ st.loops \in Seq(Nat)
      /\ st.hmap \in [LoopId -> Nat] /\ \A p \in 1..Len(st.objs) : st.objs[p] \in LoopObject
  BY OrderFacts DEF Follows
<1>1. /\ Len(longer) = n + 1 /\ longer[n + 1] = id
      /\ \A i \in 1..n : longer[i] = open[i]
  BY AppendProperties
<1>2. OthersKept(st, o, r) /\ r.loops = Append(st.loops, o) /\ r.hmap = st.hmap
  BY DEF EntryRead
<1>3. /\ o \in Nat /\ o # 0
      /\ o \in 1..Len(st.objs) => st.objs[o].id = id
      /\ st.hmap[id] = 0 \/ st.hmap[id] = o
      /\ StatsOf(st, id) \in LoopObject
      /\ r.objs[o] = [StatsOf(st, id) EXCEPT !.lastInit = n]
  <2>1. CASE st.hmap[id] # 0
    <3>1. o = st.hmap[id] /\ o \in 1..Len(st.objs) /\ st.objs[o].id = id
          /\ StatsOf(st, id) = st.objs[o]
      BY <2>1 DEF ObjectFor, GoodOrder, StatsOf
    <3>2. r.objs[o] = [st.objs[o] EXCEPT !.lastInit = Len(st.loops)]
      BY <2>1, <3>1 DEF EntryRead
    <3>3. QED
      BY <1>0, <3>1, <3>2
  <2>2. CASE st.hmap[id] = 0
    <3>1. o = Len(st.objs) + 1 /\ StatsOf(st, id) = NewLoop(id)
      BY <2>2 DEF ObjectFor, StatsOf
    <3>2. r.objs[o] = [NewLoop(id) EXCEPT !.lastInit = Len(st.loops)]
      BY <2>2 DEF EntryRead
    <3>3. NewLoop(id) \in LoopObject
      BY DEF NewLoop, LoopObject
    <3>4. QED
      BY <1>0, <2>2, <3>1, <3>2, <3>3
  <2>3. QED
    BY <2>1, <2>2
<1>4. /\ Accounts(StatsOf(st, id), tr[id])
  BY DEF ClosedExact
<1>5. r.objs[o].lastInit = n /\ Accounts(r.objs[o], tr[id])
  <2> DEFINE ob  == StatsOf(st, id)
             new == [ob EXCEPT !.lastInit = n]
  <2>1. ob \in LoopObject /\ r.objs[o] = new /\ Accounts(ob, tr[id])
    BY <1>3, <1>4
  <2> HIDE DEF ob, o, n
  <2>2. /\ new.execs = ob.execs /\ new.own = ob.own /\ new.iters = ob.iters
        /\ new.sampled = ob.sampled /\ new.work = ob.work /\ new.lastInit = n
    BY <1>0, <2>1 DEF LoopObject
  <2> HIDE DEF new
  <2>3. Accounts(new, tr[id])
    BY <2>1, <2>2, AccountsKept
  <2>4. QED
    BY <2>1, <2>2, <2>3
<1> HIDE DEF o
<1>6. /\ Len(r.loops) = n + 1 /\ r.loops[n + 1] = o
      /\ \A i \in 1..n : r.loops[i] = st.loops[i]
  BY <1>0, <1>2, <1>3, AppendProperties
<1>7. /\ \A i \in 1..n : /\ st.loops[i] \in 1..Len(st.objs)
                         /\ open[i] # id => st.loops[i] # o
      /\ \A x \in LoopId : st.hmap[x] # 0 => /\ st.hmap[x] \in 1..Len(st.objs)
                                             /\ x # id => st.hmap[x] # o
  <2> HIDE DEF longer
  <2>1. \A i \in 1..Len(open) : /\ st.loops[i] \in 1..Len(st.objs)
                                /\ open[i] # id => st.loops[i] # o
    BY <1>3 DEF GoodOrder, Follows
  <2>2. \A x \in LoopId : st.hmap[x] # 0 => /\ st.hmap[x] \in 1..Len(st.objs)
                                            /\ x # id => st.hmap[x] # o
    BY <1>3 DEF GoodOrder, Follows
  <2>3. QED
    BY <2>1, <2>2
<1>8. \A p \in 1..Len(st.objs) : p # o => r.objs[p] = st.objs[p]
  BY <1>2 DEF OthersKept
<1> HIDE DEF longer, n
<1>9. ASSUME NEW i \in 1..(n + 1)
      PROVE  /\ Accounts(r.objs[r.loops[i]], tr[longer[i]])
             /\ r.objs[r.loops[i]].lastInit = i - 1
             /\ r.hmap[longer[i]] = 0 \/ r.hmap[longer[i]] = r.loops[i]
  <2>1. CASE i \in 1..n
    <3>1. r.loops[i] = st.loops[i] /\ longer[i] = open[i] /\ open[i] # id
      BY <1>1, <1>6, <2>1 DEF Closed, n
    <3>2. r.objs[r.loops[i]] = st.objs[st.loops[i]]
      BY <1>7, <1>8, <2>1, <3>1
    <3>3. QED
      BY <1>2, <2>1, <3>1, <3>2 DEF OpenExact, n
  <2>2. CASE i = n + 1
    <3>1. i - 1 = n
      BY <1>0, <2>2
    <3>2. QED
      BY <1>1, <1>2, <1>3, <1>5, <1>6, <2>2, <3>1
  <2>3. QED
    BY <1>0, <2>1, <2>2
<1>10. OpenExact(r, longer, tr)
  BY <1>1, <1>9 DEF OpenExact
<1>11. ASSUME NEW x \in LoopId, Closed(longer, x)
       PROVE  Accounts(StatsOf(r, x), tr[x])
  <2>1. x # id
    <3>1. n + 1 \in 1..Len(longer)
      BY <1>0, <1>1
    <3>2. QED
      BY <1>1, <1>11, <3>1 DEF Closed
  <2>2. Closed(open, x)
    <3>1. \A i \in 1..n : i \in 1..Len(longer)
      BY <1>0, <1>1
    <3>2. QED
      BY <1>1, <1>11, <3>1 DEF Closed, n
  <2>3. StatsOf(r, x) = StatsOf(st, x)
    BY <1>2, <1>7, <1>8, <2>1 DEF StatsOf
  <2>4. QED
    BY <2>2, <2>3 DEF ClosedExact
<1>12. ClosedExact(r, longer, tr)
  BY <1>11 DEF ClosedExact
<1>13. QED
  BY <1>10, <1>12 DEF longer

(* The innermost loop the parser holds open has an object of its own.        *)
LEMMA InnermostObject ==
  ASSUME NEW st, GoodOrder(st), NEW open, Follows(st, open), Distinct(open),
         st.loops # <<>>, NEW o, o = Last(st.loops), NEW n, n = Len(open)
  PROVE  /\ n \in Nat /\ n > 0 /\ o = st.loops[n]
         /\ o \in 1..Len(st.objs) /\ Len(st.objs) \in Nat
         /\ st.objs[o].id = open[n]
         /\ \A i \in 1..n : st.loops[i] \in 1..Len(st.objs) /\ open[i] \in LoopId
         /\ \A i \in 1..(n - 1) : i \in 1..n /\ open[i] # open[n] /\ st.loops[i] # o
         /\ \A x \in LoopId : st.hmap[x] # 0 => st.hmap[x] \in 1..Len(st.objs)
         /\ \A x \in LoopId : st.hmap[x] # 0 /\ x # open[n] => st.hmap[x] # o
<1>1. /\ st.loops \in Seq(Nat) /\ Len(st.loops) \in Nat /\ Len(st.objs) \in Nat
      /\ Len(st.loops) > 0 /\ o \in 1..Len(st.objs)
      /\ \A p \in 1..Len(st.objs) : st.objs[p] \in LoopObject
  BY OrderFacts
<1>2. n = Len(st.loops) /\ n \in 1..n
  BY <1>1 DEF Follows
<1>3. o = st.loops[n]
  BY <1>1, <1>2, FrontProperties
<1>4. \A i \in 1..n : st.loops[i] \in 1..Len(st.objs) /\ st.objs[st.loops[i]].id = open[i]
  BY <1>2 DEF GoodOrder, Follows
<1>5. \A i \in 1..n : open[i] \in LoopId
  BY <1>1, <1>4 DEF LoopObject
<1>6. st.objs[o].id = open[n]
  BY <1>2, <1>3, <1>4
<1>7. \A i \in 1..(n - 1) : i \in 1..n /\ i < n
  BY <1>1, <1>2
<1>8. \A i \in 1..(n - 1) : i \in 1..n /\ open[i] # open[n]
  BY <1>2, <1>7 DEF Distinct
<1>9. \A i \in 1..(n - 1) : st.loops[i] # o
  BY <1>4, <1>6, <1>8
<1>10. /\ \A x \in LoopId : st.hmap[x] # 0 => st.hmap[x] \in 1..Len(st.objs)
       /\ \A x \in LoopId : st.hmap[x] # 0 /\ x # open[n] => st.hmap[x] # o
  BY <1>6 DEF GoodOrder
<1>11. QED
  BY <1>1, <1>2, <1>3, <1>4, <1>5, <1>6, <1>8, <1>9, <1>10

(* What is entered in the account of id when the loop is left after v        *)
(* iterations, and when a sampled iteration ends that did the work w.        *)
LeftTruth(tr, id, v, tr2) ==
  /\ \A x \in LoopId : x # id => tr2[x] = tr[x]
  /\ tr2[id].execs = tr[id].execs + 1 /\ tr2[id].iters = tr[id].iters + v
  /\ tr2[id].sampled = tr[id].sampled /\ tr2[id].work = tr[id].work

SampledTruth(tr, id, w, tr2) ==
  /\ \A x \in LoopId : x # id => tr2[x] = tr[x]
  /\ tr2[id].sampled = tr[id].sampled + 1 /\ tr2[id].work = tr[id].work + w
  /\ tr2[id].execs = tr[id].execs /\ tr2[id].iters = tr[id].iters

LEMMA ExactExit ==
  ASSUME NEW st, GoodOrder(st), NEW open \in Seq(Nat), Follows(st, open), Distinct(open),
         NEW tr, OpenExact(st, open, tr), ClosedExact(st, open, tr), st.loops # <<>>,
         NEW v, NEW mid, NiterRead(st, v, mid), NEW r, ExitRead(mid, r),
         NEW tr2, LeftTruth(tr, Last(open), v, tr2)
  PROVE  OpenExact(r, Rest(open), tr2) /\ ClosedExact(r, Rest(open), tr2)
<1> DEFINE o == Last(st.loops)
           n == Len(open)
           id == open[n]
           shorter == Rest(open)
<1>0. /\ n \in Nat /\ n > 0 /\ o = st.loops[n]
      /\ o \in 1..Len(st.objs) /\ Len(st.objs) \in Nat
      /\ st.objs[o].id = id
      /\ \A i \in 1..n : st.loops[i] \in 1..Len(st.objs) /\ open[i] \in LoopId
      /\ \A i \in 1..(n - 1) : i \in 1..n /\ open[i] # id /\ st.loops[i] # o
      /\ \A x \in LoopId : st.hmap[x] # 0 => st.hmap[x] \in 1..Len(st.objs)
      /\ \A x \in LoopId : st.hmap[x] # 0 /\ x # id => st.hmap[x] # o
  <2> HIDE DEF o, n
  <2>1. o = Last(st.loops) /\ n = Len(open)
    BY DEF o, n
  <2>2. QED
    BY <2>1, InnermostObject, SMTT(30)
<1>1. /\ Len(shorter) = n - 1 /\ Last(open) = id
      /\ \A i \in 1..(n - 1) : shorter[i] = open[i]
  <2>1. open # <<>>
    BY <1>0, EmptySeq
  <2>2. QED
    BY <2>1, FrontProperties DEF Rest
<1>2. n \in 1..n /\ id \in LoopId /\ st.loops \in Seq(Nat) /\ Len(st.loops) = n
      /\ st.hmap \in [LoopId -> Nat]
  BY <1>0, OrderFacts, SMTT(30) DEF Follows
<1>3. /\ mid.loops = st.loops /\ mid.hmap = st.hmap /\ mid.iters = st.iters
      /\ OthersKept(st, o, mid) /\ Len(mid.objs) = Len(st.objs)
      /\ Counted(st.objs[o], v, mid.objs[o])
  BY DEF NiterRead
<1>4. /\ OthersKept(mid, o, r) /\ Exited(mid.objs[o], n - 1, r.objs[o])
      /\ r.loops = Front(st.loops)
      /\ r.hmap = IF st.hmap[id] # 0 THEN st.hmap ELSE [st.hmap EXCEPT ![id] = o]
  <2>1. mid.objs[o].id = id
    BY <1>0, <1>3 DEF Counted
  <2>2. QED
    BY <1>2, <1>3, <2>1 DEF ExitRead
<1>5. \A p \in 1..Len(st.objs) : p # o => r.objs[p] = st.objs[p]
  BY <1>3, <1>4 DEF OthersKept
<1>6. \A i \in 1..(n - 1) : r.loops[i] = st.loops[i]
  <2>1. \A i \in 1..(Len(st.loops) - 1) : Front(st.loops)[i] = st.loops[i]
    BY <1>2, FrontProperties
  <2>2. QED
    BY <1>2, <1>4, <2>1
<1>7. \A x \in LoopId : x # id => r.hmap[x] = st.hmap[x]
  BY <1>2, <1>4
<1>8. r.hmap[id] = o /\ o # 0
  <2>1. st.hmap[id] = 0 \/ st.hmap[id] = o
    BY <1>0, <1>2 DEF OpenExact
  <2>2. QED
    BY <1>0, <1>2, <1>4, <2>1, SMTT(30)
<1>9. Accounts(r.objs[o], tr2[id])
  <2>1. Accounts(st.objs[o], tr[id]) /\ st.objs[o].lastInit = n - 1
    BY <1>0, <1>2 DEF OpenExact
  <2>2. LeftTruth(tr, id, v, tr2)
    BY <1>1
  <2> DEFINE a == st.objs[o]
             b == mid.objs[o]
             c == r.objs[o]
  <2>3. Counted(a, v, b) /\ Exited(b, n - 1, c) /\ Accounts(a, tr[id]) /\ a.lastInit = n - 1
    BY <1>3, <1>4, <2>1
  <2> HIDE DEF a, b, c, id
  <2>4. c.own
    BY <2>3 DEF Counted, Exited, Accounts
  <2>5. QED
    BY <2>2, <2>3, <2>4 DEF Counted, Exited, Accounts, LeftTruth, c
<1>10. \A x \in LoopId : x # id => tr2[x] = tr[x]
  BY <1>1 DEF LeftTruth
<1> HIDE DEF o, n, id, shorter
<1>11. ASSUME NEW i \in 1..(n - 1)
       PROVE  /\ Accounts(r.objs[r.loops[i]], tr2[shorter[i]])
              /\ r.objs[r.loops[i]].lastInit = i - 1
              /\ r.hmap[shorter[i]] = 0 \/ r.hmap[shorter[i]] = r.loops[i]
  <2>1. /\ i \in 1..n /\ r.loops[i] = st.loops[i] /\ shorter[i] = open[i]
        /\ open[i] # id /\ open[i] \in LoopId /\ st.loops[i] # o
        /\ st.loops[i] \in 1..Len(st.objs)
    BY <1>0, <1>1, <1>6
  <2>2. /\ r.objs[r.loops[i]] = st.objs[st.loops[i]] /\ tr2[shorter[i]] = tr[open[i]]
        /\ r.hmap[shorter[i]] = st.hmap[open[i]]
    BY <1>5, <1>7, <1>10, <2>1
  <2>3. QED
    BY <2>1, <2>2 DEF OpenExact, n
<1>12. ASSUME NEW x \in LoopId, Closed(shorter, x)
       PROVE  Accounts(StatsOf(r, x), tr2[x])
  <2>1. CASE x = id
    BY <1>8, <1>9, <2>1 DEF StatsOf
  <2>2. CASE x # id
    <3>1. Closed(open, x)
      <4>1. \A i \in 1..n : i \in 1..(n - 1) \/ i = n
        BY <1>0
      <4>2. \A i \in 1..(n - 1) : open[i] # x
        BY <1>1, <1>12 DEF Closed
      <4>3. \A i \in 1..n : open[i] # x
        BY <2>2, <4>1, <4>2 DEF id
      <4>4. QED
        BY <4>3 DEF Closed, n
    <3>2. StatsOf(r, x) = StatsOf(st, x)
      BY <1>0, <1>5, <1>7, <2>2 DEF StatsOf
    <3>3. QED
      BY <1>10, <2>2, <3>1, <3>2 DEF ClosedExact
  <2>3. QED
    BY <2>1, <2>2
<1>13. OpenExact(r, shorter, tr2)
  BY <1>1, <1>11 DEF OpenExact
<1>14. ClosedExact(r, shorter, tr2)
  BY <1>12 DEF ClosedExact
<1>15. QED
  BY <1>13, <1>14 DEF shorter

LEMMA ExactSampled ==
  ASSUME NEW st, GoodOrder(st), NEW open, Follows(st, open), Distinct(open),
         NEW tr, OpenExact(st, open, tr), ClosedExact(st, open, tr), st.loops # <<>>,
         NEW hwc, NEW r, IterExitRead(st, hwc, r),
         NEW tr2, NEW w, SampledTruth(tr, open[Len(open)], w, tr2),
         ~MpiCounters => w = Last(Updated(st.iters, hwc))
  PROVE  OpenExact(r, open, tr2) /\ ClosedExact(r, open, tr2)
<1> DEFINE o == Last(st.loops)
           n == Len(open)
           id == open[n]
           done == Last(Updated(st.iters, hwc))
<1>0. /\ n \in Nat /\ n > 0 /\ o = st.loops[n]
      /\ o \in 1..Len(st.objs) /\ Len(st.objs) \in Nat
      /\ st.objs[o].id = id
      /\ \A i \in 1..n : st.loops[i] \in 1..Len(st.objs) /\ open[i] \in LoopId
      /\ \A i \in 1..(n - 1) : i \in 1..n /\ open[i] # id /\ st.loops[i] # o
      /\ \A x \in LoopId : st.hmap[x] # 0 => st.hmap[x] \in 1..Len(st.objs)
      /\ \A x \in LoopId : st.hmap[x] # 0 /\ x # id => st.hmap[x] # o
  <2> HIDE DEF o, n
  <2>1. o = Last(st.loops) /\ n = Len(open)
    BY DEF o, n
  <2>2. QED
    BY <2>1, InnermostObject
<1>1. n \in 1..n /\ id \in LoopId
  BY <1>0
<1>2. /\ r.loops = st.loops /\ r.hmap = st.hmap
      /\ OthersKept(st, o, r) /\ Sampled(st.objs[o], done, r.objs[o])
  BY DEF IterExitRead
<1>3. \A p \in 1..Len(st.objs) : p # o => r.objs[p] = st.objs[p]
  BY <1>2 DEF OthersKept
<1>4. Accounts(st.objs[o], tr[id]) /\ st.objs[o].lastInit = n - 1
  BY <1>0, <1>1 DEF OpenExact
<1>5. Accounts(r.objs[o], tr2[id]) /\ r.objs[o].lastInit = n - 1
  <2>1. SampledTruth(tr, id, w, tr2) /\ (~MpiCounters => w = done)
    OBVIOUS
  <2> DEFINE a == st.objs[o]
             c == r.objs[o]
  <2>2. Sampled(a, done, c) /\ Accounts(a, tr[id]) /\ a.lastInit = n - 1
    BY <1>2, <1>4
  <2> HIDE DEF a, c, id, done
  <2>3. c.own /\ c.lastInit = n - 1
    BY <2>2 DEF Sampled, Accounts
  <2>4. Accounts(c, tr2[id])
    BY <2>1, <2>2, <2>3 DEF Sampled, Accounts, SampledTruth
  <2>5. QED
    BY <2>3, <2>4 DEF c
<1>6. \A x \in LoopId : x # id => tr2[x] = tr[x]
  BY DEF SampledTruth
<1>7. \A i \in 1..n : st.hmap[open[i]] = 0 \/ st.hmap[open[i]] = st.loops[i]
  BY DEF OpenExact
<1> HIDE DEF o, n, id
<1>8. ASSUME NEW i \in 1..n
      PROVE  /\ Accounts(r.objs[r.loops[i]], tr2[open[i]])
             /\ r.objs[r.loops[i]].lastInit = i - 1
             /\ r.hmap[open[i]] = 0 \/ r.hmap[open[i]] = r.loops[i]
  <2>1. CASE i = n
    BY <1>0, <1>2, <1>5, <1>7, <2>1 DEF id
  <2>2. CASE i \in 1..(n - 1)
    <3>1. /\ open[i] # id /\ open[i] \in LoopId /\ st.loops[i] # o
          /\ st.loops[i] \in 1..Len(st.objs)
      BY <1>0, <2>2
    <3>2. r.objs[r.loops[i]] = st.objs[st.loops[i]] /\ tr2[open[i]] = tr[open[i]]
      BY <1>2, <1>3, <1>6, <3>1
    <3>3. QED
      BY <1>2, <3>2 DEF OpenExact, n
  <2>3. QED
    BY <1>0, <2>1, <2>2
<1>9. ASSUME NEW x \in LoopId, Closed(open, x)
      PROVE  Accounts(StatsOf(r, x), tr2[x])
  <2>1. x # id
    BY <1>1, <1>9 DEF Closed, n, id
  <2>2. StatsOf(r, x) = StatsOf(st, x)
    BY <1>0, <1>2, <1>3, <2>1 DEF StatsOf
  <2>3. QED
    BY <1>6, <1>9, <2>1, <2>2 DEF ClosedExact
<1>10. QED
  BY <1>8, <1>9 DEF OpenExact, ClosedExact, n

(* Without recursion an open loop is open once.                              *)
LoopsInv ==
  /\ \A i, j \in 1..Len(loops) : i < j => loops[i].loop # loops[j].loop
  /\ \A i \in 1..Len(loops) : loops[i].n <= MaxIters

LEMMA LoopsEntered ==
  ASSUME TypeOK, LoopsInv, NEW l \in Loop,
         \A i \in 1..Len(loops) : loops[i].loop # l,
         loops' = Append(loops, [loop |-> l, n |-> 0])
  PROVE  LoopsInv'
<1> DEFINE k == Len(loops)
           one == [loop |-> l, n |-> 0]
           q == Append(loops, one)
<1>1. k \in Nat
  BY LenProperties DEF TypeOK, ProgramOK
<1>2. /\ Len(q) = k + 1 /\ q[k + 1] = one
      /\ \A i \in 1..k : q[i] = loops[i]
  BY LoopStackFacts
<1>3. one.loop = l /\ one.n = 0 /\ 0 <= MaxIters
  BY BoundsAssumption
<1>4. /\ \A i, j \in 1..k : i < j => loops[i].loop # loops[j].loop
      /\ \A i \in 1..k : loops[i].n <= MaxIters /\ loops[i].loop # l
  BY DEF LoopsInv
<1> HIDE DEF k, q, one
<1>5. ASSUME NEW i \in 1..(k + 1), NEW j \in 1..(k + 1), i < j
      PROVE  q[i].loop # q[j].loop
  <2>1. i \in 1..k
    BY <1>1, <1>5
  <2>2. CASE j \in 1..k
    BY <1>2, <1>4, <1>5, <2>1, <2>2
  <2>3. CASE j = k + 1
    BY <1>2, <1>3, <1>4, <2>1, <2>3
  <2>4. QED
    BY <1>1, <2>2, <2>3
<1>6. ASSUME NEW i \in 1..(k + 1)
      PROVE  q[i].n <= MaxIters
  <2>1. i \in 1..k \/ i = k + 1
    BY <1>1
  <2>2. QED
    BY <1>2, <1>3, <1>4, <2>1
<1>7. loops' = q
  BY DEF q, one
<1>8. QED
  BY <1>2, <1>5, <1>6, <1>7 DEF LoopsInv

LEMMA LoopsStay ==
  ASSUME ~Recursion, TypeOK, LoopsInv, ProfNext, ~jumped'
  PROVE  LoopsInv'
<1>0. loops \in Seq([loop : Loop, n : Nat]) /\ (atHeader => loops # <<>>) /\ Len(loops) \in Nat
  BY LenProperties DEF TypeOK, ProgramOK
<1>1. ASSUME NEW l \in Loop, ProfEnter(l)
      PROVE  LoopsInv'
  <2>1. /\ \A i \in 1..Len(loops) : loops[i].loop # l
        /\ loops' = Append(loops, [loop |-> l, n |-> 0])
    BY <1>1 DEF ProfEnter, EnterLoop
  <2>2. QED
    BY <2>1, LoopsEntered
<1>2. ASSUME NEW sampled \in {0, 1}, BeginIter(sampled)
      PROVE  LoopsInv'
  <2> DEFINE k == Len(loops)
             r == [Last(loops) EXCEPT !.n = @ + 1]
             q == Append(Front(loops), r)
  <2>1. loops # <<>> /\ Last(loops).n < MaxIters /\ loops' = q
    BY <1>0, <1>2 DEF BeginIter
  <2>2. /\ Len(q) = k /\ k \in Nat \ {0} /\ Last(loops) = loops[k]
        /\ \A i \in 1..(k - 1) : q[i] = loops[i]
        /\ q[k].n = loops[k].n + 1
        /\ q[k].loop = loops[k].loop
    BY <2>1, LoopStackFacts
  <2>3. loops[k].n \in Nat /\ MaxIters \in Nat
    BY <1>0, <2>1, <2>2, LoopRecords, BoundsAssumption
  <2> HIDE DEF k, q, r
  <2>4. \A i \in 1..k : i \in 1..(k - 1) \/ i = k
    BY <2>2
  <2>5. \A i \in 1..k : q[i].loop = loops[i].loop
    BY <2>2, <2>4
  <2>6. q[k].n <= MaxIters
    BY <2>1, <2>2, <2>3
  <2>7. \A i \in 1..k : q[i].n <= MaxIters
    BY <2>2, <2>4, <2>6 DEF LoopsInv, k
  <2>8. QED
    BY <2>1, <2>2, <2>5, <2>7 DEF LoopsInv, k
<1>3. ASSUME ExitLoop
      PROVE  LoopsInv'
  <2> DEFINE k == Len(loops)
             q == Front(loops)
  <2>1. loops # <<>> /\ loops' = q
    BY <1>0, <1>3 DEF ExitLoop
  <2>2. Len(q) = k - 1 /\ \A i \in 1..(k - 1) : q[i] = loops[i]
    BY <1>0, <2>1, FrontProperties
  <2>3. \A i \in 1..(k - 1) : i \in 1..k
    BY <1>0
  <2> HIDE DEF q
  <2>4. QED
    BY <2>1, <2>2, <2>3 DEF LoopsInv
<1>4. ASSUME loops' = loops
      PROVE  LoopsInv'
  BY <1>4 DEF LoopsInv
<1>5. EndIter \/ ProfMpiCall \/ Work => loops' = loops
  BY DEF EndIter, ProfMpiCall, MpiCall, Work, program
<1>6. ~ProfJump
  BY DEF ProfJump
<1>7. QED
  BY <1>1, <1>2, <1>3, <1>4, <1>5, <1>6 DEF ProfNext, ProfStep

(* What a step enters in the account, by the events it emits.                *)
LEMMA RecordCases ==
  ASSUME RecordTruth, ~jumped', NEW id, id = Hash[Last(loops).loop]
  PROVE  /\ loops # <<>> /\ Emits("LOOP", FALSE) /\ ~Emits("ITER", FALSE) =>
              truth' = [truth EXCEPT ![id].execs = @ + 1, ![id].iters = @ + Last(loops).n]
         /\ ~Emits("LOOP", FALSE) /\ Emits("ITER", FALSE) /\ starts # <<>> =>
              truth' = [truth EXCEPT ![id].sampled = @ + 1,
                                     ![id].work    = @ + (work - Last(starts))]
         /\ ~Emits("LOOP", FALSE) /\ ~Emits("ITER", FALSE) => truth' = truth
         /\ Emits("ITER", TRUE) /\ ~Emits("ITER", FALSE) => starts' = Append(starts, work)
         /\ ~Emits("ITER", TRUE) /\ Emits("ITER", FALSE) /\ starts # <<>> =>
              starts' = Front(starts)
         /\ ~Emits("ITER", TRUE) /\ ~Emits("ITER", FALSE) => starts' = starts
<1> DEFINE began == ~jumped' /\ Emits("ITER", TRUE)
           ended == ~jumped' /\ Emits("ITER", FALSE) /\ starts # <<>>
           left  == ~jumped' /\ loops # <<>> /\ Emits("LOOP", FALSE)
           t1    == [truth EXCEPT ![id].execs = @ + 1, ![id].iters = @ + Last(loops).n]
           t2    == [truth EXCEPT ![id].sampled = @ + 1,
                                  ![id].work    = @ + (work - Last(starts))]
<1>1. /\ truth' = CASE left -> t1 [] ended -> t2 [] OTHER -> truth
      /\ starts' = CASE began -> Append(starts, work)
                     [] ended -> Front(starts)
                     [] OTHER -> starts
  BY DEF RecordTruth
<1>2. /\ began <=> Emits("ITER", TRUE)
      /\ ended <=> Emits("ITER", FALSE) /\ starts # <<>>
      /\ left <=> loops # <<>> /\ Emits("LOOP", FALSE)
  OBVIOUS
<1> HIDE DEF began, ended, left, t1, t2
<1>3. QED
  BY <1>1, <1>2 DEF t1, t2

(* The events by which RecordTruth tells the steps apart.                    *)
LEMMA MarksEmit ==
  /\ Silent => ~Emits("LOOP", FALSE) /\ ~Emits("ITER", FALSE) /\ ~Emits("ITER", TRUE)
  /\ \A l \in Loop : MarksEntry(l) =>
       ~Emits("LOOP", FALSE) /\ ~Emits("ITER", FALSE) /\ ~Emits("ITER", TRUE)
  /\ MarksExit => Emits("LOOP", FALSE) /\ ~Emits("ITER", FALSE) /\ ~Emits("ITER", TRUE)
  /\ \A n \in Nat \ {0} : MarksIterEntry(n) =>
       ~Emits("LOOP", FALSE) /\ ~Emits("ITER", FALSE) /\ Emits("ITER", TRUE)
  /\ MarksIterExit => ~Emits("LOOP", FALSE) /\ Emits("ITER", FALSE) /\ ~Emits("ITER", TRUE)
<1>1. ASSUME NEW e, emitted' = <<e>>
      PROVE  Len(emitted') = 1 /\ emitted'[1] = e /\ 1 \in 1..1 /\ \A i \in 1..1 : i = 1
  BY <1>1
<1>2. ASSUME NEW d, NEW e, emitted' = <<d, e>>
      PROVE  /\ Len(emitted') = 2 /\ emitted'[1] = d /\ emitted'[2] = e
             /\ 2 \in 1..2 /\ \A i \in 1..2 : i = 1 \/ i = 2
  BY <1>2
<1>3. Silent => ~Emits("LOOP", FALSE) /\ ~Emits("ITER", FALSE) /\ ~Emits("ITER", TRUE)
  BY DEF Silent, Emits
<1>4. ASSUME NEW l \in Loop, MarksEntry(l)
      PROVE  ~Emits("LOOP", FALSE) /\ ~Emits("ITER", FALSE) /\ ~Emits("ITER", TRUE)
  <2> DEFINE e == Event("LOOP", Hash[l])
  <2>1. emitted' = <<e>> /\ e.type = "LOOP" /\ e.value # 0
    BY <1>4, HashAssumption DEF MarksEntry, Event
  <2> HIDE DEF e
  <2>2. QED
    BY <1>1, <2>1 DEF Emits
<1>5. ASSUME MarksExit
      PROVE  Emits("LOOP", FALSE) /\ ~Emits("ITER", FALSE) /\ ~Emits("ITER", TRUE)
  <2> DEFINE d == Event("NITER", Popped(itercounter_stack))
             e == Event("LOOP", 0)
  <2>1. emitted' = <<d, e>> /\ d.type = "NITER" /\ e.type = "LOOP" /\ e.value = 0
    BY <1>5 DEF MarksExit, Event
  <2> HIDE DEF d, e
  <2>2. QED
    BY <1>2, <2>1 DEF Emits
<1>6. ASSUME NEW n \in Nat \ {0}, MarksIterEntry(n)
      PROVE  ~Emits("LOOP", FALSE) /\ ~Emits("ITER", FALSE) /\ Emits("ITER", TRUE)
  <2> DEFINE e == Event("ITER", n)
  <2>1. emitted' = <<e>> /\ e.type = "ITER" /\ e.value # 0
    BY <1>6 DEF MarksIterEntry, Event
  <2> HIDE DEF e
  <2>2. QED
    BY <1>1, <2>1 DEF Emits
<1>7. ASSUME MarksIterExit
      PROVE  ~Emits("LOOP", FALSE) /\ Emits("ITER", FALSE) /\ ~Emits("ITER", TRUE)
  <2> DEFINE e == Event("ITER", 0)
  <2>1. emitted' = <<e>> /\ e.type = "ITER" /\ e.value = 0
    BY <1>7 DEF MarksIterExit, Event
  <2> HIDE DEF e
  <2>2. QED
    BY <1>1, <2>1 DEF Emits
<1>8. QED
  BY <1>3, <1>4, <1>5, <1>6, <1>7

(* An event of an iteration, and only that, resets the counter - unless it   *)
(* is read at MPI calls.                                                     *)
LEMMA PendingMoves ==
  ASSUME NEW mpi, ReadCounters(mpi)
  PROVE  /\ Emits("ITER", TRUE) \/ Emits("ITER", FALSE) => pending' = 0
         /\ ~MpiCounters /\ ~Emits("ITER", TRUE) /\ ~Emits("ITER", FALSE) => pending' = pending
  BY DEF ReadCounters, CountersRead, Emits

Account == [execs : Nat, iters : Nat, sampled : Nat, work : Int]

LEMMA TruthLeft ==
  ASSUME NEW tr \in [LoopId -> Account], NEW id \in LoopId, NEW v \in Nat,
         NEW t, t = [tr EXCEPT ![id].execs = @ + 1, ![id].iters = @ + v]
  PROVE  t \in [LoopId -> Account] /\ LeftTruth(tr, id, v, t)
<1> DEFINE a == [tr[id] EXCEPT !.execs = @ + 1]
           b == [a EXCEPT !.iters = @ + v]
<1>0. tr[id] \in Account
  OBVIOUS
<1>1. /\ a \in Account /\ a.execs = tr[id].execs + 1 /\ a.iters = tr[id].iters
      /\ a.sampled = tr[id].sampled /\ a.work = tr[id].work
  BY <1>0 DEF Account
<1>2. t = [tr EXCEPT ![id] = b]
  BY <1>0
<1> HIDE DEF a
<1>3. /\ b \in Account /\ b.execs = a.execs /\ b.iters = a.iters + v
      /\ b.sampled = a.sampled /\ b.work = a.work
  BY <1>1 DEF Account
<1> HIDE DEF b
<1>4. t \in [LoopId -> Account] /\ t[id] = b /\ \A x \in LoopId : x # id => t[x] = tr[x]
  BY <1>2, <1>3
<1>5. LeftTruth(tr, id, v, t)
  BY <1>1, <1>3, <1>4 DEF LeftTruth
<1>6. QED
  BY <1>4, <1>5

LEMMA TruthSampled ==
  ASSUME NEW tr \in [LoopId -> Account], NEW id \in LoopId, NEW w \in Int,
         NEW t, t = [tr EXCEPT ![id].sampled = @ + 1, ![id].work = @ + w]
  PROVE  t \in [LoopId -> Account] /\ SampledTruth(tr, id, w, t)
<1> DEFINE a == [tr[id] EXCEPT !.sampled = @ + 1]
           b == [a EXCEPT !.work = @ + w]
<1>0. tr[id] \in Account
  OBVIOUS
<1>1. /\ a \in Account /\ a.sampled = tr[id].sampled + 1 /\ a.iters = tr[id].iters
      /\ a.execs = tr[id].execs /\ a.work = tr[id].work
  BY <1>0 DEF Account
<1>2. t = [tr EXCEPT ![id] = b]
  BY <1>0
<1> HIDE DEF a
<1>3. /\ b \in Account /\ b.execs = a.execs /\ b.work = a.work + w
      /\ b.sampled = a.sampled /\ b.iters = a.iters
  BY <1>1 DEF Account
<1> HIDE DEF b
<1>4. t \in [LoopId -> Account] /\ t[id] = b /\ \A x \in LoopId : x # id => t[x] = tr[x]
  BY <1>2, <1>3
<1>5. SampledTruth(tr, id, w, t)
  BY <1>1, <1>3, <1>4 DEF SampledTruth
<1>6. QED
  BY <1>4, <1>5

(* What the open sampled iterations, begun at the work s, have accumulated   *)
(* (list), and what the counter holds (p), is all the work done since: w.    *)
StartsExact(list, p, s, w) ==
  /\ Len(s) = Len(list)
  /\ ~MpiCounters => \A i \in 1..Len(s) : list[i] + p + s[i] = w

LEMMA StartsAppended ==
  ASSUME NEW list \in Seq(Nat), NEW p \in Nat, NEW s \in Seq(0..MaxWork), NEW w \in 0..MaxWork,
         StartsExact(list, p, s, w)
  PROVE  StartsExact(Append(Updated(list, p), 0), 0, Append(s, w), w)
<1> DEFINE k == Len(list)
           u == Updated(list, p)
           q == Append(u, 0)
           t == Append(s, w)
<1>1. k \in Nat /\ Len(s) = k /\ u \in Seq(Nat) /\ Len(u) = k
      /\ \A i \in 1..k : u[i] = list[i] + p
  BY UpdatedFacts, LenProperties DEF StartsExact
<1> HIDE DEF k, u
<1>2. 0 \in Nat
  OBVIOUS
<1>3. Len(q) = k + 1 /\ q[k + 1] = 0 /\ \A i \in 1..k : q[i] = u[i]
  BY <1>1, <1>2, AppendProperties
<1>4. Len(t) = k + 1 /\ t[k + 1] = w /\ \A i \in 1..k : t[i] = s[i]
  BY <1>1, AppendProperties
<1> HIDE DEF q, t
<1>5. ASSUME ~MpiCounters, NEW i \in 1..(k + 1)
      PROVE  q[i] + 0 + t[i] = w
  <2>1. CASE i = k + 1
    BY <1>3, <1>4, <2>1, ProfileAssumption
  <2>2. CASE i \in 1..k
    <3>1. list[i] + p + s[i] = w
      BY <1>1, <1>5, <2>2 DEF StartsExact
    <3>2. list[i] \in Nat /\ s[i] \in Nat
      <4>1. i \in 1..Len(list) /\ i \in 1..Len(s)
        BY <1>1, <2>2 DEF k
      <4>2. list[i] \in Nat /\ s[i] \in 0..MaxWork
        BY <4>1, ElementOfSeq
      <4>3. QED
        BY <4>2
    <3>3. q[i] = list[i] + p /\ t[i] = s[i]
      BY <1>1, <1>3, <1>4, <2>2
    <3>4. QED
      BY <3>1, <3>2, <3>3
  <2>3. QED
    BY <1>1, <2>1, <2>2
<1>6. QED
  BY <1>3, <1>4, <1>5 DEF StartsExact, q, t, u

LEMMA StartsEnded ==
  ASSUME NEW list \in Seq(Nat), NEW p \in Nat, NEW s \in Seq(0..MaxWork), NEW w \in 0..MaxWork,
         StartsExact(list, p, s, w), list # <<>>
  PROVE  /\ StartsExact(Front(Updated(list, p)), 0, Front(s), w)
         /\ s # <<>> /\ w - Last(s) \in Int
         /\ ~MpiCounters => w - Last(s) = Last(Updated(list, p))
<1> DEFINE k == Len(list)
           u == Updated(list, p)
           q == Front(u)
           t == Front(s)
<1>1. k \in Nat /\ Len(s) = k /\ u \in Seq(Nat) /\ Len(u) = k /\ u # <<>>
      /\ \A i \in 1..k : u[i] = list[i] + p
  BY UpdatedFacts, LenProperties DEF StartsExact
<1>2. k # 0 /\ s # <<>>
  BY <1>1, EmptySeq
<1> HIDE DEF k, u
<1>3. Len(q) = k - 1 /\ Last(u) = u[k] /\ \A i \in 1..(k - 1) : q[i] = u[i]
  BY <1>1, FrontProperties
<1>4. Len(t) = k - 1 /\ Last(s) = s[k] /\ \A i \in 1..(k - 1) : t[i] = s[i]
  BY <1>1, <1>2, FrontProperties
<1> HIDE DEF q, t
<1>5. ASSUME NEW i \in 1..k
      PROVE  /\ list[i] \in Nat /\ s[i] \in Nat /\ w \in Nat
             /\ ~MpiCounters => list[i] + p + s[i] = w
  BY <1>1, ElementOfSeq, ProfileAssumption, SMTT(30) DEF StartsExact, k
<1>6. ASSUME ~MpiCounters, NEW i \in 1..(k - 1)
      PROVE  q[i] + 0 + t[i] = w
  <2>1. i \in 1..k
    BY <1>1
  <2>2. q[i] = list[i] + p /\ t[i] = s[i]
    BY <1>1, <1>3, <1>4, <2>1
  <2>3. QED
    BY <1>5, <1>6, <2>1, <2>2
<1>7. w - Last(s) \in Int /\ (~MpiCounters => w - Last(s) = Last(u))
  <2>1. k \in 1..k
    BY <1>1, <1>2
  <2>2. Last(u) = list[k] + p /\ Last(s) = s[k]
    BY <1>1, <1>3, <1>4, <2>1
  <2>3. QED
    BY <1>5, <2>1, <2>2, SMTT(30)
<1>8. QED
  BY <1>2, <1>3, <1>4, <1>6, <1>7 DEF StartsExact, q, t, u

ExactInv ==
  IterMode /\ ~jumped =>
    /\ LoopsInv
    /\ truth \in [LoopId -> Account]
    /\ OpenExact(ParserState, trace_loops, truth)
    /\ ClosedExact(ParserState, trace_loops, truth)
    /\ StartsExact(iter_stack, pending, starts, work)

(* Under sampled iterations every open loop is marked.                       *)
LEMMA AllMarked ==
  ASSUME FollowInv, IterMode, ~jumped, TopDecision # 0
  PROVE  /\ Len(trace_loops) = Len(loops) /\ Len(loops) \in Nat
         /\ Len(itercounter_stack) = Len(loops)
         /\ itercounter_stack # <<>> =>
              /\ loops # <<>> /\ Len(loops) > 0
              /\ trace_loops[Len(trace_loops)] = Hash[Last(loops).loop]
              /\ Last(trace_loops) = Hash[Last(loops).loop]
              /\ Last(itercounter_stack) = Last(loops).n
<1>0. IInv
  BY DEF FollowInv
<1>1. Len(trace_iters) = OpenIters
  BY <1>0, TopDecisionMeaning
<1>2. Len(itercounter_stack) = Len(loops) /\ Len(trace_loops) = Len(loops) /\ Len(loops) \in Nat
  BY <1>0, <1>1, Relation, Shape DEF OpenIters
<1>3. ASSUME itercounter_stack # <<>>
      PROVE  /\ loops # <<>> /\ Len(loops) > 0
             /\ trace_loops[Len(trace_loops)] = Hash[Last(loops).loop]
             /\ Last(trace_loops) = Hash[Last(loops).loop]
             /\ Last(itercounter_stack) = Last(loops).n
  <2> DEFINE k == Len(loops)
  <2>1. k \in Nat /\ k # 0 /\ loops # <<>>
    BY <1>0, <1>2, <1>3, Shape
  <2>2. k \in 1..k
    BY <2>1
  <2>3. trace_loops[k] = Hash[loops[k].loop] /\ itercounter_stack[k] = loops[k].n
    BY <1>0, <1>2, <2>2, Relation
  <2>4. /\ Last(loops) = loops[k] /\ Last(trace_loops) = trace_loops[k]
        /\ Last(itercounter_stack) = itercounter_stack[k]
    BY <1>2 DEF Last
  <2>5. QED
    BY <1>2, <2>1, <2>3, <2>4
<1>4. QED
  BY <1>2, <1>3

(* Open loops have different identifiers.                                    *)
LEMMA OpenDiffer ==
  ASSUME Identified, FollowInv, IterMode, ~jumped, LoopsInv
  PROVE  /\ Distinct(trace_loops)
         /\ \A l \in Loop : (\A i \in 1..Len(loops) : loops[i].loop # l) =>
              Closed(trace_loops, Hash[l])
<1> DEFINE k == Len(trace_loops)
<1>1. k \in Nat /\ Len(loops) \in Nat /\ k <= Len(loops)
      /\ \A i \in 1..k : trace_loops[i] = Hash[loops[i].loop]
  BY SideBySide, MonitorFacts DEF FollowInv, ParserInv
<1>2. \A i \in 1..Len(loops) : loops[i].loop \in Loop
  <2>1. loops \in Seq([loop : Loop, n : Nat])
    BY MonitorFacts DEF FollowInv, ParserInv
  <2>2. \A i \in 1..Len(loops) : loops[i] \in [loop : Loop, n : Nat]
    BY <2>1, ElementOfSeq
  <2>3. QED
    BY <2>2
<1>3. \A i \in 1..k : i \in 1..Len(loops)
  BY <1>1
<1> HIDE DEF k
<1>4. \A i, j \in 1..k : i < j => trace_loops[i] # trace_loops[j]
  BY <1>1, <1>2, <1>3 DEF LoopsInv, Identified
<1>5. ASSUME NEW l \in Loop, \A i \in 1..Len(loops) : loops[i].loop # l
      PROVE  \A i \in 1..k : trace_loops[i] # Hash[l]
  BY <1>1, <1>2, <1>3, <1>5 DEF Identified
<1>6. QED
  BY <1>4, <1>5 DEF Distinct, Closed, k

(* What a step of the program leaves exact, by the record it emits.          *)
LEMMA ExactReading ==
  ASSUME Identified, MaxIters < UIntMod, FollowInv, ExactInv, IterMode, ~jumped, ~jumped',
         ProgramStep, LoopsInv', NEW r, GoodOrder(r), Reads(ParserState, r)
  PROVE  /\ truth' \in [LoopId -> Account]
         /\ OpenExact(r, trace_loops', truth') /\ ClosedExact(r, trace_loops', truth')
         /\ StartsExact(r.iters, pending', starts', work')
<1> DEFINE st   == ParserState
           open == trace_loops
<1>0. /\ GoodOrder(st) /\ Follows(st, open) /\ open \in Seq(Nat) /\ Distinct(open)
      /\ st.iters \in Seq(Nat) /\ pending \in Nat
      /\ starts \in Seq(0..MaxWork) /\ work \in 0..MaxWork
      /\ itercounter_stack # <<>> => st.loops # <<>>
      /\ Popped(decission_stack) # 0 => st.iters # <<>>
  <2>1. ParserInv /\ LoopsInv
    BY DEF FollowInv, ExactInv
  <2>2. MonitorInv /\ BoundsInv /\ GoodOrder(st) /\ Follows(st, open)
    BY <2>1 DEF ParserInv
  <2>3. st.iters \in Seq(Nat)
    BY <2>2, OrderFacts
  <2>4. Distinct(open)
    BY <2>1, OpenDiffer
  <2>5. QED
    BY <2>1, <2>2, <2>3, <2>4, ParserFacts, MonitorFacts DEF BoundsInv
<1>1. /\ truth \in [LoopId -> Account] /\ OpenExact(st, open, truth)
      /\ ClosedExact(st, open, truth) /\ StartsExact(st.iters, pending, starts, work)
  BY DEF ExactInv, ParserState
<1>2. PICK mpi \in BOOLEAN : Observed(mpi)
  BY DEF ProgramStep
<1>3. RecordTruth /\ ReadCounters(mpi) /\ work' = work
  BY <1>2 DEF Observed
<1> DEFINE id == Hash[Last(loops).loop]
<1>4. TopDecision # 0 /\ itercounter_stack # <<>> =>
        /\ id \in LoopId /\ Last(loops).n \in Nat /\ Last(loops).n < UIntMod
        /\ Last(open) = id /\ open[Len(open)] = id /\ loops # <<>>
        /\ Popped(itercounter_stack) = Last(loops).n
  <2> SUFFICES ASSUME TopDecision # 0, itercounter_stack # <<>>
               PROVE  /\ id \in LoopId /\ Last(loops).n \in Nat /\ Last(loops).n < UIntMod
                      /\ Last(open) = id /\ open[Len(open)] = id /\ loops # <<>>
                      /\ Popped(itercounter_stack) = Last(loops).n
    OBVIOUS
  <2>1. /\ loops # <<>> /\ Len(loops) > 0 /\ Len(loops) \in Nat
        /\ open[Len(open)] = id /\ Last(open) = id
        /\ Last(itercounter_stack) = Last(loops).n
    BY AllMarked
  <2>2. loops \in Seq([loop : Loop, n : Nat])
    BY MonitorFacts DEF FollowInv, ParserInv
  <2>3. Last(loops).n \in Nat /\ Last(loops).loop \in Loop
    BY <2>1, <2>2, LoopRecords
  <2>4. Last(loops).n <= MaxIters
    <3>1. Last(loops) = loops[Len(loops)] /\ Len(loops) \in 1..Len(loops)
      BY <2>1 DEF Last
    <3>2. \A i \in 1..Len(loops) : loops[i].n <= MaxIters
      BY DEF ExactInv, LoopsInv
    <3>3. QED
      BY <3>1, <3>2
  <2>5. Last(loops).n < UIntMod
    BY <2>3, <2>4, BoundsAssumption, UIntAssumption
  <2>6. Popped(itercounter_stack) = Last(loops).n
    <3>1. Popped(itercounter_stack) = Last(loops).n % UIntMod
      BY <2>1 DEF Popped
    <3>2. \A v \in Nat : v < UIntMod => v % UIntMod = v
      BY UIntAssumption
    <3>3. QED
      BY <2>3, <2>5, <3>1, <3>2
  <2>7. QED
    BY <2>1, <2>3, <2>5, <2>6 DEF LoopId
<1>5. PICK i0 : i0 = id
  OBVIOUS
<1>6. CASE Silent /\ r = st
  <2>1. truth' = truth /\ starts' = starts
    BY <1>3, <1>6, MarksEmit, RecordCases
  <2>2. trace_loops' = open
    BY <1>6 DEF Silent
  <2>3. ~MpiCounters => pending' = pending
    BY <1>3, <1>6, MarksEmit, PendingMoves
  <2> HIDE DEF st, open
  <2>4. StartsExact(st.iters, pending', starts', work')
    BY <1>1, <1>3, <2>1, <2>3 DEF StartsExact
  <2>5. QED
    BY <1>1, <1>6, <2>1, <2>2, <2>4
<1>7. ASSUME NEW l \in Loop, MarksEntry(l), EntryRead(st, Hash[l], r)
      PROVE  /\ truth' \in [LoopId -> Account]
             /\ OpenExact(r, trace_loops', truth') /\ ClosedExact(r, trace_loops', truth')
             /\ StartsExact(r.iters, pending', starts', work')
  <2>1. truth' = truth /\ starts' = starts
    BY <1>3, <1>7, MarksEmit, RecordCases
  <2>2. trace_loops' = Append(open, Hash[l])
    BY <1>7 DEF MarksEntry
  <2>3. ~MpiCounters => pending' = pending
    BY <1>3, <1>7, MarksEmit, PendingMoves
  <2>4. Hash[l] \in LoopId /\ Hash[l] \in Nat
    BY HashAssumption DEF LoopId
  <2>5. Closed(open, Hash[l])
    <3>1. \A i \in 1..Len(loops) : loops[i].loop # l
      <4> DEFINE k == Len(loops)
                 one == [loop |-> l, n |-> 0]
                 q == Append(loops, one)
      <4>1. k \in Nat /\ loops' = q
        BY <1>7, MonitorFacts DEF FollowInv, ParserInv, MarksEntry
      <4>2. Len(q) = k + 1 /\ q[k + 1] = one /\ \A i \in 1..k : q[i] = loops[i]
        BY LoopStackFacts DEF FollowInv, ParserInv, MonitorInv
      <4>3. one.loop = l
        OBVIOUS
      <4> HIDE DEF k, q, one
      <4>4. \A i, j \in 1..Len(q) : i < j => q[i].loop # q[j].loop
        BY <4>1 DEF LoopsInv
      <4>5. ASSUME NEW i \in 1..k
            PROVE  loops[i].loop # l
        <5>1. i \in 1..Len(q) /\ k + 1 \in 1..Len(q) /\ i < k + 1
          BY <4>1, <4>2
        <5>2. QED
          BY <4>2, <4>3, <4>4, <5>1
      <4>6. QED
        BY <4>5 DEF k
    <3>2. LoopsInv
      BY DEF ExactInv
    <3>3. QED
      BY <3>1, <3>2, OpenDiffer
  <2> HIDE DEF st, open
  <2>6. OpenExact(r, Append(open, Hash[l]), truth) /\ ClosedExact(r, Append(open, Hash[l]), truth)
    BY <1>0, <1>1, <1>7, <2>4, <2>5, ExactEntry
  <2>7. StartsExact(r.iters, pending', starts', work')
    BY <1>1, <1>3, <1>7, <2>1, <2>3 DEF StartsExact, EntryRead
  <2>8. QED
    BY <1>1, <2>1, <2>2, <2>6, <2>7
<1>8. ASSUME MarksExit, NEW mid, GoodOrder(mid),
             NiterRead(st, Popped(itercounter_stack), mid), ExitRead(mid, r)
      PROVE  /\ truth' \in [LoopId -> Account]
             /\ OpenExact(r, trace_loops', truth') /\ ClosedExact(r, trace_loops', truth')
             /\ StartsExact(r.iters, pending', starts', work')
  <2> DEFINE v == Last(loops).n
  <2>1. /\ itercounter_stack # <<>> /\ TopDecision # 0 /\ loops # <<>>
        /\ trace_loops' = Rest(open)
    BY <1>8 DEF MarksExit
  <2>2. /\ id \in LoopId /\ v \in Nat /\ Last(open) = id /\ Popped(itercounter_stack) = v
        /\ st.loops # <<>>
    BY <1>0, <1>4, <2>1
  <2>3. Emits("LOOP", FALSE) /\ ~Emits("ITER", FALSE) /\ ~Emits("ITER", TRUE)
    BY <1>8, MarksEmit
  <2>4. /\ truth' = [truth EXCEPT ![i0].execs = @ + 1, ![i0].iters = @ + v]
        /\ starts' = starts
    <3> HIDE DEF open
    <3>1. QED
      BY <1>3, <1>5, <2>1, <2>3, RecordCases
  <2>5. ~MpiCounters => pending' = pending
    BY <1>3, <2>3, PendingMoves
  <2> HIDE DEF st, open, v, id
  <2>6. truth' \in [LoopId -> Account] /\ LeftTruth(truth, i0, v, truth')
    <3>1. i0 \in LoopId
      BY <1>5, <2>2
    <3>2. QED
      BY <1>1, <2>2, <2>4, <3>1, TruthLeft
  <2>7. OpenExact(r, Rest(open), truth') /\ ClosedExact(r, Rest(open), truth')
    BY <1>0, <1>1, <1>5, <1>8, <2>2, <2>6, ExactExit
  <2>8. r.iters = st.iters
    BY <1>8 DEF NiterRead, ExitRead
  <2>9. StartsExact(r.iters, pending', starts', work')
    BY <1>1, <1>3, <2>4, <2>5, <2>8 DEF StartsExact
  <2>10. QED
    BY <2>1, <2>6, <2>7, <2>9
<1>9. ASSUME NEW n \in Nat \ {0}, MarksIterEntry(n), IterEntryRead(st, pending, r)
      PROVE  /\ truth' \in [LoopId -> Account]
             /\ OpenExact(r, trace_loops', truth') /\ ClosedExact(r, trace_loops', truth')
             /\ StartsExact(r.iters, pending', starts', work')
  <2>1. truth' = truth /\ starts' = Append(starts, work)
    BY <1>3, <1>9, MarksEmit, RecordCases
  <2>2. trace_loops' = open
    BY <1>9 DEF MarksIterEntry
  <2>3. pending' = 0
    BY <1>3, <1>9, MarksEmit, PendingMoves
  <2> HIDE DEF st, open
  <2>4. /\ r.objs = st.objs /\ r.loops = st.loops /\ r.hmap = st.hmap
        /\ r.iters = Append(Updated(st.iters, pending), 0)
    BY <1>9 DEF IterEntryRead
  <2>5. OpenExact(r, open, truth) /\ ClosedExact(r, open, truth)
    BY <1>1, <2>4 DEF OpenExact, ClosedExact, StatsOf
  <2>6. StartsExact(Append(Updated(st.iters, pending), 0), 0, Append(starts, work), work)
    BY <1>0, <1>1, StartsAppended
  <2>7. QED
    BY <1>1, <1>3, <2>1, <2>2, <2>3, <2>4, <2>5, <2>6
<1>10. ASSUME MarksIterExit, IterExitRead(st, pending, r)
       PROVE  /\ truth' \in [LoopId -> Account]
              /\ OpenExact(r, trace_loops', truth') /\ ClosedExact(r, trace_loops', truth')
              /\ StartsExact(r.iters, pending', starts', work')
  <2> DEFINE w == work - Last(starts)
  <2>1. /\ itercounter_stack # <<>> /\ TopDecision # 0 /\ Popped(decission_stack) # 0
        /\ trace_loops' = open
    BY <1>10 DEF MarksIterExit
  <2>2. /\ id \in LoopId /\ open[Len(open)] = id
        /\ st.loops # <<>> /\ st.iters # <<>>
    BY <1>0, <1>4, <2>1
  <2>3. /\ StartsExact(Front(Updated(st.iters, pending)), 0, Front(starts), work)
        /\ starts # <<>> /\ w \in Int
        /\ ~MpiCounters => w = Last(Updated(st.iters, pending))
    <3> HIDE DEF st
    <3>1. QED
      BY <1>0, <1>1, <2>2, StartsEnded
  <2>4. ~Emits("LOOP", FALSE) /\ Emits("ITER", FALSE) /\ ~Emits("ITER", TRUE)
    BY <1>10, MarksEmit
  <2>5. /\ truth' = [truth EXCEPT ![i0].sampled = @ + 1, ![i0].work = @ + w]
        /\ starts' = Front(starts)
    <3> HIDE DEF open
    <3>1. QED
      BY <1>3, <1>5, <2>3, <2>4, RecordCases
  <2>6. pending' = 0
    BY <1>3, <2>4, PendingMoves
  <2> HIDE DEF st, open, w, id
  <2>7. truth' \in [LoopId -> Account] /\ SampledTruth(truth, i0, w, truth')
    <3>1. i0 \in LoopId
      BY <1>5, <2>2
    <3>2. QED
      BY <1>1, <2>3, <2>5, <3>1, TruthSampled
  <2>8. SampledTruth(truth, open[Len(open)], w, truth')
    BY <1>5, <2>2, <2>7
  <2>9. OpenExact(r, open, truth') /\ ClosedExact(r, open, truth')
    BY <1>0, <1>1, <1>10, <2>2, <2>3, <2>8, ExactSampled
  <2>10. r.iters = Front(Updated(st.iters, pending))
    BY <1>10 DEF IterExitRead
  <2>11. QED
    BY <1>3, <2>1, <2>3, <2>5, <2>6, <2>7, <2>9, <2>10
<1>11. QED
  BY <1>6, <1>7, <1>8, <1>9, <1>10 DEF Reads

LEMMA ExactInit == ProfInit => ExactInv
<1> SUFFICES ASSUME ProfInit
             PROVE  ExactInv
  OBVIOUS
<1>1. /\ loops = <<>> /\ trace_loops = <<>> /\ starts = <<>> /\ iter_stack = <<>>
      /\ truth = [id \in LoopId |-> Total] /\ loop_hmap = [id \in LoopId |-> 0]
  BY DEF ProfInit, Init
<1>2. Len(<<>>) = 0
  OBVIOUS
<1>3. Total \in Account
  BY DEF Total, Account
<1>4. LoopsInv /\ StartsExact(iter_stack, pending, starts, work)
  BY <1>1, <1>2 DEF LoopsInv, StartsExact
<1>5. truth \in [LoopId -> Account]
  BY <1>1, <1>3
<1>6. OpenExact(ParserState, trace_loops, truth)
  BY <1>1, <1>2 DEF OpenExact
<1>7. ASSUME NEW id \in LoopId
      PROVE  Accounts(StatsOf(ParserState, id), truth[id])
  <2>1. StatsOf(ParserState, id) = NewLoop(id) /\ truth[id] = Total
    BY <1>1 DEF StatsOf, ParserState
  <2>2. Accounts(NewLoop(id), Total)
    BY DEF Accounts, NewLoop, Total
  <2>3. QED
    BY <2>1, <2>2
<1>8. ClosedExact(ParserState, trace_loops, truth)
  BY <1>7 DEF ClosedExact
<1>9. QED
  BY <1>4, <1>5, <1>6, <1>8 DEF ExactInv

LEMMA ExactStep ==
  ASSUME Identified, ~Recursion, MaxIters < UIntMod, FollowInv, ExactInv, [ProfNext]_profVars
  PROVE  ExactInv'
<1>0. IterMode' = IterMode
  BY DEF IterMode
<1> SUFFICES ASSUME IterMode, ~jumped'
             PROVE  /\ LoopsInv'
                    /\ truth' \in [LoopId -> Account]
                    /\ OpenExact(ParserState', trace_loops', truth')
                    /\ ClosedExact(ParserState', trace_loops', truth')
                    /\ StartsExact(iter_stack', pending', starts', work')
  BY <1>0 DEF ExactInv, OpenExact, ClosedExact, Accounts, StatsOf, Closed, StartsExact
<1>1. CASE ProgramStep /\ Next /\ ProfNext
  <2>1. ~jumped
    BY <1>1 DEF ProgramStep
  <2>2. LoopsInv'
    BY <1>1, <2>1, LoopsStay DEF ExactInv, FollowInv, ParserInv, MonitorInv
  <2>3. GoodOrder(Handled) /\ Reads(ParserState, Handled)
    BY <1>1, RecordIsRead DEF FollowInv
  <2>4. Parse
    BY <1>1 DEF ProgramStep, Observed
  <2>5. ParserState' = Handled /\ iter_stack' = Handled.iters
    BY <2>3, <2>4, ParsedState
  <2> HIDE DEF Handled
  <2>6. /\ truth' \in [LoopId -> Account]
        /\ OpenExact(Handled, trace_loops', truth') /\ ClosedExact(Handled, trace_loops', truth')
        /\ StartsExact(Handled.iters, pending', starts', work')
    BY <1>1, <2>1, <2>2, <2>3, ExactReading
  <2>7. QED
    BY <2>2, <2>5, <2>6
<1>2. CASE Work \/ UNCHANGED profVars
  <2>1. UNCHANGED <<loops, trace_loops, objs, loop_stack, iter_stack, loop_hmap, failed,
                    starts, truth, jumped>>
    BY <1>2 DEF Work, profVars, vars, program, library, parser, history
  <2>2. work' + pending = work + pending'
    BY <1>2 DEF Work, profVars, history, FollowInv, ParserInv, BoundsInv
  <2>3. ParserState' = ParserState
    BY <2>1 DEF ParserState
  <2>4. /\ LoopsInv /\ truth \in [LoopId -> Account]
        /\ OpenExact(ParserState, trace_loops, truth)
        /\ ClosedExact(ParserState, trace_loops, truth)
        /\ StartsExact(iter_stack, pending, starts, work)
    BY <2>1 DEF ExactInv
  <2>5. StartsExact(iter_stack, pending', starts, work')
    <3>1. /\ \A i \in 1..Len(starts) : starts[i] \in Nat
          /\ \A i \in 1..Len(iter_stack) : iter_stack[i] \in Nat
          /\ work \in Nat /\ pending \in Nat /\ work' \in Nat /\ pending' \in Nat
      <4>1. ParserInv /\ BoundsInv /\ ParserInv'
        BY ParserStep DEF FollowInv, ParserInv
      <4>2. starts \in Seq(0..MaxWork) /\ iter_stack \in Seq(Nat)
        BY <4>1, ParserFacts, OrderFacts DEF ParserInv, BoundsInv
      <4>3. /\ work \in Nat /\ pending \in Nat /\ work' \in Nat /\ pending' \in Nat
        BY <4>1, ProfileAssumption DEF ParserInv, BoundsInv
      <4>4. \A i \in 1..Len(starts) : starts[i] \in Nat
        <5>1. \A i \in 1..Len(starts) : starts[i] \in 0..MaxWork
          BY <4>2, ElementOfSeq
        <5>2. QED
          BY <5>1, ProfileAssumption
      <4>5. \A i \in 1..Len(iter_stack) : iter_stack[i] \in Nat
        BY <4>2, ElementOfSeq
      <4>6. QED
        BY <4>3, <4>4, <4>5
    <3>2. Len(starts) = Len(iter_stack)
      BY <2>4 DEF StartsExact
    <3>3. ASSUME ~MpiCounters, NEW i \in 1..Len(starts)
          PROVE  iter_stack[i] + pending' + starts[i] = work'
      <4>1. iter_stack[i] + pending + starts[i] = work
        BY <2>4, <3>3 DEF StartsExact
      <4>2. QED
        BY <2>2, <3>1, <3>2, <3>3, <4>1, SMTT(30)
    <3>4. QED
      BY <3>2, <3>3 DEF StartsExact
  <2>6. LoopsInv'
    BY <2>1, <2>4 DEF LoopsInv
  <2>7. QED
    BY <2>1, <2>3, <2>4, <2>5, <2>6
<1>3. QED
  BY <1>1, <1>2, StepsOfProfile

LEMMA ExactInvariant ==
  ASSUME Identified, ~Recursion, MaxIters < UIntMod
  PROVE  ProfSpec => [](FollowInv /\ ExactInv)
<1>1. ProfInit => FollowInv /\ ExactInv
  BY StartsInOrder, InitIInv, ExactInit DEF FollowInv, ProfInit
<1>2. FollowInv /\ ExactInv /\ [ProfNext]_profVars => FollowInv' /\ ExactInv'
  BY FollowStep, ExactStep
<1>3. QED
  BY <1>1, <1>2, PTL DEF ProfSpec

(* A loop the program is not in has an object, or none yet, that accounts    *)
(* for what happened to it.                                                  *)
LEMMA ClosedLoopsExact ==
  ASSUME Identified, FollowInv, ExactInv, IterMode, ~jumped, NEW id \in LoopId, ~Open(id)
  PROVE  Accounts(Stats(id), truth[id])
<1>1. Closed(trace_loops, id)
  <2>1. /\ \A i \in 1..Len(trace_loops) : trace_loops[i] = Hash[loops[i].loop]
        /\ Len(trace_loops) <= Len(loops) /\ Len(trace_loops) \in Nat
    BY SideBySide
  <2>2. Len(loops) \in Nat
    BY MonitorFacts DEF FollowInv, ParserInv
  <2>3. QED
    BY <2>1, <2>2 DEF Closed, Open
<1>2. Accounts(StatsOf(ParserState, id), truth[id])
  BY <1>1 DEF ExactInv, ClosedExact
<1>3. StatsOf(ParserState, id) = Stats(id)
  BY DEF StatsOf, Stats, ParserState
<1>4. QED
  BY <1>2, <1>3

(* If no two loops share an identifier, no loop is re-entered while it is    *)
(* open and no iteration count overflows unsigned int: whatever is sampled   *)
(* and however loops nest, what the parser holds of a loop that is not open  *)
(* is what its executions did - their number, every duration measured from   *)
(* the entry it ends, the iterations and the sampled ones.                   *)
THEOREM StatisticsCorrect ==
  ASSUME Identified, ~Recursion, MaxIters < UIntMod
  PROVE  ProfSpec => []ProfileExact
<1>1. FollowInv /\ ExactInv => ProfileExact
  <2> SUFFICES ASSUME FollowInv, ExactInv, IterMode, ~jumped, NEW id \in LoopId, ~Open(id)
               PROVE  /\ Stats(id).execs = truth[id].execs
                      /\ Stats(id).own
                      /\ Stats(id).iters = truth[id].iters
                      /\ Stats(id).sampled = truth[id].sampled
    BY DEF ProfileExact
  <2>1. QED
    BY ClosedLoopsExact DEF Accounts
<1>2. QED
  BY <1>1, ExactInvariant, PTL

(* And the counters of its sampled iterations cover all the work done in     *)
(* them, unless counters are also read and reset at MPI calls.               *)
THEOREM CountersCorrect ==
  ASSUME Identified, ~Recursion, MaxIters < UIntMod
  PROVE  ProfSpec => []IterationCountersComplete
<1>1. FollowInv /\ ExactInv => IterationCountersComplete
  <2> SUFFICES ASSUME FollowInv, ExactInv, IterMode, ~jumped, ~MpiCounters,
                      NEW id \in LoopId, ~Open(id)
               PROVE  Stats(id).work = truth[id].work
    BY DEF IterationCountersComplete
  <2>1. QED
    BY ClosedLoopsExact DEF Accounts
<1>2. QED
  BY <1>1, ExactInvariant, PTL
=============================================================================
