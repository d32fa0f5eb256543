-------------------------- MODULE LoopMonitorProofs --------------------------
(* What TLAPS proves of LoopMonitor, for every value of its constants.       *)
EXTENDS LoopMonitor, SequenceTheorems, TLAPS

(* Removing the last element keeps the others.                               *)
LEMMA FrontProperties ==
  ASSUME NEW S, NEW s \in Seq(S), s # <<>>
  PROVE  /\ Len(s) \in Nat \ {0}
         /\ Front(s) \in Seq(S)
         /\ Len(Front(s)) = Len(s) - 1
         /\ \A i \in 1..(Len(s) - 1) : Front(s)[i] = s[i]
         /\ Last(s) = s[Len(s)]
         /\ Last(s) \in S
<1>1. Len(s) \in Nat \ {0}
  BY EmptySeq, LenProperties
<1>2. /\ Front(s) \in Seq(S)
      /\ Len(Front(s)) = Len(s) - 1
      /\ \A i \in 1..(Len(s) - 1) : Front(s)[i] = s[i]
  <2> DEFINE n == Len(s) - 1
  <2>1. n \in Nat /\ \A i \in 1..n : s[i] \in S
    BY <1>1
  <2> HIDE DEF n
  <2>2. /\ SubSeq(s, 1, n) \in Seq(S)
        /\ Len(SubSeq(s, 1, n)) = IF 1 <= n THEN n - 1 + 1 ELSE 0
        /\ \A i \in 1..(n - 1 + 1) : SubSeq(s, 1, n)[i] = s[1 + i - 1]
    BY <2>1, SubSeqProperties
  <2>3. /\ Len(SubSeq(s, 1, n)) = n
        /\ \A i \in 1..n : SubSeq(s, 1, n)[i] = s[i]
    BY <2>1, <2>2
  <2>4. QED
    BY <2>2, <2>3 DEF Front, n
<1>3. Last(s) = s[Len(s)] /\ Last(s) \in S
  BY <1>1 DEF Last
<1>4. QED
  BY <1>1, <1>2, <1>3

(* Replacing the last element keeps the others.                              *)
LEMMA ReplaceLast ==
  ASSUME NEW S, NEW s \in Seq(S), s # <<>>, NEW e \in S
  PROVE  /\ Append(Front(s), e) \in Seq(S)
         /\ Append(Front(s), e) # <<>>
         /\ Len(Append(Front(s), e)) = Len(s)
         /\ \A i \in 1..(Len(s) - 1) : Append(Front(s), e)[i] = s[i]
         /\ Append(Front(s), e)[Len(s)] = e
<1>1. /\ Front(s) \in Seq(S)
      /\ Len(Front(s)) = Len(s) - 1
      /\ Len(s) \in Nat \ {0}
      /\ \A i \in 1..(Len(s) - 1) : Front(s)[i] = s[i]
  BY FrontProperties
<1>2. QED
  BY <1>1, AppendProperties

(* The stack operations of the library keep the element type.                *)
LEMMA StackTypes ==
  ASSUME NEW S, NEW s \in Seq(S), NEW v \in S
  PROVE  /\ Rest(s) \in Seq(S)
         /\ Append(s, v) \in Seq(S)
         /\ Stacked(s, v) \in Seq(S)
  BY FrontProperties, AppendProperties DEF Rest, Stacked

LEMMA NatStacks ==
  /\ <<>> \in Seq(Nat)
  /\ \A s \in Seq(Nat) : Rest(s) \in Seq(Nat)
  /\ \A s \in Seq(Nat), v \in Nat : Append(s, v) \in Seq(Nat) /\ Stacked(s, v) \in Seq(Nat)
  /\ \A s \in Seq(Nat), v \in Nat :
       s # <<>> => Last(s) \in Nat /\ Append(Front(s), v) \in Seq(Nat)
<1>1. <<>> \in Seq(Nat)
  OBVIOUS
<1>2. ASSUME NEW s \in Seq(Nat), NEW v \in Nat
      PROVE  /\ Rest(s) \in Seq(Nat)
             /\ Append(s, v) \in Seq(Nat)
             /\ Stacked(s, v) \in Seq(Nat)
  BY StackTypes
<1>3. ASSUME NEW s \in Seq(Nat), NEW v \in Nat, s # <<>>
      PROVE  Last(s) \in Nat /\ Append(Front(s), v) \in Seq(Nat)
  BY <1>3, FrontProperties, ReplaceLast
<1>4. QED
  BY <1>1, <1>2, <1>3

LEMMA DecisionStacks ==
  /\ \A s \in Seq({0, 1}) : Rest(s) \in Seq({0, 1})
  /\ \A s \in Seq({0, 1}), v \in {0, 1} : Append(s, v) \in Seq({0, 1})
<1>1. ASSUME NEW s \in Seq({0, 1}), NEW v \in {0, 1}
      PROVE  Rest(s) \in Seq({0, 1}) /\ Append(s, v) \in Seq({0, 1})
  BY StackTypes
<1>2. QED
  BY <1>1

-----------------------------------------------------------------------------
LEMMA InitType == Init => TypeOK
  BY EmptySeq DEF Init, TypeOK, ProgramOK, LibraryOK

(* Every helper keeps the types of the library's state.                      *)
LEMMA EventTypes ==
  /\ \A v \in Nat, t \in {"LOOP", "ITER", "NITER"} : Event(t, v) \in EventRecord
  /\ \A v \in Nat, k \in Nat : Label(k, v) \in EventRecord
  BY DEF Event, Label, EventRecord

LEMMA EventSeqs ==
  /\ <<>> \in Seq(EventRecord)
  /\ \A e \in EventRecord : <<e>> \in Seq(EventRecord)
  /\ \A e, f \in EventRecord : <<e, f>> \in Seq(EventRecord)
  OBVIOUS

LEMMA PoppedType ==
  ASSUME NEW s \in Seq(Nat)
  PROVE  Popped(s) \in Nat
<1>1. CASE s = <<>>
  BY <1>1 DEF Popped
<1>2. CASE s # <<>>
  <2>1. Last(s) \in Nat
    BY <1>2, NatStacks
  <2>2. Last(s) % UIntMod \in Nat
    BY <2>1, UIntAssumption
  <2>3. QED
    BY <1>2, <2>2 DEF Popped
<1>3. QED
  BY <1>1, <1>2

LEMMA LoopEntryType ==
  ASSUME LibraryOK, NEW l \in Loop, helper_loop_entry(l)
  PROVE  LibraryOK'
<1>1. Hash[l] \in Nat
  BY HashAssumption
<1>2. CASE TopDecision # 0 
  BY <1>1, <1>2, NatStacks, EventTypes, EventSeqs DEF helper_loop_entry, LibraryOK
<1>3. CASE TopDecision = 0
  BY <1>3, EventSeqs DEF helper_loop_entry, LibraryOK
<1>4. QED
  BY <1>2, <1>3

LEMMA LoopExitType ==
  ASSUME LibraryOK, helper_loop_exit
  PROVE  LibraryOK'
<1>1. CASE TopDecision # 0 
  <2>1. Popped(itercounter_stack) \in Nat
    BY PoppedType DEF LibraryOK
  <2>2. emitted' \in Seq(EventRecord)
    BY <1>1, <2>1, EventTypes, EventSeqs DEF helper_loop_exit
  <2>3. QED
    BY <1>1, <2>2, NatStacks DEF helper_loop_exit, LibraryOK
<1>2. CASE TopDecision = 0
  BY <1>2, EventSeqs DEF helper_loop_exit, LibraryOK
<1>3. QED
  BY <1>1, <1>2

LEMMA IterEntryType ==
  ASSUME LibraryOK, NEW sampled \in {0, 1}, helper_loop_iter_entry(sampled)
  PROVE  LibraryOK'
<1>1. CASE TopDecision = 0
  BY <1>1, EventSeqs, DecisionStacks DEF helper_loop_iter_entry, LibraryOK
<1>2. CASE TopDecision # 0 /\ itercounter_stack # <<>>
  <2> DEFINE n == Last(itercounter_stack) + 1
  <2>1. n \in Nat
    <3>1. Last(itercounter_stack) \in Nat
      BY <1>2, NatStacks DEF LibraryOK
    <3>2. QED
      BY <3>1
  <2>2. itercounter_stack' \in Seq(Nat)
    BY <1>2, <2>1, NatStacks DEF helper_loop_iter_entry, LibraryOK
  <2>3. emitted' \in Seq(EventRecord)
    BY <1>2, <2>1, EventTypes, EventSeqs DEF helper_loop_iter_entry
  <2>4. trace_iters' \in Seq(Nat)
    BY <1>2, <2>1, NatStacks DEF helper_loop_iter_entry, LibraryOK
  <2>5. decission_stack' \in Seq({0, 1})
    BY <1>2, DecisionStacks DEF helper_loop_iter_entry, LibraryOK
  <2>6. QED
    BY <1>2, <2>2, <2>3, <2>4, <2>5 DEF helper_loop_iter_entry, LibraryOK
<1>3. CASE TopDecision # 0 /\ itercounter_stack = <<>>
  BY <1>3, EventSeqs DEF helper_loop_iter_entry, LibraryOK
<1>4. QED
  BY <1>1, <1>2, <1>3

LEMMA IterExitType ==
  ASSUME LibraryOK, helper_loop_iter_exit
  PROVE  LibraryOK'
<1>1. decission_stack' \in Seq({0, 1})
  BY DecisionStacks DEF helper_loop_iter_exit, LibraryOK
<1>2. emitted' \in Seq(EventRecord)
  BY EventTypes, EventSeqs DEF helper_loop_iter_exit
<1>3. trace_iters' \in Seq(Nat)
  BY NatStacks DEF helper_loop_iter_exit, LibraryOK
<1>4. QED
  BY <1>1, <1>2, <1>3 DEF helper_loop_iter_exit, LibraryOK

LEMMA UidTypes ==
  ASSUME LibraryOK
  PROVE  /\ \A l \in Loop : helper_loopuid_push(l) => LibraryOK'
         /\ helper_loopuid_pop => LibraryOK'
         /\ NoCall => LibraryOK'
<1>1. ASSUME NEW l \in Loop, helper_loopuid_push(l)
      PROVE  LibraryOK'
  BY <1>1, HashAssumption, NatStacks, EventSeqs DEF helper_loopuid_push, LibraryOK
<1>2. ASSUME helper_loopuid_pop
      PROVE  LibraryOK'
  BY <1>2, NatStacks, EventSeqs DEF helper_loopuid_pop, LibraryOK
<1>3. ASSUME NoCall
      PROVE  LibraryOK'
  BY <1>3, EventSeqs DEF NoCall, library, LibraryOK
<1>4. QED
  BY <1>1, <1>2, <1>3

LEMMA LabelsType ==
  ASSUME NEW s \in Seq(Nat)
  PROVE  Labels(s) \in Seq(EventRecord)
<1> DEFINE n   == Len(s)
           on  == [k \in 1..n |-> Label(k - 1, s[n - k + 1])]
           off == [k \in 1..n |-> Label(k - 1, 0)]
<1>1. n \in Nat
  BY LenProperties
<1>2. on \in [1..n -> EventRecord]
  <2>1. ASSUME NEW k \in 1..n
        PROVE  Label(k - 1, s[n - k + 1]) \in EventRecord
    BY <1>1, EventTypes, ElementOfSeq
  <2>2. QED
    BY <2>1
<1>3. off \in [1..n -> EventRecord]
  BY <1>1, EventTypes
<1> HIDE DEF on, off, n
<1>4. on \in Seq(EventRecord) /\ off \in Seq(EventRecord)
  BY <1>1, <1>2, <1>3
<1>5. on \o off \in Seq(EventRecord)
  BY <1>4, ConcatProperties
<1>6. QED
  BY <1>5 DEF Labels, on, off, n
-----------------------------------------------------------------------------
(* The steps of the program, with the types of its control state.            *)
LEMMA LoopRecords ==
  ASSUME NEW s \in Seq([loop : Loop, n : Nat]), s # <<>>
  PROVE  /\ Last(s).n \in Nat /\ Last(s).loop \in Loop
         /\ [Last(s) EXCEPT !.n = @ + 1] \in [loop : Loop, n : Nat]
<1>1. Last(s) \in [loop : Loop, n : Nat]
  BY FrontProperties
<1>2. QED
  BY <1>1

LEMMA TypeStep == TypeOK /\ [Next]_vars => TypeOK'
<1> SUFFICES ASSUME TypeOK, [Next]_vars
             PROVE  TypeOK'
  OBVIOUS
<1> DEFINE OpenLoop == [loop : Loop, n : Nat]
<1>a. ProgramOK /\ LibraryOK
  BY DEF TypeOK
<1>1. ASSUME NEW l \in Loop, EnterLoop(l)
      PROVE  TypeOK'
  <2>1. ProgramOK'
    <3>1. [loop |-> l, n |-> 0] \in OpenLoop
      OBVIOUS
    <3>2. loops' \in Seq(OpenLoop) /\ loops' # <<>>
      <4>1. loops \in Seq(OpenLoop)
        BY <1>a DEF ProgramOK
      <4>2. loops' = Append(loops, [loop |-> l, n |-> 0])
        BY <1>1 DEF EnterLoop
      <4>3. QED
        BY <3>1, <4>1, <4>2, AppendProperties
    <3>3. QED
      BY <1>1, <3>2 DEF EnterLoop, ProgramOK
  <2>2. LibraryOK'
    BY <1>a, <1>1, LoopEntryType, UidTypes DEF EnterLoop, LoopEntryCall
  <2>3. QED
    BY <2>1, <2>2 DEF TypeOK
<1>2. ASSUME NEW sampled \in {0, 1}, BeginIter(sampled)
      PROVE  TypeOK'
  <2>1. ProgramOK'
    <3>1. loops # <<>>
      BY <1>a, <1>2 DEF BeginIter, ProgramOK
    <3>2. loops' \in Seq(OpenLoop)
      BY <1>a, <1>2, <3>1, LoopRecords, ReplaceLast DEF BeginIter, ProgramOK
    <3>3. QED
      BY <1>2, <3>2 DEF BeginIter, ProgramOK
  <2>2. LibraryOK'
    BY <1>a, <1>2, IterEntryType, UidTypes DEF BeginIter
  <2>3. QED
    BY <2>1, <2>2 DEF TypeOK
<1>3. CASE EndIter
  <2>1. ProgramOK'
    BY <1>a, <1>3 DEF EndIter, ProgramOK
  <2>2. LibraryOK'
    BY <1>a, <1>3, IterExitType, UidTypes DEF EndIter
  <2>3. QED
    BY <2>1, <2>2 DEF TypeOK
<1>4. CASE ExitLoop
  <2>1. ProgramOK'
    <3>1. loops # <<>>
      BY <1>a, <1>4 DEF ExitLoop, ProgramOK
    <3>2. loops' \in Seq(OpenLoop)
      BY <1>a, <1>4, <3>1, FrontProperties DEF ExitLoop, ProgramOK
    <3>3. QED
      BY <1>4, <3>2 DEF ExitLoop, ProgramOK
  <2>2. LibraryOK'
    BY <1>a, <1>4, LoopExitType, UidTypes DEF ExitLoop, LoopExitCall
  <2>3. QED
    BY <2>1, <2>2 DEF TypeOK
<1>5. CASE MpiCall
  <2>1. emitted' \in Seq(EventRecord)
    BY <1>a, <1>5, LabelsType DEF MpiCall, LibraryOK
  <2>2. QED
    BY <1>a, <1>5, <2>1 DEF MpiCall, TypeOK, ProgramOK, LibraryOK, program, library
<1>6. CASE Continue
  BY <1>a, <1>6, UidTypes DEF Continue, TypeOK, ProgramOK
<1>7. CASE Break
  <2>1. loops' \in Seq(OpenLoop)
    BY <1>a, <1>7, FrontProperties DEF Break, ProgramOK
  <2>2. LibraryOK'
    BY <1>a, <1>7, LoopExitType, UidTypes DEF Break, LoopExitCall
  <2>3. QED
    BY <1>a, <1>7, <2>1, <2>2 DEF Break, TypeOK, ProgramOK
<1>8. ASSUME NEW k \in 0..MaxDepth, Return(k)
      PROVE  TypeOK'
  <2>0. /\ loops \in Seq(OpenLoop)
        /\ Len(loops) \in Nat
        /\ k \in Nat /\ k < Len(loops)
    BY <1>a, <1>8, BoundsAssumption, LenProperties DEF Return, ProgramOK
  <2>1. k \in Int /\ \A i \in 1..k : loops[i] \in OpenLoop
    <3>1. ASSUME NEW i \in 1..k
          PROVE  loops[i] \in OpenLoop
      <4>1. i \in 1..Len(loops)
        BY <2>0
      <4>2. QED
        BY <2>0, <4>1, ElementOfSeq
    <3>2. QED
      BY <2>0, <3>1
  <2>2. loops' \in Seq(OpenLoop)
    BY <1>8, <2>1, SubSeqProperties DEF Return
  <2>3. LibraryOK'
    BY <1>a, <1>8, UidTypes DEF Return
  <2>4. QED
    BY <1>a, <1>8, <2>2, <2>3 DEF Return, TypeOK, ProgramOK
<1>9. CASE UNCHANGED vars
  BY <1>a, <1>9 DEF vars, TypeOK, ProgramOK, LibraryOK
<1>10. QED
  BY <1>1, <1>2, <1>3, <1>4, <1>5, <1>6, <1>7, <1>8, <1>9
     DEF Next, StructuredStep, JumpStep

(* Whatever program runs, with or without jumps, the library's stacks and    *)
(* the events it hands to Extrae keep their types.                           *)
THEOREM TypeCorrect == Spec => []TypeOK
  BY InitType, TypeStep, PTL DEF Spec
-----------------------------------------------------------------------------
(* Programs without jumps, iterations marked.                                *)

(* The inductive invariant: the two properties support each other - which    *)
(* counters exist depends on the decisions, the decisions on the sampled     *)
(* iterations still open in the trace.                                       *)
IInv ==
  /\ TypeOK
  /\ StacksFollowProgram
  /\ TraceFollowsProgram
  /\ IterMode => NoNullCounter

(* Lengths and elements after the stack operations.                          *)
LEMMA NatStackFacts ==
  /\ \A s \in Seq(Nat) : Len(s) \in Nat
  /\ \A s \in Seq(Nat), v \in Nat :
       /\ Len(Append(s, v)) = Len(s) + 1
       /\ \A i \in 1..Len(s) : Append(s, v)[i] = s[i]
       /\ Append(s, v)[Len(s) + 1] = v
  /\ \A s \in Seq(Nat) : s # <<>> =>
       /\ Len(s) \in Nat \ {0}
       /\ Rest(s) = Front(s)
       /\ Len(Rest(s)) = Len(s) - 1
       /\ \A i \in 1..(Len(s) - 1) : Rest(s)[i] = s[i]
       /\ Last(s) = s[Len(s)]
  /\ \A s \in Seq(Nat), v \in Nat : s # <<>> =>
       /\ Len(Append(Front(s), v)) = Len(s)
       /\ \A i \in 1..(Len(s) - 1) : Append(Front(s), v)[i] = s[i]
       /\ Append(Front(s), v)[Len(s)] = v
<1>1. ASSUME NEW s \in Seq(Nat), NEW v \in Nat
      PROVE  /\ Len(s) \in Nat
             /\ Len(Append(s, v)) = Len(s) + 1
             /\ \A i \in 1..Len(s) : Append(s, v)[i] = s[i]
             /\ Append(s, v)[Len(s) + 1] = v
  BY LenProperties, AppendProperties
<1>2. ASSUME NEW s \in Seq(Nat), s # <<>>
      PROVE  /\ Len(s) \in Nat \ {0}
             /\ Rest(s) = Front(s)
             /\ Len(Rest(s)) = Len(s) - 1
             /\ \A i \in 1..(Len(s) - 1) : Rest(s)[i] = s[i]
             /\ Last(s) = s[Len(s)]
  BY <1>2, FrontProperties DEF Rest
<1>3. ASSUME NEW s \in Seq(Nat), NEW v \in Nat, s # <<>>
      PROVE  /\ Len(Append(Front(s), v)) = Len(s)
             /\ \A i \in 1..(Len(s) - 1) : Append(Front(s), v)[i] = s[i]
             /\ Append(Front(s), v)[Len(s)] = v
  BY <1>3, ReplaceLast
<1>4. QED
  BY <1>1, <1>2, <1>3

(* The same, for one stack at a time.                                        *)
LEMMA RestFacts ==
  \A s \in Seq(Nat) : s # <<>> =>
    /\ Len(Rest(s)) = Len(s) - 1
    /\ \A i \in 1..(Len(s) - 1) : Rest(s)[i] = s[i]
  BY NatStackFacts

LEMMA ReplaceFacts ==
  \A s \in Seq(Nat), v \in Nat : s # <<>> =>
    /\ Len(Append(Front(s), v)) = Len(s)
    /\ \A i \in 1..(Len(s) - 1) : Append(Front(s), v)[i] = s[i]
    /\ Append(Front(s), v)[Len(s)] = v
  BY NatStackFacts

LEMMA InitIInv == Init => IInv
  BY InitType DEF Init, IInv, StacksFollowProgram, TraceFollowsProgram,
                  NoNullCounter, OpenIters

(* What the invariant says of the lengths, in one place.                     *)
LEMMA Shape ==
  ASSUME IInv, IterMode
  PROVE  /\ Len(loops) \in Nat /\ Len(trace_iters) \in Nat
         /\ Len(decission_stack) \in Nat /\ Len(itercounter_stack) \in Nat
         /\ atHeader \in BOOLEAN
         /\ atHeader => Len(loops) # 0
         /\ (loops = <<>>) <=> (Len(loops) = 0)
         /\ (decission_stack = <<>>) <=> (Len(decission_stack) = 0)
         /\ (itercounter_stack = <<>>) <=> (Len(itercounter_stack) = 0)
         /\ (trace_iters = <<>>) <=> (Len(trace_iters) = 0)
         /\ (trace_loops = <<>>) <=> (Len(trace_loops) = 0)
<1>1. TypeOK
  BY DEF IInv
<1>2. \A S : \A q \in Seq(S) : Len(q) \in Nat /\ ((q = <<>>) <=> (Len(q) = 0))
  BY LenProperties, EmptySeq
<1>3. QED
  BY <1>1, <1>2 DEF TypeOK, ProgramOK, LibraryOK

(* The decision the helpers consult tells whether every enclosing iteration  *)
(* is sampled.                                                               *)
LEMMA TopDecisionMeaning ==
  ASSUME IInv, IterMode
  PROVE  /\ OpenIters \in Nat
         /\ (TopDecision # 0) <=> (Len(trace_iters) = OpenIters)
<1>1. OpenIters \in Nat
  BY Shape DEF OpenIters
<1>2. /\ Len(decission_stack) = OpenIters
      /\ Len(trace_iters) <= OpenIters
      /\ \A i \in 1..OpenIters : decission_stack[i] = IF i <= Len(trace_iters) THEN 1 ELSE 0
  BY DEF IInv, StacksFollowProgram
<1>3. CASE OpenIters = 0
  BY <1>1, <1>2, <1>3, Shape DEF TopDecision
<1>4. CASE OpenIters # 0
  <2>1. TopDecision = decission_stack[OpenIters]
    BY <1>2, <1>4, Shape DEF TopDecision, Last
  <2>2. QED
    BY <1>1, <1>2, <1>4, <2>1, Shape
<1>5. QED
  BY <1>1, <1>3, <1>4

(* The facts about sequences of open loops that a step needs.                *)
LEMMA LoopStackFacts ==
  ASSUME TypeOK
  PROVE  /\ \A l \in Loop :
              LET q == Append(loops, [loop |-> l, n |-> 0]) IN
              /\ Len(q) = Len(loops) + 1
              /\ \A i \in 1..Len(loops) : q[i] = loops[i]
              /\ q[Len(loops) + 1] = [loop |-> l, n |-> 0]
         /\ loops # <<>> =>
              LET r == [Last(loops) EXCEPT !.n = @ + 1]
                  q == Append(Front(loops), r)
              IN
              /\ Len(loops) \in Nat \ {0}
              /\ Len(Front(loops)) = Len(loops) - 1
              /\ \A i \in 1..(Len(loops) - 1) : Front(loops)[i] = loops[i]
              /\ Last(loops) = loops[Len(loops)]
              /\ Len(q) = Len(loops)
              /\ \A i \in 1..(Len(loops) - 1) : q[i] = loops[i]
              /\ q[Len(loops)].n = loops[Len(loops)].n + 1
              /\ q[Len(loops)].loop = loops[Len(loops)].loop
<1> DEFINE OpenLoop == [loop : Loop, n : Nat]
<1>1. loops \in Seq(OpenLoop)
  BY DEF TypeOK, ProgramOK
<1>2. ASSUME NEW l \in Loop
      PROVE  LET q == Append(loops, [loop |-> l, n |-> 0]) IN
              /\ Len(q) = Len(loops) + 1
              /\ \A i \in 1..Len(loops) : q[i] = loops[i]
              /\ q[Len(loops) + 1] = [loop |-> l, n |-> 0]
  <2>1. [loop |-> l, n |-> 0] \in OpenLoop
    OBVIOUS
  <2>2. QED
    BY <1>1, <2>1, AppendProperties
<1>3. ASSUME loops # <<>>
      PROVE  LET r == [Last(loops) EXCEPT !.n = @ + 1]
                 q == Append(Front(loops), r)
             IN
              /\ Len(loops) \in Nat \ {0}
              /\ Len(Front(loops)) = Len(loops) - 1
              /\ \A i \in 1..(Len(loops) - 1) : Front(loops)[i] = loops[i]
              /\ Last(loops) = loops[Len(loops)]
              /\ Len(q) = Len(loops)
              /\ \A i \in 1..(Len(loops) - 1) : q[i] = loops[i]
              /\ q[Len(loops)].n = loops[Len(loops)].n + 1
              /\ q[Len(loops)].loop = loops[Len(loops)].loop
  <2> DEFINE r == [Last(loops) EXCEPT !.n = @ + 1]
             q == Append(Front(loops), r)
  <2>1. /\ Len(loops) \in Nat \ {0}
        /\ Len(Front(loops)) = Len(loops) - 1
        /\ \A i \in 1..(Len(loops) - 1) : Front(loops)[i] = loops[i]
        /\ Last(loops) = loops[Len(loops)]
        /\ Last(loops) \in OpenLoop
    BY <1>1, <1>3, FrontProperties
  <2>2. r \in OpenLoop /\ r.n = Last(loops).n + 1 /\ r.loop = Last(loops).loop
    BY <2>1
  <2> HIDE DEF r
  <2>3. /\ Len(q) = Len(loops)
        /\ \A i \in 1..(Len(loops) - 1) : q[i] = loops[i]
        /\ q[Len(loops)] = r
    BY <1>1, <1>3, <2>2, ReplaceLast
  <2>4. QED
    BY <2>1, <2>2, <2>3 DEF r
<1>4. QED
  BY <1>2, <1>3

(* The relation between program, stacks and trace that both properties state,*)
(* on the lengths L (open loops), D (open iterations), S (sampled ones still *)
(* open in the trace) and C (counters).                                      *)
LEMMA Relation ==
  ASSUME IInv, IterMode
  PROVE  LET L == Len(loops)
             S == Len(trace_iters)
             C == Len(itercounter_stack)
         IN
         /\ ~crashed
         /\ Len(decission_stack) = OpenIters
         /\ S <= OpenIters
         /\ \A i \in 1..OpenIters : decission_stack[i] = IF i <= S THEN 1 ELSE 0
         /\ C = IF S < L THEN S + 1 ELSE S
         /\ \A i \in 1..C : itercounter_stack[i] = loops[i].n
         /\ Len(trace_loops) = C
         /\ C <= L
         /\ \A i \in 1..C : trace_loops[i] = Hash[loops[i].loop]
         /\ \A i \in 1..S : trace_iters[i] = loops[i].n
  BY DEF IInv, StacksFollowProgram, TraceFollowsProgram, NoNullCounter

LEMMA EnterLoopStep ==
  ASSUME IInv, IterMode, NEW l \in Loop, EnterLoop(l)
  PROVE  StacksFollowProgram' /\ TraceFollowsProgram' /\ NoNullCounter'
<1> DEFINE L == Len(loops)
           S == Len(trace_iters)
<1>1. TypeOK /\ Hash[l] \in Nat \ {0}
  BY HashAssumption DEF IInv
<1>2. /\ ~atHeader /\ atHeader' /\ helper_loop_entry(l)
      /\ loops' = Append(loops, [loop |-> l, n |-> 0])
  BY DEF EnterLoop, LoopEntryCall, IterMode
<1>3. /\ Len(loops') = L + 1
      /\ \A i \in 1..L : loops'[i] = loops[i]
      /\ loops'[L + 1].n = 0 /\ loops'[L + 1].loop = l
  BY <1>1, <1>2, LoopStackFacts
<1>4. L \in Nat /\ S \in Nat /\ OpenIters = L /\ OpenIters' = L
  BY <1>2, <1>3, Shape DEF OpenIters
<1>5. UNCHANGED <<decission_stack, crashed, trace_iters>>
  BY <1>2 DEF helper_loop_entry
<1>6. CASE TopDecision # 0
  <2>1. S = L /\ Len(itercounter_stack) = L /\ Len(trace_loops) = L
    BY <1>4, <1>6, TopDecisionMeaning, Relation
  <2>2. /\ itercounter_stack' = Append(itercounter_stack, 0)
        /\ trace_loops' = Append(trace_loops, Hash[l])
    BY <1>1, <1>2, <1>6 DEF helper_loop_entry, Stacked
  <2>3. /\ Len(itercounter_stack') = L + 1
        /\ \A i \in 1..L : itercounter_stack'[i] = itercounter_stack[i]
        /\ itercounter_stack'[L + 1] = 0
    BY <1>1, <2>1, <2>2, NatStackFacts DEF TypeOK, LibraryOK
  <2>4. /\ Len(trace_loops') = L + 1
        /\ \A i \in 1..L : trace_loops'[i] = trace_loops[i]
        /\ trace_loops'[L + 1] = Hash[l]
    BY <1>1, <2>1, <2>2, NatStackFacts DEF TypeOK, LibraryOK
  <2>5. \A i \in 1..(L + 1) : itercounter_stack'[i] = loops'[i].n
    BY <1>3, <1>4, <2>1, <2>3, Relation
  <2>6. \A i \in 1..(L + 1) : trace_loops'[i] = Hash[loops'[i].loop]
    BY <1>3, <1>4, <2>1, <2>4, Relation
  <2>7. StacksFollowProgram'
    BY <1>3, <1>4, <1>5, <2>1, <2>3, <2>5, Relation DEF StacksFollowProgram
  <2>8. QED
    BY <1>3, <1>4, <1>5, <2>1, <2>3, <2>4, <2>6, <2>7, Relation
       DEF TraceFollowsProgram, NoNullCounter
<1>7. CASE TopDecision = 0
  <2>1. S < L /\ Len(itercounter_stack) = S + 1
    BY <1>4, <1>7, TopDecisionMeaning, Relation
  <2>2. UNCHANGED <<itercounter_stack, trace_loops>>
    BY <1>2, <1>7 DEF helper_loop_entry
  <2>3. StacksFollowProgram'
    BY <1>3, <1>4, <1>5, <2>1, <2>2, Relation DEF StacksFollowProgram
  <2>4. QED
    BY <1>3, <1>4, <1>5, <2>1, <2>2, <2>3, Relation DEF TraceFollowsProgram, NoNullCounter
<1>8. QED
  BY <1>6, <1>7

LEMMA BeginIterStep ==
  ASSUME IInv, IterMode, NEW sampled \in {0, 1}, BeginIter(sampled)
  PROVE  StacksFollowProgram' /\ TraceFollowsProgram' /\ NoNullCounter'
<1> DEFINE L == Len(loops)
           S == Len(trace_iters)
<1>1. TypeOK
  BY DEF IInv
<1>2. /\ atHeader /\ ~atHeader' /\ helper_loop_iter_entry(sampled)
      /\ loops' = Append(Front(loops), [Last(loops) EXCEPT !.n = @ + 1])
  BY DEF BeginIter, IterMode
<1>3. L \in Nat \ {0} /\ S \in Nat /\ OpenIters = L - 1
  BY <1>2, Shape DEF OpenIters
<1>4. /\ Len(loops') = L
      /\ \A i \in 1..(L - 1) : loops'[i] = loops[i]
      /\ loops'[L].n = loops[L].n + 1
      /\ loops'[L].loop = loops[L].loop
  BY <1>1, <1>2, <1>3, Shape, LoopStackFacts
<1>5. OpenIters' = L
  BY <1>2, <1>4 DEF OpenIters
<1>6. UNCHANGED trace_loops
  BY <1>2 DEF helper_loop_iter_entry
<1>7. decission_stack \in Seq(Nat)
  BY <1>1, SeqMonotonic DEF TypeOK, LibraryOK
<1>8. ASSUME NEW d \in {0, 1}, decission_stack' = Append(decission_stack, d)
      PROVE  /\ Len(decission_stack') = L
             /\ \A i \in 1..(L - 1) : decission_stack'[i] = IF i <= S THEN 1 ELSE 0
             /\ decission_stack'[L] = d
  <2>1. Len(decission_stack) = L - 1
    BY <1>3, Relation
  <2>2. d \in Nat
    OBVIOUS
  <2>3. /\ Len(decission_stack') = Len(decission_stack) + 1
        /\ \A i \in 1..Len(decission_stack) : decission_stack'[i] = decission_stack[i]
        /\ decission_stack'[Len(decission_stack) + 1] = d
    BY <1>7, <1>8, <2>2, NatStackFacts
  <2>4. \A i \in 1..(L - 1) : decission_stack[i] = IF i <= S THEN 1 ELSE 0
    BY <1>3, Relation
  <2>5. L - 1 + 1 = L
    BY <1>3
  <2>6. QED
    BY <2>1, <2>3, <2>4, <2>5
<1>9. CASE TopDecision = 0
  <2>1. S < L - 1 /\ Len(itercounter_stack) = S + 1
    BY <1>3, <1>9, TopDecisionMeaning, Relation
  <2>2. /\ decission_stack' = Append(decission_stack, 0)
        /\ UNCHANGED <<itercounter_stack, crashed, trace_iters>>
    BY <1>2, <1>9 DEF helper_loop_iter_entry
  <2>3. /\ Len(decission_stack') = L
        /\ \A i \in 1..L : decission_stack'[i] = IF i <= S THEN 1 ELSE 0
    BY <1>3, <1>8, <2>1, <2>2
  <2>4. \A i \in 1..(S + 1) : loops'[i] = loops[i]
    BY <1>3, <1>4, <2>1
  <2>5. /\ \A i \in 1..(S + 1) : itercounter_stack[i] = loops[i].n
        /\ \A i \in 1..(S + 1) : trace_loops[i] = Hash[loops[i].loop]
        /\ \A i \in 1..S : trace_iters[i] = loops[i].n
        /\ Len(trace_loops) = S + 1
        /\ ~crashed
    BY <2>1, Relation
  <2>6. StacksFollowProgram'
    <3>1. \A i \in 1..(S + 1) : itercounter_stack'[i] = loops'[i].n
      BY <2>2, <2>4, <2>5
    <3>2. Len(trace_iters') = S /\ Len(itercounter_stack') = S + 1 /\ S < L
      BY <1>3, <2>1, <2>2
    <3>3. QED
      BY <1>3, <1>4, <1>5, <2>3, <3>1, <3>2 DEF StacksFollowProgram
  <2>7. \A i \in 1..S : trace_iters'[i] = loops'[i].n
    BY <1>3, <2>2, <2>4, <2>5
  <2>8. QED
    BY <1>3, <1>4, <1>5, <1>6, <2>1, <2>2, <2>4, <2>5, <2>6, <2>7
       DEF TraceFollowsProgram, NoNullCounter
<1>10. CASE TopDecision # 0
  <2> DEFINE n == Last(itercounter_stack) + 1
  <2>1. S = L - 1 /\ Len(itercounter_stack) = L
    BY <1>3, <1>10, TopDecisionMeaning, Relation
  <2>2. itercounter_stack # <<>>
    BY <1>3, <2>1, Shape
  <2>3. /\ itercounter_stack' = Append(Front(itercounter_stack), n)
        /\ trace_iters' = IF sampled = 1 THEN Stacked(trace_iters, n) ELSE trace_iters
        /\ decission_stack' = Append(decission_stack, sampled)
        /\ UNCHANGED crashed
    BY <1>2, <1>10, <2>2 DEF helper_loop_iter_entry
  <2>4. itercounter_stack \in Seq(Nat) /\ trace_iters \in Seq(Nat)
    BY <1>1 DEF TypeOK, LibraryOK
  <2>5. n \in Nat \ {0} /\ n = itercounter_stack[L] + 1
    <3>1. Last(itercounter_stack) \in Nat /\ Last(itercounter_stack) = itercounter_stack[L]
      BY <2>1, <2>2, <2>4, NatStacks, NatStackFacts
    <3>2. QED
      BY <3>1
  <2> HIDE DEF n
  <2>6. /\ Len(itercounter_stack') = L
        /\ \A i \in 1..(L - 1) : itercounter_stack'[i] = itercounter_stack[i]
        /\ itercounter_stack'[L] = n
    <3>1. itercounter_stack' = Append(Front(itercounter_stack), n) /\ n \in Nat
      BY <2>3, <2>5
    <3>2. QED
      BY <2>1, <2>2, <2>4, <3>1, ReplaceFacts
  <2>7. n = loops'[L].n
    BY <1>3, <1>4, <2>1, <2>5, Relation
  <2>8. \A i \in 1..L : itercounter_stack'[i] = loops'[i].n
    BY <1>3, <1>4, <2>1, <2>6, <2>7, Relation
  <2>9. \A i \in 1..L : trace_loops'[i] = Hash[loops'[i].loop] 
    BY <1>3, <1>4, <1>6, <2>1, Relation
  <2>10. Len(trace_loops') = L
    BY <1>6, <2>1, Relation
  <2>11. CASE sampled = 1
    <3>1. /\ Len(trace_iters') = L
          /\ \A i \in 1..(L - 1) : trace_iters'[i] = trace_iters[i]
          /\ trace_iters'[L] = n
      <4>1. trace_iters' = Append(trace_iters, n) /\ n \in Nat
        BY <2>3, <2>5, <2>11 DEF Stacked
      <4>2. Len(trace_iters) = L - 1 /\ L - 1 + 1 = L
        BY <1>3, <2>1
      <4>3. QED
        BY <2>4, <4>1, <4>2, NatStackFacts
    <3>2. \A i \in 1..L : trace_iters'[i] = loops'[i].n
      <4>1. \A i \in 1..(L - 1) : trace_iters[i] = loops[i].n
        BY <2>1, Relation
      <4>2. \A i \in 1..(L - 1) : trace_iters'[i] = loops'[i].n
        BY <1>4, <3>1, <4>1
      <4>3. trace_iters'[L] = loops'[L].n
        BY <2>7, <3>1
      <4>4. \A i \in 1..L : i \in 1..(L - 1) \/ i = L
        BY <1>3
      <4>5. QED
        BY <4>2, <4>3, <4>4
    <3>3. StacksFollowProgram'
      <4>1. /\ Len(decission_stack') = L
            /\ \A i \in 1..L : decission_stack'[i] = IF i <= L THEN 1 ELSE 0
        BY <1>3, <1>8, <2>1, <2>3, <2>11
      <4>2. Len(itercounter_stack') = L /\ Len(trace_iters') = L
        BY <2>6, <3>1
      <4>3. QED
        BY <1>3, <1>4, <1>5, <2>8, <4>1, <4>2 DEF StacksFollowProgram
    <3>4. QED
      BY <1>3, <1>4, <1>5, <2>3, <2>6, <2>9, <2>10, <3>1, <3>2, <3>3, Relation
         DEF TraceFollowsProgram, NoNullCounter
  <2>12. CASE sampled = 0
    <3>1. UNCHANGED trace_iters
      BY <2>3, <2>12
    <3>2. StacksFollowProgram'
      BY <1>3, <1>4, <1>5, <1>8, <2>1, <2>3, <2>6, <2>8, <2>12, <3>1
         DEF StacksFollowProgram
    <3>3. \A i \in 1..S : trace_iters'[i] = loops'[i].n
      BY <1>3, <1>4, <2>1, <3>1, Relation
    <3>4. QED
      BY <1>3, <1>4, <1>5, <2>1, <2>3, <2>6, <2>9, <2>10, <3>1, <3>2, <3>3, Relation
         DEF TraceFollowsProgram, NoNullCounter
  <2>13. QED
    BY <2>11, <2>12
<1>11. QED
  BY <1>9, <1>10

LEMMA EndIterStep ==
  ASSUME IInv, IterMode, EndIter
  PROVE  StacksFollowProgram' /\ TraceFollowsProgram' /\ NoNullCounter'
<1> DEFINE L == Len(loops)
           S == Len(trace_iters)
<1>1. TypeOK
  BY DEF IInv
<1>2. /\ ~atHeader /\ atHeader' /\ loops # <<>> /\ loops' = loops
      /\ helper_loop_iter_exit
  BY DEF EndIter, IterMode
<1>3. L \in Nat \ {0} /\ S \in Nat /\ OpenIters = L /\ OpenIters' = L - 1
  BY <1>2, Shape DEF OpenIters
<1>4. /\ decission_stack' = Rest(decission_stack)
      /\ UNCHANGED <<itercounter_stack, crashed, trace_loops>>
  BY <1>2 DEF helper_loop_iter_exit
<1>5. decission_stack \in Seq(Nat) /\ trace_iters \in Seq(Nat)
  BY <1>1, SeqMonotonic DEF TypeOK, LibraryOK
<1>6. decission_stack # <<>> /\ Len(decission_stack) = L
  BY <1>3, Shape, Relation
<1>7. /\ Len(decission_stack') = L - 1
      /\ \A i \in 1..(L - 1) : decission_stack'[i] = decission_stack[i]
      /\ Last(decission_stack) = decission_stack[L]
  BY <1>4, <1>5, <1>6, NatStackFacts
<1>8. \A i \in 1..L : decission_stack[i] = IF i <= S THEN 1 ELSE 0
  BY <1>3, Relation
<1>9. Popped(decission_stack) = decission_stack[L]
  <2>1. decission_stack[L] \in {0, 1}
    BY <1>3, <1>8
  <2>2. \A v \in {0, 1} : v % UIntMod = v
    BY UIntAssumption
  <2>3. QED
    BY <1>6, <1>7, <2>1, <2>2 DEF Popped
<1>10. /\ S <= L
       /\ Len(itercounter_stack) = IF S < L THEN S + 1 ELSE S
       /\ Len(trace_loops) = Len(itercounter_stack)
       /\ \A i \in 1..Len(itercounter_stack) : itercounter_stack[i] = loops[i].n
       /\ \A i \in 1..Len(itercounter_stack) : trace_loops[i] = Hash[loops[i].loop]
       /\ \A i \in 1..S : trace_iters[i] = loops[i].n
       /\ ~crashed
  BY <1>3, Relation
<1>11. CASE S = L
  <2>1. Popped(decission_stack) # 0
    BY <1>3, <1>8, <1>9, <1>11
  <2>2. trace_iters' = Rest(trace_iters) /\ trace_iters # <<>>
    BY <1>2, <1>3, <1>11, <2>1, Shape DEF helper_loop_iter_exit, Stacked
  <2>3. /\ Len(trace_iters') = L - 1
        /\ \A i \in 1..(L - 1) : trace_iters'[i] = trace_iters[i]
    BY <1>5, <1>11, <2>2, NatStackFacts
  <2>4. Len(itercounter_stack) = L
    BY <1>3, <1>10, <1>11
  <2>5. \A i \in 1..(L - 1) : decission_stack'[i] = 1
    BY <1>3, <1>7, <1>8, <1>11
  <2>6. StacksFollowProgram'
    BY <1>2, <1>3, <1>4, <1>7, <1>10, <2>3, <2>4, <2>5 DEF StacksFollowProgram
  <2>7. \A i \in 1..(L - 1) : trace_iters'[i] = loops'[i].n
    BY <1>2, <1>3, <1>10, <1>11, <2>3
  <2>8. QED
    BY <1>2, <1>3, <1>4, <1>10, <2>3, <2>4, <2>6, <2>7
       DEF TraceFollowsProgram, NoNullCounter
<1>12. CASE S # L
  <2>1. S < L /\ S <= L - 1
    BY <1>3, <1>10, <1>12
  <2>2. Popped(decission_stack) = 0
    BY <1>3, <1>8, <1>9, <2>1
  <2>3. UNCHANGED trace_iters
    BY <1>2, <2>2 DEF helper_loop_iter_exit
  <2>4. \A i \in 1..(L - 1) : decission_stack'[i] = IF i <= S THEN 1 ELSE 0
    BY <1>3, <1>7, <1>8
  <2>5. StacksFollowProgram'
    BY <1>2, <1>3, <1>4, <1>7, <1>10, <2>1, <2>3, <2>4 DEF StacksFollowProgram
  <2>6. QED
    BY <1>2, <1>3, <1>4, <1>10, <2>1, <2>3, <2>5 DEF TraceFollowsProgram, NoNullCounter
<1>13. QED
  BY <1>11, <1>12

LEMMA ExitLoopStep ==
  ASSUME IInv, IterMode, ExitLoop
  PROVE  StacksFollowProgram' /\ TraceFollowsProgram' /\ NoNullCounter'
<1> DEFINE L == Len(loops)
           S == Len(trace_iters)
<1>1. TypeOK
  BY DEF IInv
<1>2. /\ atHeader /\ ~atHeader' /\ loops' = Front(loops)
      /\ helper_loop_exit
  BY DEF ExitLoop, LoopExitCall, IterMode
<1>3. /\ L \in Nat \ {0} /\ S \in Nat
      /\ loops # <<>>
      /\ OpenIters = L - 1
  BY <1>2, Shape DEF OpenIters
<1>4. /\ Len(loops') = L - 1
      /\ \A i \in 1..(L - 1) : loops'[i] = loops[i]
  BY <1>1, <1>2, <1>3, LoopStackFacts
<1>5. OpenIters' = L - 1
  BY <1>2, <1>4 DEF OpenIters
<1>6. UNCHANGED <<decission_stack, crashed, trace_iters>>
  BY <1>2 DEF helper_loop_exit
<1>7. /\ Len(decission_stack) = L - 1
      /\ S <= L - 1
      /\ \A i \in 1..(L - 1) : decission_stack[i] = IF i <= S THEN 1 ELSE 0
      /\ Len(itercounter_stack) = S + 1
      /\ Len(trace_loops) = S + 1
      /\ \A i \in 1..(S + 1) : itercounter_stack[i] = loops[i].n
      /\ \A i \in 1..(S + 1) : trace_loops[i] = Hash[loops[i].loop]
      /\ \A i \in 1..S : trace_iters[i] = loops[i].n
      /\ ~crashed
  BY <1>3, Relation
<1>8. \A i \in 1..S : trace_iters'[i] = loops'[i].n
  BY <1>3, <1>4, <1>6, <1>7
<1>9. CASE TopDecision # 0
  <2>1. S = L - 1
    BY <1>3, <1>9, TopDecisionMeaning
  <2>2. /\ itercounter_stack' = Rest(itercounter_stack)
        /\ trace_loops' = Rest(trace_loops)
        /\ itercounter_stack # <<>> /\ trace_loops # <<>>
    BY <1>2, <1>3, <1>7, <1>9, Shape DEF helper_loop_exit, Stacked
  <2>3. itercounter_stack \in Seq(Nat) /\ trace_loops \in Seq(Nat)
    BY <1>1 DEF TypeOK, LibraryOK
  <2>4. /\ Len(itercounter_stack') = L - 1
        /\ \A i \in 1..(L - 1) : itercounter_stack'[i] = itercounter_stack[i]
        /\ Len(trace_loops') = L - 1
        /\ \A i \in 1..(L - 1) : trace_loops'[i] = trace_loops[i]
    <3>1. Len(itercounter_stack) = L /\ Len(trace_loops) = L
      BY <1>3, <1>7, <2>1
    <3>2. /\ Len(itercounter_stack') = L - 1
          /\ \A i \in 1..(L - 1) : itercounter_stack'[i] = itercounter_stack[i]
      BY <2>2, <2>3, <3>1, RestFacts
    <3>3. /\ Len(trace_loops') = L - 1
          /\ \A i \in 1..(L - 1) : trace_loops'[i] = trace_loops[i]
      BY <2>2, <2>3, <3>1, RestFacts
    <3>4. QED
      BY <3>2, <3>3
  <2>5. /\ \A i \in 1..(L - 1) : itercounter_stack'[i] = loops'[i].n
        /\ \A i \in 1..(L - 1) : trace_loops'[i] = Hash[loops'[i].loop]
    <3>1. ASSUME NEW i \in 1..(L - 1)
          PROVE  /\ itercounter_stack'[i] = loops'[i].n
                 /\ trace_loops'[i] = Hash[loops'[i].loop]
      <4>1. i \in 1..(S + 1)
        BY <1>3, <2>1
      <4>2. QED
        BY <1>4, <1>7, <2>4, <4>1
    <3>2. QED
      BY <3>1
  <2>6. StacksFollowProgram'
    BY <1>3, <1>4, <1>5, <1>6, <1>7, <2>1, <2>4, <2>5 DEF StacksFollowProgram
  <2>7. QED
    BY <1>3, <1>4, <1>5, <1>6, <1>7, <1>8, <2>1, <2>4, <2>5, <2>6
       DEF TraceFollowsProgram, NoNullCounter
<1>10. CASE TopDecision = 0
  <2>1. S < L - 1
    BY <1>3, <1>7, <1>10, TopDecisionMeaning
  <2>2. UNCHANGED <<itercounter_stack, trace_loops>>
    BY <1>2, <1>10 DEF helper_loop_exit
  <2>3. /\ \A i \in 1..(S + 1) : itercounter_stack'[i] = loops'[i].n
        /\ \A i \in 1..(S + 1) : trace_loops'[i] = Hash[loops'[i].loop]
    <3>1. ASSUME NEW i \in 1..(S + 1)
          PROVE  /\ itercounter_stack'[i] = loops'[i].n
                 /\ trace_loops'[i] = Hash[loops'[i].loop]
      <4>1. i \in 1..(L - 1)
        BY <1>3, <2>1
      <4>2. QED
        BY <1>4, <1>7, <2>2, <4>1
    <3>2. QED
      BY <3>1
  <2>4. StacksFollowProgram'
    BY <1>3, <1>4, <1>5, <1>6, <1>7, <2>1, <2>2, <2>3 DEF StacksFollowProgram
  <2>5. QED
    BY <1>3, <1>4, <1>5, <1>6, <1>7, <1>8, <2>1, <2>2, <2>3, <2>4
       DEF TraceFollowsProgram, NoNullCounter
<1>11. QED
  BY <1>9, <1>10

LEMMA UnchangedStep ==
  ASSUME IInv, IterMode,
         UNCHANGED <<loops, atHeader, decission_stack, itercounter_stack, crashed,
                     trace_loops, trace_iters>>
  PROVE  StacksFollowProgram' /\ TraceFollowsProgram' /\ NoNullCounter'
  BY DEF IInv, StacksFollowProgram, TraceFollowsProgram, NoNullCounter, OpenIters

LEMMA IInvStep == IInv /\ [StructuredStep]_vars => IInv'
<1> SUFFICES ASSUME IInv, [StructuredStep]_vars
             PROVE  IInv'
  OBVIOUS
<1>1. TypeOK'
  BY TypeStep DEF IInv, Next
<1>2. ASSUME IterMode
      PROVE  StacksFollowProgram' /\ TraceFollowsProgram' /\ NoNullCounter'
  <2>1. ASSUME NEW l \in Loop, EnterLoop(l)
        PROVE  StacksFollowProgram' /\ TraceFollowsProgram' /\ NoNullCounter'
    BY <1>2, <2>1, EnterLoopStep
  <2>2. ASSUME NEW sampled \in {0, 1}, BeginIter(sampled)
        PROVE  StacksFollowProgram' /\ TraceFollowsProgram' /\ NoNullCounter'
    BY <1>2, <2>2, BeginIterStep
  <2>3. CASE EndIter
    BY <1>2, <2>3, EndIterStep
  <2>4. CASE ExitLoop
    BY <1>2, <2>4, ExitLoopStep
  <2>5. CASE MpiCall
    BY <1>2, <2>5, UnchangedStep DEF MpiCall, program, library
  <2>6. CASE UNCHANGED vars
    BY <1>2, <2>6, UnchangedStep DEF vars
  <2>7. QED
    BY <2>1, <2>2, <2>3, <2>4, <2>5, <2>6 DEF StructuredStep
<1>3. ~IterMode => StacksFollowProgram' /\ TraceFollowsProgram'
  BY DEF StacksFollowProgram, TraceFollowsProgram
<1>4. QED
  BY <1>1, <1>2, <1>3 DEF IInv

LEMMA InductiveInvariant == StructuredSpec => []IInv
  BY InitIInv, IInvStep, PTL DEF StructuredSpec

(* The decisions the four helpers read at four different moments agree, for  *)
(* every structured program, every sampling and every nesting.               *)
THEOREM StacksCorrect == StructuredSpec => []StacksFollowProgram
<1>1. IInv => StacksFollowProgram
  BY DEF IInv
<1>2. QED
  BY <1>1, InductiveInvariant, PTL

(* The trace opens and closes exactly the marked loops and sampled           *)
(* iterations, in nesting order.                                             *)
THEOREM TraceCorrect == StructuredSpec => []TraceFollowsProgram
<1>1. IInv => TraceFollowsProgram
  BY DEF IInv
<1>2. QED
  BY <1>1, InductiveInvariant, PTL

(* No helper but helper_loop_exit emits a NITER event.                       *)
LEMMA OnlyExitCounts ==
  ASSUME IterMode, TypeOK, StructuredStep, ~ExitLoop
  PROVE  \A i \in 1..Len(emitted') : emitted'[i].type # "NITER"
<1>1. ASSUME NEW l \in Loop, EnterLoop(l)
      PROVE  \A i \in 1..Len(emitted') : emitted'[i].type # "NITER"
  BY <1>1 DEF EnterLoop, LoopEntryCall, IterMode, helper_loop_entry, Event
<1>2. ASSUME NEW sampled \in {0, 1}, BeginIter(sampled)
      PROVE  \A i \in 1..Len(emitted') : emitted'[i].type # "NITER"
  <2>1. emitted' = <<>> \/ \E n : emitted' = <<Event("ITER", n)>>
    BY <1>2 DEF BeginIter, IterMode, helper_loop_iter_entry
  <2>2. QED
    BY <2>1 DEF Event
<1>3. ASSUME EndIter
      PROVE  \A i \in 1..Len(emitted') : emitted'[i].type # "NITER"
  BY <1>3 DEF EndIter, IterMode, helper_loop_iter_exit, Event
<1>4. ASSUME MpiCall
      PROVE  \A i \in 1..Len(emitted') : emitted'[i].type # "NITER"
  <2> DEFINE n   == Len(my_stack)
             on  == [k \in 1..n |-> Label(k - 1, my_stack[n - k + 1])]
             off == [k \in 1..n |-> Label(k - 1, 0)]
             E   == {e \in EventRecord : e.type = "LABEL"}
  <2>1. n \in Nat /\ my_stack \in Seq(Nat)
    BY LenProperties DEF TypeOK, LibraryOK
  <2>2. \A k \in Nat, v \in Nat : Label(k, v) \in E
    BY DEF Label, EventRecord
  <2>3. on \in [1..n -> E]
    <3>1. ASSUME NEW k \in 1..n
          PROVE  Label(k - 1, my_stack[n - k + 1]) \in E
      BY <2>1, <2>2, ElementOfSeq
    <3>2. QED
      BY <3>1
  <2>4. off \in [1..n -> E]
    BY <2>1, <2>2
  <2> HIDE DEF on, off, n, E
  <2>5. on \in Seq(E) /\ off \in Seq(E)
    BY <2>1, <2>3, <2>4
  <2>6. on \o off \in Seq(E)
    BY <2>5, ConcatProperties
  <2>7. emitted' = on \o off
    BY <1>4 DEF MpiCall, Labels, on, off, n
  <2>8. ASSUME NEW i \in 1..Len(emitted')
        PROVE  emitted'[i].type # "NITER"
    BY <2>6, <2>7, ElementOfSeq DEF E
  <2>9. QED
    BY <2>8
<1>5. QED
  BY <1>1, <1>2, <1>3, <1>4 DEF StructuredStep

LEMMA ExitCounts ==
  ASSUME IInv, IterMode, ExitLoop
  PROVE  NiterStep
<1> DEFINE L == Len(loops)
<1>1. /\ TypeOK /\ helper_loop_exit /\ atHeader
      /\ itercounter_stack \in Seq(Nat) /\ trace_loops \in Seq(Nat)
  BY DEF IInv, ExitLoop, LoopExitCall, IterMode, TypeOK, LibraryOK
<1>2. L \in Nat \ {0} /\ loops # <<>> /\ OpenIters = L - 1
  BY <1>1, Shape DEF OpenIters
<1>3. CASE TopDecision # 0
  <2>1. Len(itercounter_stack) = L /\ Len(trace_loops) = L
    BY <1>2, <1>3, TopDecisionMeaning, Relation
  <2>2. itercounter_stack # <<>> /\ trace_loops # <<>>
    BY <1>2, <2>1, Shape
  <2>3. /\ Last(itercounter_stack) = itercounter_stack[L]
        /\ Last(trace_loops) = trace_loops[L]
        /\ Last(loops) = loops[L]
    BY <2>1 DEF Last
  <2>4. /\ itercounter_stack[L] = loops[L].n
        /\ trace_loops[L] = Hash[loops[L].loop]
    BY <1>2, <2>1, Relation
  <2>5. Popped(itercounter_stack) = Last(loops).n % UIntMod
    BY <2>2, <2>3, <2>4 DEF Popped
  <2>6. emitted' = <<Event("NITER", Last(loops).n % UIntMod), Event("LOOP", 0)>>
    BY <1>1, <1>3, <2>5 DEF helper_loop_exit
  <2>7. Last(trace_loops) = Hash[Last(loops).loop]
    BY <2>3, <2>4
  <2>8. QED
    BY <2>2, <2>6, <2>7 DEF NiterStep, Event
<1>4. CASE TopDecision = 0
  BY <1>1, <1>4 DEF helper_loop_exit, NiterStep
<1>5. QED
  BY <1>3, <1>4

(* Each NITER event carries the iterations of the loop that the next event   *)
(* closes, for every nesting and every sampling.                             *)
THEOREM NiterCorrect == StructuredSpec => NiterOfTheLoopLeft
<1>1. IInv /\ [StructuredStep]_vars => [NiterStep]_vars
  <2> SUFFICES ASSUME IInv, StructuredStep
               PROVE  NiterStep
    OBVIOUS
  <2>1. CASE ~IterMode
    BY <2>1 DEF NiterStep
  <2>2. CASE IterMode /\ ExitLoop
    BY <2>2, ExitCounts
  <2>3. CASE IterMode /\ ~ExitLoop
    BY <2>3, OnlyExitCounts DEF IInv, NiterStep
  <2>4. QED
    BY <2>1, <2>2, <2>3
<1>2. QED
  BY <1>1, InductiveInvariant, PTL DEF StructuredSpec, NiterOfTheLoopLeft
-----------------------------------------------------------------------------
(* Programs with jumps.                                                      *)

(* What the library may do to the decision stack in one step.                *)
LEMMA DecisionMoves ==
  ASSUME Next
  PROVE  \/ decission_stack' = decission_stack
         \/ decission_stack' = Rest(decission_stack)
         \/ decission_stack' = Append(decission_stack, 0)
         \/ TopDecision # 0 /\ \E v \in {0, 1} : decission_stack' = Append(decission_stack, v)
<1> DEFINE Same == decission_stack' = decission_stack
<1>1. NoCall => Same
  BY DEF NoCall, library
<1>2. LoopExitCall => Same
  BY DEF LoopExitCall, helper_loop_exit, helper_loopuid_pop
<1>3. ASSUME NEW l \in Loop, EnterLoop(l)
      PROVE  Same
  BY <1>3 DEF EnterLoop, LoopEntryCall, helper_loop_entry, helper_loopuid_push
<1>4. ASSUME NEW sampled \in {0, 1}, BeginIter(sampled)
      PROVE  \/ Same
             \/ decission_stack' = Append(decission_stack, 0)
             \/ TopDecision # 0 /\ decission_stack' = Append(decission_stack, sampled)
  BY <1>1, <1>4 DEF BeginIter, helper_loop_iter_entry
<1>5. EndIter => Same \/ decission_stack' = Rest(decission_stack)
  BY <1>1 DEF EndIter, helper_loop_iter_exit
<1>6. ExitLoop \/ Break => Same
  BY <1>2 DEF ExitLoop, Break
<1>7. Continue \/ (\E k \in 0..MaxDepth : Return(k)) => Same
  BY <1>1 DEF Continue, Return
<1>8. MpiCall => Same
  BY DEF MpiCall, library
<1>9. QED
  BY <1>3, <1>4, <1>5, <1>6, <1>7, <1>8 DEF Next, StructuredStep, JumpStep

(* The top decision is 0 if any decision is.                                 *)
LEMMA TopIsLeast ==
  ASSUME TypeOK, NestedDecisions, TopDecision # 0
  PROVE  \A i \in 1..Len(decission_stack) : decission_stack[i] = 1
<1> DEFINE n == Len(decission_stack)
<1>1. n \in Nat /\ decission_stack \in Seq({0, 1})
  BY LenProperties DEF TypeOK, LibraryOK
<1>2. \A i \in 1..n : decission_stack[i] \in {0, 1}
  BY <1>1, ElementOfSeq
<1>3. ASSUME NEW i \in 1..n
      PROVE  decission_stack[i] = 1
  <2>1. n \in 1..n /\ decission_stack # <<>>
    BY <1>1, EmptySeq
  <2>2. decission_stack[n] = 1
    BY <1>2, <2>1 DEF TopDecision, Last
  <2>3. QED
    BY <1>1, <2>1, <2>2 DEF NestedDecisions
<1>4. QED
  BY <1>3

LEMMA NestedStep == TypeOK /\ NestedDecisions /\ [Next]_vars => NestedDecisions'
<1> SUFFICES ASSUME TypeOK, NestedDecisions, [Next]_vars
             PROVE  NestedDecisions'
  OBVIOUS
<1> DEFINE d == decission_stack
           n == Len(decission_stack)
<1>1. d \in Seq({0, 1}) /\ n \in Nat
  BY LenProperties DEF TypeOK, LibraryOK
<1>2. \A i, j \in 1..n : i < j /\ d[j] = 1 => d[i] = 1
  BY DEF NestedDecisions
<1>3. CASE d' = d
  BY <1>3 DEF NestedDecisions
<1>4. CASE d' = Rest(d) /\ d # <<>>
  <2>1. /\ Len(d') = n - 1
        /\ \A i \in 1..(n - 1) : d'[i] = d[i]
    BY <1>1, <1>4, FrontProperties DEF Rest
  <2>2. \A i, j \in 1..(n - 1) : i < j /\ d'[j] = 1 => d'[i] = 1
    BY <1>1, <1>2, <2>1
  <2>3. QED
    BY <2>1, <2>2 DEF NestedDecisions
<1>5. ASSUME NEW v \in {0, 1}, d' = Append(d, v),
             v = 1 => \A i \in 1..n : d[i] = 1
      PROVE  NestedDecisions'
  <2>1. /\ Len(d') = n + 1
        /\ \A i \in 1..n : d'[i] = d[i]
        /\ d'[n + 1] = v
    BY <1>1, <1>5, AppendProperties
  <2>2. ASSUME NEW i \in 1..(n + 1), NEW j \in 1..(n + 1), i < j, d'[j] = 1
        PROVE  d'[i] = 1
    <3>1. i \in 1..n /\ d'[i] = d[i]
      BY <1>1, <2>1, <2>2
    <3>2. CASE j = n + 1
      BY <1>5, <2>1, <2>2, <3>1, <3>2
    <3>3. CASE j \in 1..n
      BY <1>2, <2>1, <2>2, <3>1, <3>3
    <3>4. QED
      BY <1>1, <3>2, <3>3
  <2>3. QED
    BY <2>1, <2>2 DEF NestedDecisions
<1>6. CASE Next
  <2>1. CASE d' = d \/ (d' = Rest(d) /\ d = <<>>)
    BY <1>3, <2>1 DEF Rest
  <2>2. CASE d' = Append(d, 0)
    BY <1>5, <2>2
  <2>3. ASSUME NEW v \in {0, 1}, TopDecision # 0, d' = Append(d, v)
        PROVE  NestedDecisions'
    BY <1>5, <2>3, TopIsLeast
  <2>4. QED
    BY <1>4, <1>6, <2>1, <2>2, <2>3, DecisionMoves
<1>7. CASE UNCHANGED vars
  BY <1>3, <1>7 DEF vars
<1>8. QED
  BY <1>6, <1>7

(* "Nested loops will be instrumented depending on the decission taken for   *)
(* the parent iteration", for every program, its jumps included: whatever a  *)
(* jump leaves on the stack, no 1 is ever stacked on a 0.                    *)
THEOREM NestedDecisionsCorrect == Spec => []NestedDecisions
<1>1. Init => NestedDecisions
  BY DEF Init, NestedDecisions
<1>2. QED
  BY <1>1, NestedStep, TypeCorrect, PTL DEF Spec
-----------------------------------------------------------------------------
(* only_mpi mode.  The labels survive break and continue; return is the one  *)
(* jump that skips helper_loopuid_pop.                                       *)
LabelsInv == TypeOK /\ LabelsAvailableAtAnyInstant

LEMMA LabelsPush ==
  ASSUME LabelsInv, OnlyMpi, NEW l \in Loop, EnterLoop(l)
  PROVE  my_stack' = [i \in 1..Len(loops') |-> Hash[loops'[i].loop]]
<1> DEFINE n == Len(loops)
           r == [loop |-> l, n |-> 0]
<1>1. /\ loops \in Seq([loop : Loop, n : Nat]) /\ n \in Nat
      /\ my_stack \in Seq(Nat)
      /\ my_stack = [i \in 1..n |-> Hash[loops[i].loop]]
  BY LenProperties DEF LabelsInv, LabelsAvailableAtAnyInstant, TypeOK, ProgramOK, LibraryOK
<1>2. /\ loops' = Append(loops, r)
      /\ my_stack' = Append(my_stack, Hash[l])
  BY DEF EnterLoop, LoopEntryCall, helper_loopuid_push
<1>3. /\ Len(loops') = n + 1
      /\ \A i \in 1..n : loops'[i] = loops[i]
      /\ loops'[n + 1] = r
  BY <1>1, <1>2, AppendProperties
<1>4. Len(my_stack) = n
  BY <1>1, LenProperties
<1>5. Hash[l] \in Nat
  BY HashAssumption
<1>6. /\ my_stack' = [i \in 1..(n + 1) |-> my_stack'[i]]
      /\ \A i \in 1..n : my_stack'[i] = my_stack[i]
      /\ my_stack'[n + 1] = Hash[l]
  <2>1. my_stack' \in Seq(Nat) /\ Len(my_stack') = n + 1
    BY <1>1, <1>2, <1>4, <1>5, AppendProperties
  <2>2. QED
    BY <1>1, <1>2, <1>4, <1>5, <2>1, AppendProperties, LenProperties
<1>7. ASSUME NEW i \in 1..(n + 1)
      PROVE  my_stack'[i] = Hash[loops'[i].loop]
  <2>1. CASE i = n + 1
    BY <1>3, <1>6, <2>1
  <2>2. CASE i \in 1..n
    BY <1>1, <1>3, <1>6, <2>2
  <2>3. QED
    BY <1>1, <2>1, <2>2
<1>8. QED
  BY <1>3, <1>6, <1>7

LEMMA LabelsPop ==
  ASSUME LabelsInv, OnlyMpi, loops # <<>>, loops' = Front(loops), helper_loopuid_pop
  PROVE  my_stack' = [i \in 1..Len(loops') |-> Hash[loops'[i].loop]]
<1> DEFINE n == Len(loops)
<1>1. /\ loops \in Seq([loop : Loop, n : Nat]) /\ n \in Nat
      /\ my_stack \in Seq(Nat)
      /\ my_stack = [i \in 1..n |-> Hash[loops[i].loop]]
  BY LenProperties DEF LabelsInv, LabelsAvailableAtAnyInstant, TypeOK, ProgramOK, LibraryOK
<1>2. /\ n \in Nat \ {0}
      /\ Len(loops') = n - 1
      /\ \A i \in 1..(n - 1) : loops'[i] = loops[i]
  BY <1>1, FrontProperties
<1>3. Len(my_stack) = n /\ my_stack # <<>>
  BY <1>1, <1>2, LenProperties, EmptySeq
<1>4. /\ my_stack' \in Seq(Nat)
      /\ Len(my_stack') = n - 1
      /\ \A i \in 1..(n - 1) : my_stack'[i] = my_stack[i]
  BY <1>1, <1>3, FrontProperties DEF helper_loopuid_pop, Rest
<1>5. my_stack' = [i \in 1..(n - 1) |-> my_stack'[i]]
  BY <1>4, LenProperties
<1>6. ASSUME NEW i \in 1..(n - 1)
      PROVE  my_stack'[i] = Hash[loops'[i].loop]
  <2> HIDE DEF n
  <2>1. i \in 1..n
    BY <1>1, <1>2
  <2>2. my_stack'[i] = my_stack[i]
    BY <1>4
  <2>3. loops'[i] = loops[i]
    BY <1>2
  <2>4. QED
    BY <1>1, <2>1, <2>2, <2>3
<1>7. QED
  BY <1>2, <1>5, <1>6

LEMMA LabelsStep ==
  ASSUME "return" \notin Jumps
  PROVE  LabelsInv /\ [Next]_vars => LabelsInv'
<1> SUFFICES ASSUME LabelsInv, [Next]_vars
             PROVE  LabelsInv'
  OBVIOUS
<1>1. TypeOK'
  BY TypeStep DEF LabelsInv
<1>2. ASSUME OnlyMpi
      PROVE  LabelsAvailableAtAnyInstant'
  <2> DEFINE Kept == UNCHANGED <<my_stack, loops>>
  <2>1. Kept => LabelsAvailableAtAnyInstant'
    BY DEF LabelsInv, LabelsAvailableAtAnyInstant
  <2>2. ASSUME NEW l \in Loop, EnterLoop(l)
        PROVE  LabelsAvailableAtAnyInstant'
    BY <1>2, <2>2, LabelsPush DEF LabelsAvailableAtAnyInstant
  <2>3. CASE ExitLoop \/ Break
    <3>1. loops # <<>>
      BY <2>3 DEF ExitLoop, Break, LabelsInv, TypeOK, ProgramOK
    <3>2. loops' = Front(loops) /\ helper_loopuid_pop
      BY <1>2, <2>3 DEF ExitLoop, Break, LoopExitCall
    <3>3. QED
      BY <1>2, <3>1, <3>2, LabelsPop DEF LabelsAvailableAtAnyInstant
  <2>4. NoCall => my_stack' = my_stack
    BY DEF NoCall, library
  <2>5. CASE EndIter \/ Continue
    BY <2>1, <2>4, <2>5 DEF EndIter, Continue, helper_loop_iter_exit
  <2>6. ASSUME NEW sampled \in {0, 1}, BeginIter(sampled)
        PROVE  LabelsAvailableAtAnyInstant'
    <3>1. my_stack' = my_stack
      BY <2>4, <2>6 DEF BeginIter, helper_loop_iter_entry
    <3>2. /\ loops # <<>>
          /\ loops \in Seq([loop : Loop, n : Nat])
      BY <2>6 DEF BeginIter, LabelsInv, TypeOK, ProgramOK
    <3> DEFINE m == Len(loops)
               r == [Last(loops) EXCEPT !.n = @ + 1]
    <3>3. r \in [loop : Loop, n : Nat] /\ r.loop = Last(loops).loop
      BY <3>2, LoopRecords
    <3>4. /\ loops' = Append(Front(loops), r)
          /\ m \in Nat \ {0}
          /\ Last(loops) = loops[m]
      BY <2>6, <3>2, FrontProperties DEF BeginIter
    <3> HIDE DEF r
    <3>5. /\ Len(loops') = m
          /\ \A i \in 1..(m - 1) : loops'[i] = loops[i]
          /\ loops'[m] = r
      <4>1. /\ Len(Append(Front(loops), r)) = Len(loops)
            /\ \A i \in 1..(Len(loops) - 1) : Append(Front(loops), r)[i] = loops[i]
            /\ Append(Front(loops), r)[Len(loops)] = r
        BY <3>2, <3>3, ReplaceLast
      <4>2. QED
        BY <3>4, <4>1
    <3>6. ASSUME NEW i \in 1..m
          PROVE  Hash[loops'[i].loop] = Hash[loops[i].loop]
      <4> HIDE DEF m
      <4>1. CASE i = m
        BY <3>3, <3>4, <3>5, <4>1
      <4>2. CASE i \in 1..(m - 1)
        BY <3>5, <4>2
      <4>3. i = m \/ i \in 1..(m - 1)
        BY <3>4
      <4>4. QED
        BY <4>1, <4>2, <4>3
    <3>7. my_stack = [i \in 1..m |-> Hash[loops[i].loop]]
      BY <1>2 DEF LabelsInv, LabelsAvailableAtAnyInstant
    <3>8. my_stack' = [i \in 1..m |-> Hash[loops'[i].loop]]
      BY <3>1, <3>6, <3>7
    <3>9. QED
      BY <3>5, <3>8 DEF LabelsAvailableAtAnyInstant
  <2>7. CASE MpiCall
    BY <2>1, <2>7 DEF MpiCall, program, library
  <2>8. CASE UNCHANGED vars
    BY <2>1, <2>8 DEF vars
  <2>9. ~ \E k \in 0..MaxDepth : Return(k)
    BY DEF Return
  <2>10. QED
    BY <2>2, <2>3, <2>5, <2>6, <2>7, <2>8, <2>9 DEF Next, StructuredStep, JumpStep
<1>3. QED
  BY <1>1, <1>2 DEF LabelsInv, LabelsAvailableAtAnyInstant

LEMMA LabelsInvariant ==
  ASSUME "return" \notin Jumps
  PROVE  Spec => []LabelsInv
<1>1. Init => LabelsInv
  BY InitType DEF Init, LabelsInv, LabelsAvailableAtAnyInstant
<1>2. QED
  BY <1>1, LabelsStep, PTL DEF Spec

(* Where my_stack is the path of open loops, an MPI call is labelled with    *)
(* that path, innermost first.                                               *)
LEMMA LabelsOfAnMpiCall ==
  ASSUME LabelsInv, MpiCall, OnlyMpi
  PROVE  /\ Len(emitted') = 2 * Len(loops)
         /\ \A k \in 1..Len(loops) :
              emitted'[k] = Label(k - 1, Hash[loops[Len(loops) - k + 1].loop])
<1> DEFINE n   == Len(loops)
           m   == Len(my_stack)
           on  == [k \in 1..m |-> Label(k - 1, my_stack[m - k + 1])]
           off == [k \in 1..m |-> Label(k - 1, 0)]
<1>1. /\ n \in Nat
      /\ my_stack \in Seq(Nat)
      /\ my_stack = [i \in 1..n |-> Hash[loops[i].loop]]
  BY LenProperties DEF LabelsInv, LabelsAvailableAtAnyInstant, TypeOK, ProgramOK, LibraryOK
<1>2. m = n
  BY <1>1, LenProperties
<1>3. emitted' = on \o off
  BY DEF MpiCall, Labels
<1>4. \A k \in 1..n : on[k] = Label(k - 1, Hash[loops[n - k + 1].loop])
  <2>1. ASSUME NEW k \in 1..n
        PROVE  on[k] = Label(k - 1, Hash[loops[n - k + 1].loop])
    <3>1. n - k + 1 \in 1..n
      BY <1>1
    <3>2. on[k] = Label(k - 1, my_stack[n - k + 1])
      BY <1>2
    <3>3. QED
      BY <1>1, <3>1, <3>2
  <2>2. QED
    BY <2>1
<1>5. on \in Seq(EventRecord) /\ off \in Seq(EventRecord)
  <2>1. ASSUME NEW k \in 1..n
        PROVE  on[k] \in EventRecord /\ off[k] \in EventRecord
    <3>1. n - k + 1 \in 1..n /\ k - 1 \in Nat
      BY <1>1
    <3>2. my_stack[n - k + 1] \in Nat
      BY <1>1, <1>2, <3>1, ElementOfSeq
    <3>3. QED
      BY <1>2, <3>1, <3>2, EventTypes
  <2>2. on \in [1..n -> EventRecord] /\ off \in [1..n -> EventRecord]
    BY <1>2, <2>1
  <2> HIDE DEF on, off, n
  <2>3. [1..n -> EventRecord] \in {[1..i -> EventRecord] : i \in Nat}
    BY <1>1
  <2>4. [1..n -> EventRecord] \subseteq Seq(EventRecord)
    BY <2>3, SeqDef, Zenon
  <2>5. QED
    BY <2>2, <2>4
<1>6. Len(on) = n /\ Len(off) = n
  BY <1>1, <1>2, LenProperties
<1> HIDE DEF on, off
<1>7. /\ Len(emitted') = 2 * n
      /\ \A k \in 1..n : emitted'[k] = on[k]
  <2>1. /\ Len(on \o off) = Len(on) + Len(off)
        /\ \A k \in 1..(Len(on) + Len(off)) :
             (on \o off)[k] = IF k <= Len(on) THEN on[k] ELSE off[k - Len(on)]
    BY <1>5, ConcatProperties
  <2> HIDE DEF n
  <2>2. Len(emitted') = 2 * n
    BY <1>1, <1>3, <1>6, <2>1
  <2>3. ASSUME NEW k \in 1..n
        PROVE  emitted'[k] = on[k]
    <3>1. k \in 1..(Len(on) + Len(off)) /\ k <= Len(on)
      BY <1>1, <1>6
    <3>2. QED
      BY <1>3, <2>1, <3>1
  <2>4. QED
    BY <2>2, <2>3
<1>8. QED
  BY <1>4, <1>7

(* "On any instant the information about where the execution is in terms of  *)
(* loops or nested loops is available", for every program that does not      *)
(* return from inside a loop: breaks and continues do no harm.               *)
THEOREM LabelsCorrect ==
  ASSUME "return" \notin Jumps
  PROVE  Spec => MpiLabelsAreTheOpenLoops
<1> DEFINE Labelled ==
      MpiCall /\ OnlyMpi =>
        /\ Len(emitted') = 2 * Len(loops)
        /\ \A k \in 1..Len(loops) :
             emitted'[k] = Label(k - 1, Hash[loops[Len(loops) - k + 1].loop])
<1>1. LabelsInv => Labelled
  BY LabelsOfAnMpiCall
<1>2. LabelsInv /\ [Next]_vars => [Labelled]_vars
  BY <1>1
<1> HIDE DEF Labelled
<1>3. Spec => [][Labelled]_vars
  BY <1>2, LabelsInvariant, PTL DEF Spec
<1>4. QED
  BY <1>3 DEF MpiLabelsAreTheOpenLoops, Labelled
-----------------------------------------------------------------------------
(* Any jumps.  Counters are popped under the decision of the moment a loop   *)
(* is left, not under that of its entry, and jumps skip the pops of the      *)
(* decisions; yet every loop finds its counter.                              *)
CountersInv == TypeOK /\ NestedDecisions /\ EveryLoopKeepsItsCounter /\ ~crashed

LEMMA CountersFacts ==
  ASSUME CountersInv
  PROVE  /\ Len(loops) \in Nat /\ loops \in Seq([loop : Loop, n : Nat])
         /\ Len(decission_stack) \in Nat /\ decission_stack \in Seq({0, 1})
         /\ Len(itercounter_stack) \in Nat /\ itercounter_stack \in Seq(Nat)
         /\ atHeader \in BOOLEAN
         /\ atHeader => Len(loops) > 0
         /\ loops # <<>> => Len(loops) > 0
  BY LenProperties, EmptySeq DEF CountersInv, TypeOK, ProgramOK, LibraryOK

(* Under no decision 0, every open loop has a counter.                       *)
LEMMA OpenLoopsAreCounted ==
  ASSUME CountersInv, IterMode, TopDecision # 0
  PROVE  Len(loops) <= Len(itercounter_stack)
<1> DEFINE n == Len(loops)
<1>1. PICK height \in [1..n -> 0..Len(decission_stack)] :
        HeightsAtEntry(height, n, ~atHeader, decission_stack, itercounter_stack)
  BY DEF CountersInv, EveryLoopKeepsItsCounter
<1>2. n \in Nat /\ Len(itercounter_stack) \in Nat /\ Len(decission_stack) \in Nat
  BY CountersFacts
<1>3. \A i \in 1..Len(decission_stack) : decission_stack[i] = 1
  BY TopIsLeast DEF CountersInv
<1>4. CASE n = 0
  BY <1>2, <1>4
<1>5. CASE n > 0
  <2>1. n \in 1..n /\ height[n] \in 0..Len(decission_stack)
    BY <1>2, <1>5
  <2>2. height[n] = 0 \/ decission_stack[height[n]] = 1
    BY <1>2, <1>3, <2>1
  <2>3. QED
    BY <1>1, <2>1, <2>2 DEF HeightsAtEntry
<1>6. QED
  BY <1>2, <1>4, <1>5

(* A loop is entered: its height is that of the decision stack.              *)
LEMMA HeightsEntry ==
  ASSUME CountersInv, IterMode, NEW l \in Loop, EnterLoop(l)
  PROVE  EveryLoopKeepsItsCounter'
<1> DEFINE n == Len(loops)
           m == Len(decission_stack)
<1>0. /\ n \in Nat /\ m \in Nat /\ Len(itercounter_stack) \in Nat
      /\ loops \in Seq([loop : Loop, n : Nat])
      /\ itercounter_stack \in Seq(Nat)
  BY CountersFacts
<1>1. PICK height \in [1..n -> 0..m] :
        HeightsAtEntry(height, n, ~atHeader, decission_stack, itercounter_stack)
  BY DEF CountersInv, EveryLoopKeepsItsCounter
<1>2. /\ Len(loops') = n + 1 /\ atHeader' = TRUE /\ ~atHeader
      /\ decission_stack' = decission_stack
  <2>1. Len(Append(loops, [loop |-> l, n |-> 0])) = n + 1
    BY <1>0, AppendProperties
  <2>2. helper_loop_entry(l)
    BY DEF EnterLoop, LoopEntryCall, IterMode
  <2>3. QED
    BY <2>1, <2>2 DEF EnterLoop, helper_loop_entry
<1>3. /\ Len(itercounter_stack') \in Nat
      /\ Len(itercounter_stack') >= Len(itercounter_stack)
      /\ TopDecision # 0 => Len(itercounter_stack') >= n + 1
  <2>1. helper_loop_entry(l)
    BY DEF EnterLoop, LoopEntryCall, IterMode
  <2>2. Len(Append(itercounter_stack, 0)) = Len(itercounter_stack) + 1
    BY <1>0, AppendProperties
  <2>3. TopDecision # 0 => n <= Len(itercounter_stack)
    BY OpenLoopsAreCounted
  <2>4. QED
    BY <1>0, <2>1, <2>2, <2>3 DEF helper_loop_entry
<1>4. m = 0 \/ decission_stack[m] = 1 => TopDecision # 0
  <2>1. m = 0 => decission_stack = <<>>
    BY EmptySeq, CountersFacts
  <2>2. QED
    BY <2>1 DEF TopDecision, Last
<1> DEFINE g == [k \in 1..(n + 1) |-> IF k = n + 1 THEN m ELSE height[k]]
<1>5. g \in [1..(n + 1) -> 0..m]
  BY <1>0
<1>6. \A j, k \in 1..(n + 1) : j < k => g[j] < g[k]
  <2> SUFFICES ASSUME NEW j \in 1..(n + 1), NEW k \in 1..(n + 1), j < k
               PROVE  g[j] < g[k]
    OBVIOUS
  <2>1. j \in 1..n /\ g[j] = height[j]
    BY <1>0
  <2>2. CASE k = n + 1
    <3>1. n \in 1..n /\ n > 0 /\ height[n] < m
      BY <1>0, <1>1, <1>2, <2>1 DEF HeightsAtEntry
    <3>2. j = n \/ height[j] < height[n]
      BY <1>0, <1>1, <2>1, <3>1 DEF HeightsAtEntry
    <3>3. height[j] < m
      <4>1. height[j] \in 0..m /\ height[n] \in 0..m
        BY <2>1, <3>1
      <4> HIDE DEF m
      <4>2. QED
        BY <1>0, <3>1, <3>2, <4>1
    <3>4. QED
      BY <2>1, <2>2, <3>3
  <2>3. CASE k \in 1..n
    BY <1>0, <1>1, <2>1, <2>3 DEF HeightsAtEntry
  <2>4. QED
    BY <1>0, <2>2, <2>3
<1>7. \A k \in 1..(n + 1) : g[k] = 0 \/ decission_stack[g[k]] = 1 => k <= Len(itercounter_stack')
  <2> SUFFICES ASSUME NEW k \in 1..(n + 1), g[k] = 0 \/ decission_stack[g[k]] = 1
               PROVE  k <= Len(itercounter_stack')
    OBVIOUS
  <2>1. CASE k = n + 1
    BY <1>0, <1>3, <1>4, <2>1
  <2>2. CASE k \in 1..n
    <3>1. k <= Len(itercounter_stack)
      BY <1>0, <1>1, <2>2 DEF HeightsAtEntry
    <3>2. QED
      BY <1>0, <1>3, <3>1
  <2>3. QED
    BY <1>0, <2>1, <2>2
<1> HIDE DEF g
<1>8. HeightsAtEntry(g, n + 1, FALSE, decission_stack, itercounter_stack')
  BY <1>6, <1>7 DEF HeightsAtEntry
<1>9. QED
  BY <1>2, <1>5, <1>8 DEF EveryLoopKeepsItsCounter, IterMode

(* An iteration begins or ends, or is cut short by a continue: no loop comes *)
(* or goes, and no decision below the height of the innermost loop.          *)
LEMMA HeightsInside ==
  ASSUME CountersInv, IterMode, NEW m \in Nat,
         Len(loops') = Len(loops), Len(itercounter_stack') = Len(itercounter_stack),
         Len(decission_stack') \in Nat,
         m <= Len(decission_stack), m <= Len(decission_stack'),
         \A i \in 1..m : decission_stack'[i] = decission_stack[i],
         Len(loops) > 0,
         ~atHeader => m + 1 >= Len(decission_stack),
         atHeader => m = Len(decission_stack),
         ~atHeader' => m < Len(decission_stack')
  PROVE  EveryLoopKeepsItsCounter'
<1> DEFINE n == Len(loops)
<1>0. n \in Nat /\ Len(decission_stack) \in Nat
  BY CountersFacts
<1>1. PICK height \in [1..n -> 0..Len(decission_stack)] :
        HeightsAtEntry(height, n, ~atHeader, decission_stack, itercounter_stack)
  BY DEF CountersInv, EveryLoopKeepsItsCounter
<1>2. n \in 1..n /\ height[n] \in 0..m
  BY <1>0, <1>1 DEF HeightsAtEntry
<1>3. \A k \in 1..n : height[k] \in 0..m
  <2> SUFFICES ASSUME NEW k \in 1..n
               PROVE  height[k] \in 0..m
    OBVIOUS
  <2>1. k = n \/ height[k] < height[n]
    BY <1>0, <1>1, <1>2 DEF HeightsAtEntry
  <2>2. QED
    BY <1>0, <1>2, <2>1, SMTT(30)
<1>4. height \in [1..n -> 0..Len(decission_stack')]
  BY <1>3
<1>5. HeightsAtEntry(height, n, ~atHeader', decission_stack', itercounter_stack')
  <2>1. ~atHeader' => height[n] < Len(decission_stack')
    BY <1>2
  <2>2. \A k \in 1..n : height[k] = 0 \/ decission_stack'[height[k]] = 1
                          => height[k] = 0 \/ decission_stack[height[k]] = 1
    BY <1>3
  <2>3. QED
    BY <1>1, <2>1, <2>2 DEF HeightsAtEntry
<1>6. QED
  BY <1>4, <1>5 DEF EveryLoopKeepsItsCounter, IterMode

(* The loops after the k-th are left, in a body or after one, and of the     *)
(* counters no more than theirs.                                             *)
LEMMA HeightsExit ==
  ASSUME CountersInv, IterMode, NEW k \in 0..(Len(loops) - 1),
         Len(loops') = k, ~atHeader',
         atHeader => k = Len(loops) - 1,
         decission_stack' = decission_stack,
         Len(itercounter_stack') \in Nat,
         \/ Len(itercounter_stack') = Len(itercounter_stack)
         \/ TopDecision # 0 /\ Len(itercounter_stack') >= Len(itercounter_stack) - 1
  PROVE  EveryLoopKeepsItsCounter'
<1> DEFINE n == Len(loops)
           m == Len(decission_stack)
<1>0. n \in Nat /\ m \in Nat /\ Len(itercounter_stack) \in Nat /\ n > 0 /\ k \in Nat /\ k < n
  BY CountersFacts
<1>1. PICK height \in [1..n -> 0..m] :
        HeightsAtEntry(height, n, ~atHeader, decission_stack, itercounter_stack)
  BY DEF CountersInv, EveryLoopKeepsItsCounter
<1>2. \A x \in 1..k : x \in 1..n
  BY <1>0
<1> DEFINE g == [x \in 1..k |-> height[x]]
<1>3. g \in [1..k -> 0..m]
  BY <1>2
<1>4. \A x, y \in 1..k : x < y => g[x] < g[y]
  BY <1>1, <1>2 DEF HeightsAtEntry
<1>5. k > 0 => g[k] < m
  <2> SUFFICES ASSUME k > 0
               PROVE  height[k] < m
    BY <1>0
  <2>1. k \in 1..n /\ n \in 1..n
    BY <1>0
  <2>2. height[k] < height[n] /\ height[n] <= m
    BY <1>0, <1>1, <2>1 DEF HeightsAtEntry
  <2>3. QED
    BY <1>0, <2>1, <2>2
<1>6. \A x \in 1..k : g[x] = 0 \/ decission_stack[g[x]] = 1 => x <= Len(itercounter_stack')
  <2> SUFFICES ASSUME NEW x \in 1..k, height[x] = 0 \/ decission_stack[height[x]] = 1
               PROVE  x <= Len(itercounter_stack')
    OBVIOUS
  <2>1. x <= Len(itercounter_stack)
    BY <1>1, <1>2 DEF HeightsAtEntry
  <2>2. TopDecision # 0 => n <= Len(itercounter_stack)
    BY OpenLoopsAreCounted
  <2>3. QED
    BY <1>0, <2>1, <2>2
<1> HIDE DEF g
<1>7. HeightsAtEntry(g, k, TRUE, decission_stack, itercounter_stack')
  BY <1>4, <1>5, <1>6 DEF HeightsAtEntry
<1>8. QED
  BY <1>3, <1>7 DEF EveryLoopKeepsItsCounter, IterMode

LEMMA CountersStep == IterMode /\ CountersInv /\ [Next]_vars => CountersInv'
<1> SUFFICES ASSUME IterMode, CountersInv, [Next]_vars
             PROVE  EveryLoopKeepsItsCounter' /\ ~crashed'
  BY TypeStep, NestedStep DEF CountersInv
<1> DEFINE n == Len(loops)
           m == Len(decission_stack)
<1>0. /\ n \in Nat /\ m \in Nat /\ Len(itercounter_stack) \in Nat
      /\ loops \in Seq([loop : Loop, n : Nat])
      /\ decission_stack \in Seq({0, 1})
      /\ itercounter_stack \in Seq(Nat)
      /\ ~crashed /\ WithIters /\ ~OnlyMpi
      /\ atHeader \in BOOLEAN
      /\ atHeader \/ loops # <<>> => n > 0 /\ loops # <<>>
  BY CountersFacts, EmptySeq DEF CountersInv, IterMode
<1>1. ASSUME NEW l \in Loop, EnterLoop(l)
      PROVE  EveryLoopKeepsItsCounter' /\ ~crashed'
  <2>1. EveryLoopKeepsItsCounter'
    BY <1>1, HeightsEntry
  <2>2. QED
    BY <1>0, <1>1, <2>1 DEF EnterLoop, LoopEntryCall, helper_loop_entry
<1>2. ASSUME NEW sampled \in {0, 1}, BeginIter(sampled)
      PROVE  EveryLoopKeepsItsCounter' /\ ~crashed'
  <2>1. helper_loop_iter_entry(sampled) /\ atHeader /\ atHeader' = FALSE
    BY <1>0, <1>2 DEF BeginIter
  <2>2. Len(loops') = n
    <3>1. [Last(loops) EXCEPT !.n = @ + 1] \in [loop : Loop, n : Nat]
      BY <1>0, <2>1, LoopRecords
    <3>2. loops' = Append(Front(loops), [Last(loops) EXCEPT !.n = @ + 1])
      BY <1>2 DEF BeginIter
    <3>3. QED
      BY <1>0, <2>1, <3>1, <3>2, ReplaceLast
  <2>3. TopDecision # 0 => itercounter_stack # <<>>
    <3>1. TopDecision # 0 => n <= Len(itercounter_stack)
      BY OpenLoopsAreCounted
    <3>2. QED
      BY <1>0, <2>1, <3>1, EmptySeq
  <2>4. Len(itercounter_stack') = Len(itercounter_stack) /\ ~crashed'
    <3>1. CASE TopDecision = 0
      BY <1>0, <2>1, <3>1 DEF helper_loop_iter_entry
    <3>2. CASE TopDecision # 0
      <4>0. Last(itercounter_stack) \in Nat
        BY <1>0, <2>3, <3>2, NatStacks
      <4>1. Last(itercounter_stack) + 1 \in Nat
        BY <4>0
      <4>2. itercounter_stack' = Append(Front(itercounter_stack), Last(itercounter_stack) + 1)
        BY <2>1, <2>3, <3>2 DEF helper_loop_iter_entry
      <4>3. Len(itercounter_stack') = Len(itercounter_stack)
        BY <1>0, <2>3, <3>2, <4>1, <4>2, ReplaceLast
      <4>4. QED
        BY <1>0, <2>1, <2>3, <3>2, <4>3 DEF helper_loop_iter_entry
    <3>3. QED
      BY <3>1, <3>2
  <2>5. \E v \in {0, 1} : decission_stack' = Append(decission_stack, v)
    BY <2>1, <2>3 DEF helper_loop_iter_entry
  <2>6. /\ Len(decission_stack') = m + 1
        /\ \A i \in 1..m : decission_stack'[i] = decission_stack[i]
    BY <1>0, <2>5, AppendProperties
  <2>7. EveryLoopKeepsItsCounter'
    <3>1. /\ n > 0 /\ m \in Nat /\ Len(decission_stack') \in Nat /\ m <= Len(decission_stack')
          /\ m <= m /\ m < Len(decission_stack')
      BY <1>0, <2>1, <2>6
    <3>2. QED
      BY <2>1, <2>2, <2>4, <2>6, <3>1, HeightsInside
  <2>8. QED
    BY <2>4, <2>7
<1>3. CASE EndIter \/ Continue
  <2>1. /\ Len(loops') = n /\ Len(itercounter_stack') = Len(itercounter_stack)
        /\ ~atHeader /\ atHeader' = TRUE /\ ~crashed' /\ n > 0
        /\ decission_stack' = decission_stack \/ decission_stack' = Rest(decission_stack)
    BY <1>0, <1>3 DEF EndIter, Continue, NoCall, library, helper_loop_iter_exit
  <2>2. CASE decission_stack = <<>> \/ decission_stack' = decission_stack
    <3> DEFINE k == IF m = 0 THEN 0 ELSE m - 1
    <3>1. k \in Nat /\ k <= m /\ k + 1 >= m
      BY <1>0
    <3>2. decission_stack' = decission_stack
      BY <2>1, <2>2 DEF Rest
    <3> HIDE DEF k
    <3>3. EveryLoopKeepsItsCounter'
      BY <1>0, <2>1, <3>1, <3>2, HeightsInside
    <3>4. QED
      BY <2>1, <3>3
  <2>3. CASE decission_stack # <<>> /\ decission_stack' = Rest(decission_stack)
    <3>1. /\ m \in Nat \ {0} /\ Len(decission_stack') = m - 1
          /\ \A i \in 1..(m - 1) : decission_stack'[i] = decission_stack[i]
      BY <1>0, <2>3, FrontProperties DEF Rest
    <3> DEFINE k == m - 1
    <3>2. /\ k \in Nat /\ k <= m /\ k + 1 >= m /\ Len(decission_stack') = k /\ k <= k
          /\ \A i \in 1..k : decission_stack'[i] = decission_stack[i]
      BY <3>1
    <3> HIDE DEF k
    <3>3. EveryLoopKeepsItsCounter'
      BY <2>1, <3>2, HeightsInside
    <3>4. QED
      BY <2>1, <3>3
  <2>4. QED
    BY <2>1, <2>2, <2>3
<1>4. CASE ExitLoop \/ Break
  <2>1. /\ loops' = Front(loops) /\ helper_loop_exit /\ ~atHeader' /\ n > 0 /\ loops # <<>>
    BY <1>0, <1>4 DEF ExitLoop, Break, LoopExitCall
  <2>2. Len(loops') = n - 1 /\ n - 1 \in 0..(n - 1)
    <3>1. Len(loops') = n - 1
      BY <1>0, <2>1, FrontProperties
    <3>2. n - 1 \in 0..(n - 1)
      BY <1>0, <2>1
    <3>3. QED
      BY <3>1, <3>2
  <2>3. /\ Len(itercounter_stack') \in Nat
        /\ \/ Len(itercounter_stack') = Len(itercounter_stack)
           \/ TopDecision # 0 /\ Len(itercounter_stack') >= Len(itercounter_stack) - 1
    <3>1. CASE TopDecision = 0
      BY <1>0, <2>1, <3>1 DEF helper_loop_exit
    <3>2. CASE TopDecision # 0
      <4>1. itercounter_stack' = Rest(itercounter_stack)
        BY <2>1, <3>2 DEF helper_loop_exit
      <4>2. CASE itercounter_stack = <<>>
        BY <1>0, <4>1, <4>2 DEF Rest
      <4>3. CASE itercounter_stack # <<>>
        <5>1. /\ Len(itercounter_stack) \in Nat \ {0}
              /\ Len(itercounter_stack') = Len(itercounter_stack) - 1
          BY <1>0, <4>1, <4>3, FrontProperties DEF Rest
        <5>2. QED
          BY <3>2, <5>1
      <4>4. QED
        BY <4>2, <4>3
    <3>3. QED
      BY <3>1, <3>2
  <2>4. decission_stack' = decission_stack /\ ~crashed'
    BY <1>0, <2>1 DEF helper_loop_exit
  <2>5. EveryLoopKeepsItsCounter'
    <3> DEFINE k == n - 1
    <3>1. k \in 0..(n - 1) /\ Len(loops') = k /\ (atHeader => k = n - 1)
      BY <2>2
    <3> HIDE DEF k
    <3>2. QED
      BY <2>1, <2>3, <2>4, <3>1, HeightsExit
  <2>6. QED
    BY <2>4, <2>5
<1>5. ASSUME NEW k \in 0..MaxDepth, Return(k)
      PROVE  EveryLoopKeepsItsCounter' /\ ~crashed'
  <2>1. /\ k \in Nat /\ k < n /\ loops' = SubSeq(loops, 1, k) /\ ~atHeader /\ atHeader' = atHeader
        /\ decission_stack' = decission_stack /\ itercounter_stack' = itercounter_stack
        /\ crashed' = crashed
    BY <1>5, BoundsAssumption DEF Return, NoCall, library
  <2>2. Len(loops') = k
    <3>1. k \in Int /\ \A i \in 1..k : loops[i] \in [loop : Loop, n : Nat]
      <4>1. \A i \in 1..k : i \in 1..n
        BY <1>0, <2>1
      <4>2. \A i \in 1..n : loops[i] \in [loop : Loop, n : Nat]
        BY <1>0, ElementOfSeq
      <4>3. k \in Int
        BY <2>1
      <4>4. QED
        BY <4>1, <4>2, <4>3
    <3>2. Len(SubSeq(loops, 1, k)) = IF 1 <= k THEN k - 1 + 1 ELSE 0
      BY <3>1, SubSeqProperties
    <3>3. QED
      BY <2>1, <3>2
  <2>3. k \in 0..(n - 1)
    BY <1>0, <2>1
  <2>4. EveryLoopKeepsItsCounter'
    BY <1>0, <2>1, <2>2, <2>3, HeightsExit
  <2>5. QED
    BY <1>0, <2>1, <2>4
<1>6. CASE MpiCall \/ UNCHANGED vars
  BY <1>0, <1>6 DEF MpiCall, program, library, vars, CountersInv, EveryLoopKeepsItsCounter
<1>7. QED
  BY <1>1, <1>2, <1>3, <1>4, <1>5, <1>6 DEF Next, StructuredStep, JumpStep

LEMMA CountersInit == Init => CountersInv
<1> SUFFICES ASSUME Init
             PROVE  CountersInv
  OBVIOUS
<1>1. TypeOK /\ NestedDecisions /\ ~crashed
  BY InitType DEF Init, NestedDecisions
<1>2. HeightsAtEntry(<<>>, 0, TRUE, <<>>, <<>>)
  BY DEF HeightsAtEntry
<1>3. <<>> \in [1..0 -> 0..0]
  OBVIOUS
<1>4. Len(loops) = 0 /\ Len(decission_stack) = 0 /\ ~atHeader = TRUE
      /\ decission_stack = <<>> /\ itercounter_stack = <<>>
  BY EmptySeq DEF Init
<1>5. EveryLoopKeepsItsCounter
  BY <1>2, <1>3, <1>4 DEF EveryLoopKeepsItsCounter
<1>6. QED
  BY <1>1, <1>5 DEF CountersInv

(* Without iterations helper_loop_iter_entry is not called.                  *)
LEMMA NoIterationsNoCrash ==
  ~WithIters /\ ~crashed /\ [Next]_vars => ~crashed'
<1> SUFFICES ASSUME ~WithIters, ~crashed, [Next]_vars
             PROVE  crashed' = crashed
  OBVIOUS
<1>1. StructuredStep => crashed' = crashed
  BY DEF StructuredStep, EnterLoop, BeginIter, EndIter, ExitLoop, MpiCall, LoopEntryCall,
         LoopExitCall, helper_loop_entry, helper_loop_exit, helper_loopuid_push,
         helper_loopuid_pop, NoCall, library
<1>2. JumpStep => crashed' = crashed
  BY DEF JumpStep, Continue, Break, Return, LoopExitCall, helper_loop_exit,
         helper_loopuid_pop, NoCall, library
<1>3. QED
  BY <1>1, <1>2 DEF Next, vars

(* helper_loop_iter_entry increments the counter on top of itercounter_stack *)
(* without asking for one.  Whatever breaks, continues and returns a program *)
(* takes, there is one - unless the phase was asked for only_mpi and for     *)
(* iterations at once: then no loop pushes a counter.                        *)
THEOREM NoNullCounterCorrect ==
  ~(OnlyMpi /\ WithIters) => (Spec => []NoNullCounter)
<1>1. Init => CountersInv
  BY CountersInit
<1>2. CountersInv => NoNullCounter
  BY DEF CountersInv, NoNullCounter
<1>3. IterMode => (Spec => []NoNullCounter)
  <2> SUFFICES ASSUME IterMode
               PROVE  Spec => []NoNullCounter
    OBVIOUS
  <2>1. CountersInv /\ [Next]_vars => CountersInv'
    BY CountersStep
  <2>2. QED
    BY <1>1, <2>1, <1>2, PTL DEF Spec
<1>4. ~WithIters => (Spec => []NoNullCounter)
  <2> SUFFICES ASSUME ~WithIters
               PROVE  Spec => []NoNullCounter
    OBVIOUS
  <2>1. Init => NoNullCounter
    BY DEF Init, NoNullCounter
  <2>2. NoNullCounter /\ [Next]_vars => NoNullCounter'
    BY NoIterationsNoCrash DEF NoNullCounter
  <2>3. QED
    BY <2>1, <2>2, PTL DEF Spec
<1>5. QED
  BY <1>3, <1>4, ModeAssumption DEF IterMode
=============================================================================
