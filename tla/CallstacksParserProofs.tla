----------------------- MODULE CallstacksParserProofs -----------------------
(***************************************************************************)
(* The proofs about the callstack parser: types, the partners of a         *)
(* callstack, that reading a trace in time order never fails, and the      *)
(* sizes and the counters of a callstack.                                  *)
(***************************************************************************)
EXTENDS CallstacksParser, SequenceFacts

-----------------------------------------------------------------------------
(* Dictionaries. *)

LEMMA PutFacts ==
  ASSUME NEW d, NEW k, NEW v
  PROVE  /\ DOMAIN Put(d, k, v) = DOMAIN d \cup {k}
         /\ Put(d, k, v)[k] = v
         /\ \A x \in DOMAIN d : x # k => Put(d, k, v)[x] = d[x]
BY DEF Put

LEMMA PutType ==
  ASSUME NEW S, NEW d, d \in [DOMAIN d -> S], NEW k, NEW v \in S
  PROVE  Put(d, k, v) \in [DOMAIN Put(d, k, v) -> S]
BY DEF Put

LEMMA DelFacts ==
  ASSUME NEW d, NEW k
  PROVE  /\ DOMAIN Del(d, k) = DOMAIN d \ {k}
         /\ \A x \in DOMAIN d : x # k => Del(d, k)[x] = d[x]
BY DEF Del

LEMMA DelType ==
  ASSUME NEW S, NEW d, d \in [DOMAIN d -> S], NEW k
  PROVE  Del(d, k) \in [DOMAIN Del(d, k) -> S]
BY DEF Del

LEMMA EntryAndExitTimesDiffer ==
  \A k, l : /\ EntryTime(k) # ExitTime(l)
            /\ EntryTime(k) = EntryTime(l) => k = l
            /\ ExitTime(k) = ExitTime(l) => k = l
BY DEF EntryTime, ExitTime

-----------------------------------------------------------------------------
(* Callstacks. *)

LEMMA NewCallstackFacts ==
  ASSUME NEW p \in Path, NEW k \in Call
  PROVE  /\ NewCallstack(p, k) \in Callstack
         /\ NewCallstack(p, k).instants = <<k>>
         /\ NewCallstack(p, k).sizes = <<>>
         /\ NewCallstack(p, k).already_with_size = 1
         /\ NewCallstack(p, k).partner = {} /\ NewCallstack(p, k).size = 0
BY DEF NewCallstack, Callstack, Call

(* The callstacks new and cs have the same repetitions and counters.         *)
SameCounters(new, cs) ==
  /\ new.instants = cs.instants /\ new.cycles = cs.cycles
  /\ new.hwc = cs.hwc /\ new.hwcs = cs.hwcs
  /\ new.burst = cs.burst /\ new.bursts = cs.bursts
  /\ new.glop = cs.glop /\ new.glops = cs.glops

LEMMA AddSizeFacts ==
  ASSUME NEW cs \in Callstack, NEW size \in Nat
  PROVE  /\ add_mpi_msg_size(cs, size) \in Callstack
         /\ SameCounters(add_mpi_msg_size(cs, size), cs)
         /\ add_mpi_msg_size(cs, size).partner = cs.partner
         /\ Len(add_mpi_msg_size(cs, size).sizes) = Len(cs.sizes)
         /\ add_mpi_msg_size(cs, size).already_with_size =
              IF Repetitions(cs) = 1 THEN cs.already_with_size ELSE cs.already_with_size + 1
         /\ add_mpi_msg_size(cs, size).size = IF Repetitions(cs) = 1 THEN size ELSE cs.size
         /\ add_mpi_msg_size(cs, size).sizes =
              IF Repetitions(cs) = 1 THEN cs.sizes
              ELSE [cs.sizes EXCEPT ![cs.already_with_size + 1] = size]
<1> DEFINE list == [cs.sizes EXCEPT ![cs.already_with_size + 1] = size]
<1>1. cs.sizes \in Seq(Nat) /\ cs.already_with_size + 1 \in Nat
  BY DEF Callstack
<1>2. list \in Seq(Nat) /\ Len(list) = Len(cs.sizes)
  <2>1. CASE cs.already_with_size + 1 \in 1..Len(cs.sizes)
    BY <1>1, <2>1, ExceptSeq
  <2>2. CASE cs.already_with_size + 1 \notin 1..Len(cs.sizes)
    <3>1. list = cs.sizes
      BY <1>1, <2>2
    <3>2. QED
      BY <1>1, <3>1
  <2>3. QED
    BY <2>1, <2>2
<1>3. CASE Repetitions(cs) = 1
  BY <1>3 DEF add_mpi_msg_size, Callstack, SameCounters
<1>4. CASE Repetitions(cs) # 1
  <2>1. add_mpi_msg_size(cs, size) = [cs EXCEPT !.sizes = list, !.already_with_size = @ + 1]
    BY <1>4 DEF add_mpi_msg_size
  <2> HIDE DEF list
  <2>2. QED
    BY <1>1, <1>2, <1>4, <2>1 DEF Callstack, SameCounters, list
<1>5. QED
  BY <1>3, <1>4

LEMMA SetPartnerFacts ==
  ASSUME NEW cs \in Callstack, NEW q \in Task
  PROVE  /\ set_partner(cs, q) \in Callstack
         /\ SameCounters(set_partner(cs, q), cs)
         /\ set_partner(cs, q).sizes = cs.sizes /\ set_partner(cs, q).size = cs.size
         /\ set_partner(cs, q).already_with_size = cs.already_with_size
         /\ set_partner(cs, q).partner = cs.partner \cup {q}
BY DEF set_partner, Callstack, SameCounters

LEMMA ExtendedType ==
  ASSUME NEW merged \in Seq(Nat), NEW first \in Nat, NEW next \in Nat
  PROVE  /\ Extended(merged, first, next) \in Seq(Nat)
         /\ IfBoth(merged, first, next) \in Seq(Nat)
         /\ Len(Extended(merged, first, next)) = IF merged = <<>> THEN 2 ELSE Len(merged) + 1
BY DEF Extended, IfBoth

(* The repetitions and counters of new are those of cs and then of ended.    *)
CountersMerged(new, cs, ended) ==
  /\ new.instants = cs.instants \o ended.instants /\ new.cycles = cs.cycles \o ended.cycles
  /\ new.hwc = cs.hwc /\ new.hwcs = IfBoth(cs.hwcs, cs.hwc, ended.hwc)
  /\ new.burst = cs.burst /\ new.bursts = Extended(cs.bursts, cs.burst, ended.burst)
  /\ new.glop = cs.glop /\ new.glops = IfBoth(cs.glops, cs.glop, ended.glop)

LEMMA MergeFacts ==
  ASSUME NEW cs \in Callstack, NEW other \in Callstack
  PROVE  /\ merge(cs, other) \in Callstack
         /\ CountersMerged(merge(cs, other), cs, other)
         /\ Len(merge(cs, other).instants) = Len(cs.instants) + Len(other.instants)
         /\ Len(merge(cs, other).sizes) = IF cs.sizes = <<>> THEN 2 ELSE Len(cs.sizes) + 1
         /\ merge(cs, other).size = cs.size
         /\ merge(cs, other).sizes = Extended(cs.sizes, cs.size, other.size)
         /\ merge(cs, other).already_with_size = cs.already_with_size
         /\ merge(cs, other).partner = cs.partner \cup other.partner
<1> DEFINE instants == cs.instants \o other.instants
           cycles   == cs.cycles \o other.cycles
           partner  == cs.partner \cup other.partner
           sizes    == Extended(cs.sizes, cs.size, other.size)
           hwcs     == IfBoth(cs.hwcs, cs.hwc, other.hwc)
           glops    == IfBoth(cs.glops, cs.glop, other.glop)
           bursts   == Extended(cs.bursts, cs.burst, other.burst)
<1>1. instants \in Seq(Call) /\ Len(instants) = Len(cs.instants) + Len(other.instants)
  BY DEF Callstack
<1>2. cycles \in Seq(Nat) /\ partner \in SUBSET Task
  BY DEF Callstack
<1>3. /\ sizes \in Seq(Nat) /\ hwcs \in Seq(Nat) /\ glops \in Seq(Nat) /\ bursts \in Seq(Nat)
      /\ Len(sizes) = IF cs.sizes = <<>> THEN 2 ELSE Len(cs.sizes) + 1
  BY ExtendedType DEF Callstack
<1>4. merge(cs, other) = [cs EXCEPT !.instants = instants, !.cycles = cycles,
                                    !.partner = partner, !.sizes = sizes,
                                    !.hwcs = hwcs, !.glops = glops, !.bursts = bursts]
  BY DEF merge
<1> HIDE DEF instants, cycles, partner, sizes, hwcs, glops, bursts
<1>5. merge(cs, other) \in Callstack
  BY <1>1, <1>2, <1>3, <1>4, ZenonT(60) DEF Callstack
<1>6. /\ merge(cs, other).instants = instants
      /\ merge(cs, other).sizes = sizes
      /\ merge(cs, other).size = cs.size
      /\ merge(cs, other).already_with_size = cs.already_with_size
      /\ merge(cs, other).partner = partner
  BY <1>4 DEF Callstack
<1>7. /\ merge(cs, other).cycles = cycles
      /\ merge(cs, other).hwc = cs.hwc /\ merge(cs, other).hwcs = hwcs
      /\ merge(cs, other).burst = cs.burst /\ merge(cs, other).bursts = bursts
      /\ merge(cs, other).glop = cs.glop /\ merge(cs, other).glops = glops
  BY <1>4 DEF Callstack
<1>8. CountersMerged(merge(cs, other), cs, other)
  BY <1>6, <1>7 DEF CountersMerged, instants, cycles, hwcs, bursts, glops
<1>9. QED
  BY <1>1, <1>3, <1>5, <1>6, <1>8 DEF partner, sizes

(* The sum of a list is defined by recursion over its positions: the         *)
(* function exists, and is determined by the list.                           *)
Sums(f, list, n) == f = [i \in 0..n |-> IF i = 0 THEN 0 ELSE f[i - 1] + list[i]]

LEMMA SumsAt ==
  ASSUME NEW f, NEW list, NEW n, Sums(f, list, n), NEW i \in 0..n
  PROVE  f[i] = IF i = 0 THEN 0 ELSE f[i - 1] + list[i]
<1> DEFINE g == [k \in 0..n |-> IF k = 0 THEN 0 ELSE f[k - 1] + list[k]]
<1>1. f = g
  BY DEF Sums
<1>2. g[i] = IF i = 0 THEN 0 ELSE f[i - 1] + list[i]
  OBVIOUS
<1> HIDE DEF g
<1>3. QED
  BY <1>1, <1>2

LEMMA SumsExist ==
  ASSUME NEW list, NEW n \in Nat
  PROVE  \E f : Sums(f, list, n)
<1> DEFINE T == {m \in Nat : \E f : Sums(f, list, m)}
<1>1. 0 \in T
  <2>1. Sums([i \in 0..0 |-> 0], list, 0)
    BY DEF Sums
  <2>2. QED
    BY <2>1
<1>2. ASSUME NEW m \in Nat, m \in T
      PROVE  m + 1 \in T
  <2>1. PICK f : Sums(f, list, m)
    BY <1>2
  <2> DEFINE new == f[m] + list[m + 1]
             g   == [i \in 0..(m + 1) |-> IF i = m + 1 THEN new ELSE f[i]]
  <2>2. ASSUME NEW i \in 0..(m + 1)
        PROVE  g[i] = IF i = 0 THEN 0 ELSE g[i - 1] + list[i]
    <3>1. CASE i = m + 1
      <4>1. i # 0 /\ g[i - 1] = f[m] /\ g[i] = new
        BY <3>1
      <4> HIDE DEF g
      <4>2. QED
        BY <3>1, <4>1
    <3>2. CASE i # m + 1
      <4>1. i \in 0..m /\ (i = 0 \/ i - 1 \in 0..m) /\ i - 1 # m + 1
        BY <3>2
      <4>2. f[i] = IF i = 0 THEN 0 ELSE f[i - 1] + list[i]
        BY <2>1, <4>1, SumsAt
      <4>3. g[i] = f[i] /\ (i = 0 \/ g[i - 1] = f[i - 1])
        BY <4>1
      <4> HIDE DEF g
      <4>4. QED
        BY <4>2, <4>3
    <3>3. QED
      BY <3>1, <3>2
  <2>3. g = [i \in 0..(m + 1) |-> g[i]]
    OBVIOUS
  <2> HIDE DEF g
  <2>4. Sums(g, list, m + 1)
    BY <2>2, <2>3 DEF Sums
  <2>5. QED
    BY <2>4
<1>3. n \in T
  <2> HIDE DEF T
  <2>1. QED
    BY <1>1, <1>2, SetInduction
<1>4. QED
  BY <1>3

LEMMA TotalType ==
  ASSUME NEW list \in Seq(Nat)
  PROVE  Total(list) \in Nat
<1> DEFINE f == CHOOSE g : g = [i \in 0..Len(list) |-> IF i = 0 THEN 0 ELSE g[i - 1] + list[i]]
           T == {m \in Nat : m \in 0..Len(list) => f[m] \in Nat}
<1>1. Total(list) = f[Len(list)]
  BY Zenon DEF Total
<1>2. Len(list) \in Nat /\ \A i \in 1..Len(list) : list[i] \in Nat
  OBVIOUS
<1>3. Sums(f, list, Len(list))
  <2>1. \E g : g = [i \in 0..Len(list) |-> IF i = 0 THEN 0 ELSE g[i - 1] + list[i]]
    BY <1>2, SumsExist DEF Sums
  <2>2. QED
    BY <2>1, Zenon DEF Sums
<1> HIDE DEF f
<1>4. 0 \in T
  BY <1>2, <1>3, SumsAt
<1>5. ASSUME NEW m \in Nat, m \in T
      PROVE  m + 1 \in T
  <2> SUFFICES ASSUME m + 1 \in 0..Len(list)
               PROVE  f[m + 1] \in Nat
    OBVIOUS
  <2>1. f[m + 1] = IF m + 1 = 0 THEN 0 ELSE f[m + 1 - 1] + list[m + 1]
    BY <1>3, SumsAt
  <2>2. m \in 0..Len(list) /\ m + 1 \in 1..Len(list) /\ m + 1 - 1 = m
    BY <1>2
  <2>3. QED
    BY <1>2, <1>5, <2>1, <2>2
<1>6. Len(list) \in T
  <2> HIDE DEF T
  <2>1. QED
    BY <1>2, <1>4, <1>5, SetInduction
<1>7. QED
  BY <1>1, <1>2, <1>6

LEMMA ReducedFacts ==
  ASSUME NEW cs \in Callstack
  PROVE  /\ Reduced(cs) \in Callstack
         /\ Reduced(cs).partner = cs.partner
<1>1. Total(cs.sizes) \in Nat
  BY TotalType DEF Callstack
<1>2. <<>> \in Seq(Nat)
  OBVIOUS
<1>3. QED
  BY <1>1, <1>2 DEF Reduced, Callstack

(* The sum of a list is that of the set of its elements, if no element but 0 *)
(* is in it twice.                                                           *)
Injective(list) ==
  \A i, j \in 1..Len(list) : i # j /\ list[i] # 0 => list[i] # list[j]

LEMMA TotalIsSum ==
  ASSUME NEW list \in Seq(Nat), Injective(list)
  PROVE  Total(list) = SumSet({list[i] : i \in 1..Len(list)} \ {0})
<1> DEFINE f == CHOOSE g : g = [i \in 0..Len(list) |-> IF i = 0 THEN 0 ELSE g[i - 1] + list[i]]
           E(m) == {list[i] : i \in 1..m} \ {0}
           T == {m \in Nat : m \in 0..Len(list) => f[m] = SumSet(E(m)) /\ IsFiniteSet(E(m))}
<1>1. Total(list) = f[Len(list)]
  BY Zenon DEF Total
<1>2. Len(list) \in Nat /\ \A i \in 1..Len(list) : list[i] \in Nat
  OBVIOUS
<1>3. Sums(f, list, Len(list))
  <2>1. \E g : g = [i \in 0..Len(list) |-> IF i = 0 THEN 0 ELSE g[i - 1] + list[i]]
    BY <1>2, SumsExist DEF Sums
  <2>2. QED
    BY <2>1, Zenon DEF Sums
<1> HIDE DEF f
<1>4. 0 \in T
  <2>1. E(0) = {} /\ f[0] = 0
    BY <1>2, <1>3, SumsAt
  <2>2. QED
    BY <2>1, SumSetEmpty, FS_EmptySet
<1>5. ASSUME NEW m \in Nat, m \in T
      PROVE  m + 1 \in T
  <2> SUFFICES ASSUME m + 1 \in 0..Len(list)
               PROVE  f[m + 1] = SumSet(E(m + 1)) /\ IsFiniteSet(E(m + 1))
    OBVIOUS
  <2> DEFINE x == list[m + 1]
  <2>1. f[m + 1] = IF m + 1 = 0 THEN 0 ELSE f[m + 1 - 1] + list[m + 1]
    BY <1>3, SumsAt
  <2>2. m \in 0..Len(list) /\ m + 1 \in 1..Len(list) /\ m + 1 - 1 = m
    BY <1>2
  <2>3. f[m] = SumSet(E(m)) /\ IsFiniteSet(E(m)) /\ f[m + 1] = f[m] + x /\ x \in Nat
    BY <1>2, <1>5, <2>1, <2>2
  <2>4. E(m + 1) = (E(m) \cup {x}) \ {0}
    <3>1. 1..(m + 1) = (1..m) \cup {m + 1}
      OBVIOUS
    <3>2. QED
      BY <3>1
  <2>5. IsFiniteSet(E(m + 1)) /\ E(m + 1) \subseteq Nat
    <3>1. E(m + 1) \subseteq Nat
      BY <1>2, <2>2
    <3> HIDE DEF E
    <3>2. IsFiniteSet(E(m) \cup {x})
      BY <2>3, FS_AddElement
    <3>3. QED
      BY <2>4, <3>1, <3>2, FS_Subset
  <2>6. CASE x = 0
    <3>1. E(m + 1) = E(m) /\ f[m] \in Nat
      <4>1. E(m + 1) = E(m)
        BY <2>4, <2>6
      <4> HIDE DEF E
      <4>2. QED
        BY <2>3, <2>5, <4>1, SumSetNat
    <3> HIDE DEF E
    <3>2. QED
      BY <2>3, <2>6, <3>1
  <2>7. CASE x # 0
    <3>1. x \notin E(m)
      BY <2>2, <2>7 DEF Injective
    <3>2. x \in E(m + 1) /\ E(m + 1) \ {x} = E(m)
      <4>1. 0 \notin E(m)
        OBVIOUS
      <4> HIDE DEF E, x
      <4>2. QED
        BY <2>4, <2>7, <3>1, <4>1
    <3> HIDE DEF E, x
    <3>3. SumSet(E(m + 1)) = SumSet(E(m)) + x
      BY <2>5, <3>2, SumSetRemove
    <3>4. QED
      BY <2>3, <2>5, <3>3
  <2>8. QED
    BY <2>5, <2>6, <2>7
<1>6. Len(list) \in T
  <2> HIDE DEF T
  <2>1. QED
    BY <1>2, <1>4, <1>5, SetInduction
<1>7. QED
  BY <1>1, <1>2, <1>6

-----------------------------------------------------------------------------
(* Types. *)

Message == [src : Task, si : Call, dst : Task, di : Call, size : Nat,
            send_merged : BOOLEAN, recv_merged : BOOLEAN]

PerTask(f) == f = [t \in Task |-> f[t]]

Types ==
  /\ TypeOK
  /\ comms \in Seq(Message)
  /\ burst_last \in [Task -> Nat]
  /\ PerTask(callstack_pool) /\ PerTask(comm_hashmap) /\ PerTask(mpi_init_hashmap)
  /\ PerTask(mpi_fini_hashmap) /\ PerTask(mpi_acumm_cycles)
  /\ \A t \in Task :
       /\ mpi_acumm_cycles[t] \in [DOMAIN mpi_acumm_cycles[t] -> Nat]
       /\ Len(calls[t]) <= MaxCalls
       /\ mpi_opened[t] => Len(calls[t]) # 0

LEMMA AccumulatedType ==
  ASSUME NEW acc, acc \in [DOMAIN acc -> Nat], NEW work \in Nat
  PROVE  Accumulated(acc, work) \in [DOMAIN Accumulated(acc, work) -> Nat]
BY DEF Accumulated

LEMMA PerTaskExcept ==
  ASSUME NEW f, PerTask(f), NEW t \in Task, NEW v
  PROVE  /\ PerTask([f EXCEPT ![t] = v])
         /\ [f EXCEPT ![t] = v][t] = v
         /\ \A u \in Task : u # t => [f EXCEPT ![t] = v][u] = f[u]
<1> DEFINE g == [u \in Task |-> f[u]]
           h == [g EXCEPT ![t] = v]
<1>1. h = [u \in Task |-> h[u]] /\ h[t] = v /\ \A u \in Task : u # t => h[u] = f[u]
  OBVIOUS
<1>2. f = g
  BY DEF PerTask
<1>3. [f EXCEPT ![t] = v] = h
  <2> HIDE DEF g
  <2>1. QED
    BY <1>2
<1> HIDE DEF g, h
<1>4. QED
  BY <1>1, <1>3 DEF PerTask

Updated(g, f, t, v) == g = [f EXCEPT ![t] = v]

LEMMA PerTaskUpdate ==
  ASSUME NEW f, PerTask(f), NEW t \in Task, NEW v, NEW g, Updated(g, f, t, v)
  PROVE  PerTask(g) /\ g[t] = v /\ \A u \in Task : u # t => g[u] = f[u]
<1> DEFINE h == [f EXCEPT ![t] = v]
<1>1. PerTask(h) /\ h[t] = v /\ \A u \in Task : u # t => h[u] = f[u]
  BY PerTaskExcept
<1>2. g = h
  BY DEF Updated
<1> HIDE DEF h
<1>3. QED
  BY <1>1, <1>2

(* What the types say of a communication in the dictionary of a task.        *)
LEMMA KnownMessage ==
  ASSUME Types, NEW t \in Task, NEW x \in DOMAIN comm_hashmap[t]
  PROVE  /\ comm_hashmap[t][x] \in 1..Len(comms)
         /\ comms[comm_hashmap[t][x]] \in Message
BY DEF Types, TypeOK

(* The entry record of a call, when the burst before it began with counters. *)
LEMMA EntryEffect ==
  ASSUME Types, NEW t \in Task, NEW p \in Path, NEW hwc \in BOOLEAN, Entry(t, p, hwc),
         burst_last[t] # 0 \/ ~failed'
  PROVE  LET k == Len(calls[t]) + 1
             m == comm_hashmap[t][EntryTime(k)]
         IN /\ ~failed /\ ~finished /\ ~mpi_opened[t] /\ k \in Call
            /\ Updated(calls', calls, t, Append(calls[t], p))
            /\ Updated(mpi_opened', mpi_opened, t, TRUE)
            /\ IF EntryTime(k) \in DOMAIN comm_hashmap[t]
               THEN /\ \/ comm_hashmap' = comm_hashmap
                       \/ Updated(comm_hashmap', comm_hashmap, t, Del(comm_hashmap[t], EntryTime(k)))
                    /\ UNCHANGED mpi_init_hashmap
               ELSE /\ Updated(mpi_init_hashmap', mpi_init_hashmap, t, Put(mpi_init_hashmap[t], k, k))
                    /\ UNCHANGED comm_hashmap
            /\ \E cs \in Callstack :
                 /\ Updated(objs', objs, t, Append(objs[t], cs))
                 /\ Len(cs.instants) = 1 /\ cs.sizes = <<>> /\ cs.already_with_size = 1
                 /\ cs.partner = IF EntryTime(k) \in DOMAIN comm_hashmap[t]
                                 THEN {comms[m].dst} ELSE {}
                 /\ cs.size = IF EntryTime(k) \in DOMAIN comm_hashmap[t]
                              THEN comms[m].size ELSE 0
            /\ \E acc : /\ acc \in [DOMAIN acc -> Nat]
                        /\ Updated(mpi_acumm_cycles', mpi_acumm_cycles, t, acc)
            /\ missing \subseteq missing'
            /\ UNCHANGED <<comms, callstack_pool, mpi_fini_hashmap, burst_last, failed, finished>>
<1> DEFINE k     == Len(calls[t]) + 1
           seen  == p \in DOMAIN mpi_acumm_cycles[t]
           cycl  == IF seen THEN <<mpi_acumm_cycles[t][p]>> ELSE <<>>
           fresh == [NewCallstack(p, k) EXCEPT !.cycles = cycl, !.burst = burst_last[t]]
           known == EntryTime(k) \in DOMAIN comm_hashmap[t]
           comm  == comms[comm_hashmap[t][EntryTime(k)]]
           cs    == IF known THEN add_mpi_msg_size(set_partner(fresh, comm.dst), comm.size) ELSE fresh
           hw    == IF hwc THEN BurstWork(k) ELSE 0
           gl    == Glop(t, p, k)
           new   == [cs EXCEPT !.hwc = hw, !.glop = gl]
           begun == IF seen THEN mpi_acumm_cycles[t] ELSE Put(mpi_acumm_cycles[t], p, 0)
           acc   == IF hwc THEN Accumulated(begun, BurstWork(k)) ELSE begun
<1>1. /\ Len(calls[t]) \in Nat /\ k \in Nat /\ k # 0
      /\ burst_last[t] \in Nat
      /\ mpi_acumm_cycles[t] \in [DOMAIN mpi_acumm_cycles[t] -> Nat]
      /\ failed \in BOOLEAN
  BY DEF Types, TypeOK
<1>2. /\ ~failed /\ ~finished /\ ~mpi_opened[t] /\ k \in Call
      /\ MpiEntry(t, p, hwc)
  BY <1>1, BoundAssumption DEF Entry, Reading, Call
<1>3. /\ calls' = [calls EXCEPT ![t] = Append(@, p)]
      /\ IF known
         THEN /\ comm_hashmap' = [comm_hashmap EXCEPT
                     ![t] = IF comm.recv_merged THEN Del(@, EntryTime(k)) ELSE @]
              /\ UNCHANGED mpi_init_hashmap
         ELSE /\ mpi_init_hashmap' = [mpi_init_hashmap EXCEPT ![t] = Put(@, k, k)]
              /\ UNCHANGED comm_hashmap
      /\ objs' = [objs EXCEPT ![t] = Append(@, new)]
      /\ mpi_acumm_cycles' = [mpi_acumm_cycles EXCEPT ![t] = acc]
      /\ mpi_opened' = [mpi_opened EXCEPT ![t] = TRUE]
      /\ Counted(t, EntryTime(k), hwc)
      /\ UNCHANGED <<comms, callstack_pool, mpi_fini_hashmap, burst_last, failed, finished>>
  BY <1>2, Zenon DEF MpiEntry
<1>4. BurstWork(k) \in Nat /\ hw \in Nat /\ gl \in Nat
  BY <1>1 DEF BurstWork, Glop
<1>5. acc \in [DOMAIN acc -> Nat]
  <2>1. begun \in [DOMAIN begun -> Nat]
    BY <1>1, PutType
  <2> HIDE DEF begun
  <2>2. QED
    BY <1>4, <2>1, AccumulatedType
<1>6. cycl \in Seq(Nat)
  BY <1>1
<1>7. /\ fresh \in Callstack /\ fresh.instants = <<k>> /\ fresh.sizes = <<>>
      /\ fresh.already_with_size = 1 /\ fresh.partner = {} /\ fresh.size = 0
  <2>1. /\ NewCallstack(p, k) \in Callstack
        /\ NewCallstack(p, k).instants = <<k>> /\ NewCallstack(p, k).sizes = <<>>
        /\ NewCallstack(p, k).already_with_size = 1 /\ NewCallstack(p, k).partner = {}
        /\ NewCallstack(p, k).size = 0
    BY <1>2, NewCallstackFacts
  <2> HIDE DEF cycl, k
  <2>2. QED
    BY <1>1, <1>6, <2>1 DEF Callstack
<1>8. /\ cs \in Callstack /\ Len(cs.instants) = 1 /\ cs.sizes = <<>>
      /\ cs.already_with_size = 1 /\ cs.partner = IF known THEN {comm.dst} ELSE {}
      /\ cs.size = IF known THEN comm.size ELSE 0
  <2> HIDE DEF fresh
  <2>1. CASE known
    <3>1. comm.dst \in Task /\ comm.size \in Nat
      BY <2>1, KnownMessage DEF Message
    <3> HIDE DEF comm, known
    <3> DEFINE with == set_partner(fresh, comm.dst)
    <3>2. /\ with \in Callstack /\ with.instants = fresh.instants /\ with.sizes = fresh.sizes
          /\ with.already_with_size = fresh.already_with_size
          /\ with.partner = fresh.partner \cup {comm.dst}
      BY <1>7, <3>1, SetPartnerFacts DEF SameCounters
    <3> HIDE DEF with
    <3>3. cs = add_mpi_msg_size(with, comm.size)
      BY <2>1 DEF with
    <3> HIDE DEF cs
    <3>4. /\ cs \in Callstack /\ cs.instants = with.instants /\ cs.partner = with.partner
          /\ Len(cs.sizes) = Len(with.sizes)
          /\ cs.already_with_size = IF Repetitions(with) = 1 THEN with.already_with_size
                                    ELSE with.already_with_size + 1
          /\ cs.size = IF Repetitions(with) = 1 THEN comm.size ELSE with.size
      BY <3>1, <3>2, <3>3, AddSizeFacts DEF SameCounters
    <3>5. Repetitions(with) = 1
      BY <1>7, <3>2 DEF Repetitions
    <3>6. cs.sizes = <<>>
      <4>1. cs.sizes \in Seq(Nat) /\ Len(cs.sizes) = 0
        BY <1>7, <3>2, <3>4 DEF Callstack
      <4>2. QED
        BY <4>1
    <3>7. QED
      BY <1>7, <2>1, <3>2, <3>4, <3>5, <3>6
  <2>2. CASE ~known
    BY <1>7, <2>2
  <2>3. QED
    BY <2>1, <2>2
<1>9. /\ new \in Callstack /\ Len(new.instants) = 1 /\ new.sizes = <<>>
      /\ new.already_with_size = 1 /\ new.partner = IF known THEN {comm.dst} ELSE {}
      /\ new.size = IF known THEN comm.size ELSE 0
  <2> HIDE DEF cs, hw, gl
  <2>1. new \in Callstack
    BY <1>4, <1>8 DEF Callstack
  <2>2. /\ new.instants = cs.instants /\ new.sizes = cs.sizes
        /\ new.already_with_size = cs.already_with_size /\ new.partner = cs.partner
        /\ new.size = cs.size
    BY <1>8 DEF Callstack
  <2>3. QED
    BY <1>8, <2>1, <2>2
<1>10. missing \subseteq missing'
  BY <1>3 DEF Counted
<1>11. known => \/ comm_hashmap' = comm_hashmap
                \/ comm_hashmap' = [comm_hashmap EXCEPT ![t] = Del(@, EntryTime(k))]
  <2>1. ASSUME NEW v PROVE [comm_hashmap EXCEPT ![t] = comm_hashmap[t]] = comm_hashmap
    BY DEF Types, PerTask
  <2>2. QED
    BY <1>3, <2>1
<1> HIDE DEF new, acc
<1>12. QED
  BY <1>2, <1>3, <1>5, <1>9, <1>10, <1>11 DEF Updated

(* The size of a message goes to the size of a callstack that has not been   *)
(* merged, or to the list of the sizes of its repetitions.                   *)
TookSize(new, cs, size) ==
  IF Repetitions(cs) = 1 THEN new.size = size /\ new.sizes = cs.sizes
  ELSE /\ new.size = cs.size
       /\ new.sizes = [cs.sizes EXCEPT ![cs.already_with_size + 1] = size]

(* The callstack new is the callstack cs after one more message, to or from  *)
(* process q.                                                                *)
TookMessage(new, cs, q, size) ==
  /\ new \in Callstack
  /\ TookSize(new, cs, size)
  /\ SameCounters(new, cs) /\ new.instants = cs.instants
  /\ Len(new.sizes) = Len(cs.sizes)
  /\ new.partner = cs.partner \cup {q}
  /\ new.already_with_size = IF Len(cs.instants) = 1 THEN cs.already_with_size
                             ELSE cs.already_with_size + 1

LEMMA TakesMessage ==
  ASSUME NEW cs \in Callstack, NEW q \in Task, NEW size \in Nat
  PROVE  /\ TookMessage(add_mpi_msg_size(set_partner(cs, q), size), cs, q, size)
         /\ TookMessage(set_partner(add_mpi_msg_size(cs, size), q), cs, q, size)
<1>1. TookMessage(add_mpi_msg_size(set_partner(cs, q), size), cs, q, size)
  BY SetPartnerFacts, AddSizeFacts DEF TookMessage, TookSize, SameCounters, Repetitions
<1>2. TookMessage(set_partner(add_mpi_msg_size(cs, size), q), cs, q, size)
  BY SetPartnerFacts, AddSizeFacts DEF TookMessage, TookSize, SameCounters, Repetitions
<1>3. QED
  BY <1>1, <1>2

(* The callstack new is the pooled callstack cs with the one that has just   *)
(* ended merged into it.                                                     *)
Merged(new, cs, ended) ==
  /\ new \in Callstack /\ CountersMerged(new, cs, ended)
  /\ Len(new.instants) = Len(cs.instants) + Len(ended.instants)
  /\ Len(new.sizes) = IF cs.sizes = <<>> THEN 2 ELSE Len(cs.sizes) + 1
  /\ new.size = cs.size /\ new.sizes = Extended(cs.sizes, cs.size, ended.size)
  /\ new.already_with_size = cs.already_with_size
  /\ new.partner = cs.partner \cup ended.partner

(* The exit record of a call.                                                *)
LEMMA ExitEffect ==
  ASSUME Types, NEW t \in Task, NEW hwc \in BOOLEAN, Exit(t, hwc)
  PROVE  LET k     == Len(calls[t])
             p     == calls[t][k]
             o     == IF p \in DOMAIN callstack_pool[t] THEN callstack_pool[t][p] ELSE k
             known == ExitTime(k) \in DOMAIN comm_hashmap[t]
             m     == comm_hashmap[t][ExitTime(k)]
         IN /\ ~failed /\ ~finished /\ mpi_opened[t] /\ k \in Call
            /\ p \in Path /\ o \in 1..Len(objs[t])
            /\ Updated(callstack_pool', callstack_pool, t, Put(callstack_pool[t], p, o))
            /\ Updated(mpi_opened', mpi_opened, t, FALSE)
            /\ Updated(mpi_init_hashmap', mpi_init_hashmap, t,
                       IF k \in DOMAIN mpi_init_hashmap[t] THEN Put(mpi_init_hashmap[t], k, o)
                       ELSE mpi_init_hashmap[t])
            /\ IF known
               THEN /\ \/ comm_hashmap' = comm_hashmap
                       \/ Updated(comm_hashmap', comm_hashmap, t, Del(comm_hashmap[t], ExitTime(k)))
                    /\ UNCHANGED mpi_fini_hashmap
               ELSE /\ Updated(mpi_fini_hashmap', mpi_fini_hashmap, t, Put(mpi_fini_hashmap[t], k, o))
                    /\ UNCHANGED comm_hashmap
            /\ \E cs, new \in Callstack :
                 /\ IF p \in DOMAIN callstack_pool[t] THEN Merged(cs, objs[t][o], objs[t][k])
                    ELSE cs = objs[t][k]
                 /\ failed' = (known /\ ~CanTakeSize(cs))
                 /\ IF known /\ ~failed' THEN TookMessage(new, cs, comms[m].src, comms[m].size) ELSE new = cs
                 /\ Updated(objs', objs, t, [objs[t] EXCEPT ![o] = new])
            /\ \E acc : /\ acc \in [DOMAIN acc -> Nat]
                        /\ Updated(mpi_acumm_cycles', mpi_acumm_cycles, t, acc)
            /\ Updated(burst_last', burst_last, t, IF hwc THEN CallWork(k) ELSE 0)
            /\ missing' = IF hwc THEN missing ELSE missing \cup {<<t, ExitTime(k)>>}
            /\ UNCHANGED <<calls, comms, finished>>
<1> DEFINE k      == Len(calls[t])
           p      == calls[t][k]
           pooled == p \in DOMAIN callstack_pool[t]
           o      == IF pooled THEN callstack_pool[t][p] ELSE k
           cs     == IF pooled THEN merge(objs[t][o], objs[t][k]) ELSE objs[t][k]
           known  == ExitTime(k) \in DOMAIN comm_hashmap[t]
           comm   == comms[comm_hashmap[t][ExitTime(k)]]
           raises == known /\ ~CanTakeSize(cs)
           begun  == Put(mpi_acumm_cycles[t], p, 0)
           acc    == IF hwc THEN Accumulated(begun, CallWork(k)) ELSE begun
           new    == IF known /\ ~raises
                     THEN add_mpi_msg_size(set_partner(cs, comm.src), comm.size) ELSE cs
<1>1. /\ MpiExit(t, hwc) /\ ~failed /\ ~finished /\ mpi_opened[t]
      /\ failed \in BOOLEAN /\ finished \in BOOLEAN
  BY DEF Exit, Reading, Types, TypeOK
<1>2. /\ k \in Nat /\ k # 0 /\ k <= MaxCalls /\ p \in Path /\ k \in 1..Len(objs[t])
      /\ objs[t] \in Seq(Callstack) /\ Len(objs[t]) = k
      /\ callstack_pool[t] \in [DOMAIN callstack_pool[t] -> 1..Len(objs[t])]
      /\ mpi_acumm_cycles[t] \in [DOMAIN mpi_acumm_cycles[t] -> Nat]
  BY <1>1 DEF Types, TypeOK
<1>3. k \in Call /\ o \in 1..Len(objs[t])
  BY <1>2, BoundAssumption DEF Call
<1>4. /\ callstack_pool' = [callstack_pool EXCEPT ![t] = Put(@, p, o)]
      /\ mpi_init_hashmap' = [mpi_init_hashmap EXCEPT
           ![t] = IF k \in DOMAIN @ THEN Put(@, k, o) ELSE @]
      /\ IF known
         THEN /\ comm_hashmap' = [comm_hashmap EXCEPT
                   ![t] = IF comm.send_merged THEN Del(@, ExitTime(k)) ELSE @]
              /\ UNCHANGED mpi_fini_hashmap
         ELSE /\ mpi_fini_hashmap' = [mpi_fini_hashmap EXCEPT ![t] = Put(@, k, o)]
              /\ UNCHANGED comm_hashmap
      /\ objs' = [objs EXCEPT ![t][o] = new]
      /\ mpi_acumm_cycles' = [mpi_acumm_cycles EXCEPT ![t] = acc]
      /\ mpi_opened' = [mpi_opened EXCEPT ![t] = FALSE]
      /\ burst_last' = [burst_last EXCEPT ![t] = IF hwc THEN CallWork(k) ELSE 0]
      /\ failed' = raises
      /\ Counted(t, ExitTime(k), hwc)
      /\ UNCHANGED <<calls, comms, finished>>
  BY <1>1, Zenon DEF MpiExit
<1>5. acc \in [DOMAIN acc -> Nat]
  <2>1. begun \in [DOMAIN begun -> Nat]
    BY <1>2, PutType
  <2>2. CallWork(k) \in Nat
    BY <1>2 DEF CallWork
  <2> HIDE DEF begun
  <2>3. QED
    BY <2>1, <2>2, AccumulatedType
<1>6. /\ cs \in Callstack
      /\ IF pooled THEN Merged(cs, objs[t][o], objs[t][k]) ELSE cs = objs[t][k]
  <2>1. objs[t][o] \in Callstack /\ objs[t][k] \in Callstack
    BY <1>2, <1>3
  <2> HIDE DEF o, k
  <2>2. QED
    BY <2>1, MergeFacts DEF Merged
<1>7. /\ new \in Callstack
      /\ IF known /\ ~failed' THEN TookMessage(new, cs, comm.src, comm.size) ELSE new = cs
  <2> HIDE DEF cs
  <2>1. CASE known /\ ~raises
    <3>1. comm.src \in Task /\ comm.size \in Nat
      BY <2>1, KnownMessage DEF Message
    <3> HIDE DEF comm
    <3>2. new = add_mpi_msg_size(set_partner(cs, comm.src), comm.size)
      BY <2>1
    <3>3. TookMessage(new, cs, comm.src, comm.size)
      BY <1>6, <3>1, <3>2, TakesMessage
    <3>4. QED
      BY <1>4, <2>1, <3>3 DEF TookMessage
  <2>2. CASE ~(known /\ ~raises)
    BY <1>4, <1>6, <2>2
  <2>3. QED
    BY <2>1, <2>2
<1>8. known => \/ comm_hashmap' = comm_hashmap
               \/ comm_hashmap' = [comm_hashmap EXCEPT ![t] = Del(@, ExitTime(k))]
  <2>1. [comm_hashmap EXCEPT ![t] = comm_hashmap[t]] = comm_hashmap
    BY DEF Types, PerTask
  <2>2. QED
    BY <1>4, <2>1
<1>9. objs' = [objs EXCEPT ![t] = [@ EXCEPT ![o] = new]]
  <2> HIDE DEF new, o
  <2>1. QED
    BY <1>4
<1>10. missing' = IF hwc THEN missing ELSE missing \cup {<<t, ExitTime(k)>>}
  BY <1>4 DEF Counted
<1>11. failed' = (known /\ ~CanTakeSize(cs))
  BY <1>4
<1> HIDE DEF new, acc, cs
<1>12. QED
  BY <1>1, <1>2, <1>3, <1>4, <1>5, <1>6, <1>7, <1>8, <1>9, <1>10, <1>11 DEF Updated

(* A communication record.                                                   *)
LEMMA CommMessage ==
  ASSUME Types, NEW src \in Task, NEW dst \in Task, NEW si \in Call, NEW di \in Call,
         Comm(src, si, dst, di)
  PROVE  \E c \in Message : /\ c.src = src /\ c.si = si /\ c.dst = dst /\ c.di = di
                            /\ c.size = Len(comms) + 1
                            /\ comms' = Append(comms, c)
<1> DEFINE c     == Communication(src, si, dst, di)
           sOpen == si \in DOMAIN mpi_init_hashmap[src]
           rOpen == di \in DOMAIN mpi_fini_hashmap[dst]
           read  == [c EXCEPT !.send_merged = sOpen, !.recv_merged = rOpen]
<1>1. comms \in Seq(Message) /\ Len(comms) + 1 \in Nat
  BY DEF Types
<1>2. c.src = src /\ c.si = si /\ c.dst = dst /\ c.di = di /\ c.size = Len(comms) + 1
  BY DEF Communication
<1>3. CommRecord(c)
  BY DEF Comm
<1> USE <1>2
<1> HIDE DEF c
<1>4. comms' = Append(comms, read)
  BY <1>3 DEF CommRecord
<1>5. /\ read \in Message /\ read.src = src /\ read.si = si /\ read.dst = dst /\ read.di = di
      /\ read.size = Len(comms) + 1
  <2>1. c \in Message
    BY <1>1 DEF Communication, Message, c
  <2>2. \E a, b \in BOOLEAN : read = [c EXCEPT !.send_merged = a, !.recv_merged = b]
    <3> DEFINE a == sOpen
               b == rOpen
    <3>1. a \in BOOLEAN /\ b \in BOOLEAN
      OBVIOUS
    <3>2. QED
      BY <3>1, Zenon
  <2> HIDE DEF read
  <2>3. QED
    BY <2>1, <2>2 DEF Message
<1> HIDE DEF read
<1>6. QED
  BY <1>4, <1>5

(* The callstacks of the two calls, where they are known, take the message,  *)
(* and no other does.                                                        *)
MessageIsTaken(src, dst, si, di) ==
  \A t \in Task : \A j \in 1..Len(objs[t]) :
    IF t = src /\ si \in DOMAIN mpi_init_hashmap[src] /\ j = mpi_init_hashmap[src][si]
    THEN TookMessage(objs'[t][j], objs[t][j], dst, Len(comms) + 1)
    ELSE IF t = dst /\ di \in DOMAIN mpi_fini_hashmap[dst] /\ j = mpi_fini_hashmap[dst][di]
    THEN TookMessage(objs'[t][j], objs[t][j], src, Len(comms) + 1)
    ELSE objs'[t][j] = objs[t][j]

LEMMA CommEffect ==
  ASSUME Types, NEW src \in Task, NEW dst \in Task, NEW si \in Call, NEW di \in Call,
         Comm(src, si, dst, di)
  PROVE  LET n     == Len(comms) + 1
             sOpen == si \in DOMAIN mpi_init_hashmap[src]
             so    == mpi_init_hashmap[src][si]
             rOpen == di \in DOMAIN mpi_fini_hashmap[dst]
             ro    == mpi_fini_hashmap[dst][di]
         IN /\ ~failed /\ ~finished /\ src # dst
            /\ ~Taken(src, si) /\ ~Taken(dst, di)
            /\ IF Split THEN AfterAllEvents(Communication(src, si, dst, di))
               ELSE InTimeOrder(Communication(src, si, dst, di))
            /\ failed' = (\/ sOpen /\ ~CanTakeSize(objs[src][so])
                          \/ rOpen /\ ~CanTakeSize(objs[dst][ro]))
            /\ objs' \in [Task -> Seq(Callstack)]
            /\ \A t \in Task : Len(objs'[t]) = Len(objs[t])
            /\ failed' => objs' = objs
            /\ ~failed' => MessageIsTaken(src, dst, si, di)
            /\ IF sOpen THEN Updated(mpi_init_hashmap', mpi_init_hashmap, src, Del(mpi_init_hashmap[src], si))
               ELSE UNCHANGED mpi_init_hashmap
            /\ IF rOpen THEN Updated(mpi_fini_hashmap', mpi_fini_hashmap, dst, Del(mpi_fini_hashmap[dst], di))
               ELSE UNCHANGED mpi_fini_hashmap
            /\ UNCHANGED <<calls, missing, mpi_opened, callstack_pool, mpi_acumm_cycles,
                           burst_last, finished>>
<1> DEFINE c     == Communication(src, si, dst, di)
           n     == Len(comms) + 1
           sOpen == si \in DOMAIN mpi_init_hashmap[src]
           so    == mpi_init_hashmap[src][si]
           rOpen == di \in DOMAIN mpi_fini_hashmap[dst]
           ro    == mpi_fini_hashmap[dst][di]
           raise == \/ sOpen /\ ~CanTakeSize(objs[src][so])
                    \/ rOpen /\ ~CanTakeSize(objs[dst][ro])
           took  == [t \in Task |-> [k \in DOMAIN objs[t] |->
                       CASE t = src /\ sOpen /\ k = so ->
                              set_partner(add_mpi_msg_size(objs[t][k], c.size), dst)
                         [] t = dst /\ rOpen /\ k = ro ->
                              set_partner(add_mpi_msg_size(objs[t][k], c.size), src)
                         [] OTHER -> objs[t][k]]]
<1>1. /\ failed \in BOOLEAN /\ comms \in Seq(Message) /\ objs \in [Task -> Seq(Callstack)]
      /\ n \in Nat
  BY DEF Types, TypeOK
<1>2. c.src = src /\ c.si = si /\ c.dst = dst /\ c.di = di /\ c.size = n
  BY DEF Communication
<1>3. /\ ~failed /\ ~finished /\ src # dst /\ ~Taken(src, si) /\ ~Taken(dst, di)
      /\ IF Split THEN AfterAllEvents(c) ELSE InTimeOrder(c)
      /\ CommRecord(c)
  BY DEF Comm, Reading
<1> USE <1>2
<1> HIDE DEF c
<1>4. /\ failed' = raise
      /\ objs' = IF raise THEN objs ELSE took
      /\ mpi_init_hashmap' = IF sOpen THEN [mpi_init_hashmap EXCEPT ![src] = Del(@, si)]
                             ELSE mpi_init_hashmap
      /\ mpi_fini_hashmap' = IF rOpen THEN [mpi_fini_hashmap EXCEPT ![dst] = Del(@, di)]
                             ELSE mpi_fini_hashmap
      /\ comm_hashmap' = [comm_hashmap EXCEPT
           ![src] = IF sOpen THEN @ ELSE Put(@, EntryTime(si), n),
           ![dst] = IF rOpen THEN @ ELSE Put(@, ExitTime(di), n)]
      /\ UNCHANGED <<calls, missing, mpi_opened, callstack_pool, mpi_acumm_cycles, burst_last,
                     finished>>
  BY <1>3 DEF CommRecord
<1>5. ASSUME NEW t \in Task, NEW j \in 1..Len(objs[t])
      PROVE  /\ took[t][j] \in Callstack
             /\ IF t = src /\ sOpen /\ j = so THEN TookMessage(took[t][j], objs[t][j], dst, n)
                ELSE IF t = dst /\ rOpen /\ j = ro THEN TookMessage(took[t][j], objs[t][j], src, n)
                ELSE took[t][j] = objs[t][j]
  <2>1. objs[t] \in Seq(Callstack) /\ objs[t][j] \in Callstack /\ j \in DOMAIN objs[t]
    BY <1>1
  <2>2. took[t][j] = CASE t = src /\ sOpen /\ j = so ->
                              set_partner(add_mpi_msg_size(objs[t][j], c.size), dst)
                       [] t = dst /\ rOpen /\ j = ro ->
                              set_partner(add_mpi_msg_size(objs[t][j], c.size), src)
                       [] OTHER -> objs[t][j]
    BY <2>1
  <2> HIDE DEF took, sOpen, rOpen, so, ro
  <2>3. /\ TookMessage(set_partner(add_mpi_msg_size(objs[t][j], c.size), dst), objs[t][j], dst, n)
        /\ TookMessage(set_partner(add_mpi_msg_size(objs[t][j], c.size), src), objs[t][j], src, n)
    BY <1>1, <2>1, TakesMessage
  <2>4. CASE t = src /\ sOpen /\ j = so
    BY <2>2, <2>3, <2>4 DEF TookMessage
  <2>5. CASE ~(t = src /\ sOpen /\ j = so) /\ t = dst /\ rOpen /\ j = ro
    BY <2>2, <2>3, <2>5 DEF TookMessage
  <2>6. CASE ~(t = src /\ sOpen /\ j = so) /\ ~(t = dst /\ rOpen /\ j = ro)
    BY <2>1, <2>2, <2>6
  <2>7. QED
    BY <2>4, <2>5, <2>6
<1>6. /\ took \in [Task -> Seq(Callstack)]
      /\ \A t \in Task : Len(took[t]) = Len(objs[t])
  <2>1. ASSUME NEW t \in Task
        PROVE  took[t] \in Seq(Callstack) /\ Len(took[t]) = Len(objs[t])
    <3>1. objs[t] \in Seq(Callstack) /\ DOMAIN objs[t] = 1..Len(objs[t]) /\ Len(objs[t]) \in Nat
      BY <1>1
    <3>2. took[t] = [k \in 1..Len(objs[t]) |-> took[t][k]]
      BY <3>1
    <3> HIDE DEF took
    <3>3. [k \in 1..Len(objs[t]) |-> took[t][k]] \in Seq(Callstack)
      BY <1>5, <3>1
    <3>4. QED
      BY <3>1, <3>2, <3>3
  <2>2. took = [t \in Task |-> took[t]]
    OBVIOUS
  <2> HIDE DEF took
  <2>3. QED
    BY <2>1, <2>2
<1> HIDE DEF took
<1>7. ~failed' => MessageIsTaken(src, dst, si, di)
  BY <1>4, <1>5 DEF MessageIsTaken
<1>8. QED
  BY <1>1, <1>3, <1>4, <1>6, <1>7 DEF c, Updated

LEMMA CommMapEffect ==
  ASSUME Types, NEW src \in Task, NEW dst \in Task, NEW si \in Call, NEW di \in Call,
         Comm(src, si, dst, di)
  PROVE  LET n     == Len(comms) + 1
             sOpen == si \in DOMAIN mpi_init_hashmap[src]
             rOpen == di \in DOMAIN mpi_fini_hashmap[dst]
         IN /\ PerTask(comm_hashmap')
            /\ \A t \in Task : comm_hashmap'[t] =
                 IF t = src /\ ~sOpen THEN Put(comm_hashmap[t], EntryTime(si), n)
                 ELSE IF t = dst /\ ~rOpen THEN Put(comm_hashmap[t], ExitTime(di), n)
                 ELSE comm_hashmap[t]
<1> DEFINE c     == Communication(src, si, dst, di)
           n     == Len(comms) + 1
           sOpen == si \in DOMAIN mpi_init_hashmap[src]
           rOpen == di \in DOMAIN mpi_fini_hashmap[dst]
<1>1. c.src = src /\ c.si = si /\ c.dst = dst /\ c.di = di
  BY DEF Communication
<1>2. src # dst /\ CommRecord(c)
  BY DEF Comm
<1> HIDE DEF c
<1>3. /\ PerTask(comm_hashmap')
      /\ \A t \in Task : comm_hashmap'[t] =
           IF t = src /\ ~sOpen THEN Put(comm_hashmap[t], EntryTime(si), n)
           ELSE IF t = dst /\ ~rOpen THEN Put(comm_hashmap[t], ExitTime(di), n)
           ELSE comm_hashmap[t]
  <2> HIDE DEF sOpen, rOpen, n
  <2>1. comm_hashmap' = [comm_hashmap EXCEPT
           ![src] = IF sOpen THEN @ ELSE Put(@, EntryTime(si), n),
           ![dst] = IF rOpen THEN @ ELSE Put(@, ExitTime(di), n)]
    BY <1>1, <1>2 DEF CommRecord, sOpen, rOpen, n
  <2> DEFINE atSrc == IF sOpen THEN comm_hashmap[src] ELSE Put(comm_hashmap[src], EntryTime(si), n)
             first == [comm_hashmap EXCEPT ![src] = atSrc]
             atDst == IF rOpen THEN first[dst] ELSE Put(first[dst], ExitTime(di), n)
  <2>2. PerTask(comm_hashmap)
    BY DEF Types
  <2>3. /\ PerTask(first)
        /\ first[src] = atSrc
        /\ \A u \in Task : u # src => first[u] = comm_hashmap[u]
    <3> HIDE DEF atSrc
    <3>1. QED
      BY <2>2, PerTaskExcept
  <2>4. comm_hashmap' = [first EXCEPT ![dst] = atDst]
    BY <1>2, <2>1
  <2>5. /\ PerTask(comm_hashmap')
        /\ comm_hashmap'[dst] = atDst
        /\ \A u \in Task : u # dst => comm_hashmap'[u] = first[u]
    <3> DEFINE both == [first EXCEPT ![dst] = atDst]
    <3>1. comm_hashmap' = both
      BY <2>4
    <3>2. /\ PerTask(both) /\ both[dst] = atDst
          /\ \A u \in Task : u # dst => both[u] = first[u]
      <4> HIDE DEF first, atDst
      <4>1. QED
        BY <2>3, PerTaskExcept
    <3> HIDE DEF both, first, atDst
    <3>3. QED
      BY <3>1, <3>2
  <2> HIDE DEF first
  <2>6. QED
    BY <1>2, <2>3, <2>5
<1>4. QED
  BY <1>3

(* The end of the trace: what the callstacks hold is reduced.                *)
LEMMA FinishEffect ==
  ASSUME Types, Finish
  PROVE  /\ ~failed /\ finished'
         /\ objs' \in [Task -> Seq(Callstack)]
         /\ \A t \in Task : /\ Len(objs'[t]) = Len(objs[t])
                            /\ \A j \in 1..Len(objs[t]) :
                                 /\ objs'[t][j].partner = objs[t][j].partner
                                 /\ (\E p \in DOMAIN callstack_pool[t] : callstack_pool[t][p] = j)
                                      => objs'[t][j] = Reduced(objs[t][j])
         /\ UNCHANGED <<calls, comms, missing, mpi_opened, callstack_pool, comm_hashmap,
                        mpi_init_hashmap, mpi_fini_hashmap, mpi_acumm_cycles, burst_last, failed>>
<1> DEFINE done == [t \in Task |-> [k \in DOMAIN objs[t] |->
                     IF \E p \in DOMAIN callstack_pool[t] : callstack_pool[t][p] = k
                     THEN Reduced(objs[t][k]) ELSE objs[t][k]]]
<1>1. ~failed /\ finished' /\ objs' = done
  BY DEF Finish, Reading
<1>2. ASSUME NEW t \in Task
      PROVE  /\ done[t] \in Seq(Callstack) /\ Len(done[t]) = Len(objs[t])
             /\ \A j \in 1..Len(objs[t]) :
                  /\ done[t][j].partner = objs[t][j].partner
                  /\ (\E p \in DOMAIN callstack_pool[t] : callstack_pool[t][p] = j)
                       => done[t][j] = Reduced(objs[t][j])
  <2>1. /\ objs[t] \in Seq(Callstack) /\ DOMAIN objs[t] = 1..Len(objs[t]) /\ Len(objs[t]) \in Nat
        /\ \A j \in 1..Len(objs[t]) : objs[t][j] \in Callstack
    BY DEF Types, TypeOK
  <2>2. done[t] = [k \in 1..Len(objs[t]) |-> done[t][k]]
    BY <2>1
  <2>3. \A j \in 1..Len(objs[t]) :
          /\ done[t][j] = Reduced(objs[t][j]) \/ done[t][j] = objs[t][j]
          /\ (\E p \in DOMAIN callstack_pool[t] : callstack_pool[t][p] = j)
               => done[t][j] = Reduced(objs[t][j])
    BY <2>1
  <2> HIDE DEF done
  <2>4. \A j \in 1..Len(objs[t]) : /\ done[t][j] \in Callstack
                                   /\ done[t][j].partner = objs[t][j].partner
    BY <2>1, <2>3, ReducedFacts
  <2> DEFINE d == done[t]
             n == Len(objs[t])
  <2>5. d = [k \in 1..n |-> d[k]] /\ n \in Nat /\ \A j \in 1..n : d[j] \in Callstack
    BY <2>1, <2>2, <2>4
  <2> HIDE DEF d, n
  <2>6. d \in Seq(Callstack) /\ Len(d) = n
    BY <2>5
  <2>7. QED
    BY <2>3, <2>4, <2>6 DEF d, n
<1>3. done = [t \in Task |-> done[t]]
  OBVIOUS
<1> HIDE DEF done
<1>4. QED
  BY <1>1, <1>2, <1>3 DEF Finish

(* The entry record of a call, when the burst before it has no counters.     *)
LEMMA EntryFails ==
  ASSUME Types, NEW t \in Task, NEW p \in Path, NEW hwc \in BOOLEAN, Entry(t, p, hwc),
         ~(burst_last[t] # 0 \/ ~failed')
  PROVE  /\ failed' = TRUE /\ ~failed /\ ~mpi_opened[t] /\ burst_last[t] = 0
         /\ \E acc : /\ acc \in [DOMAIN acc -> Nat]
                     /\ Updated(mpi_acumm_cycles', mpi_acumm_cycles, t, acc)
         /\ UNCHANGED <<calls, comms, missing, mpi_opened, objs, callstack_pool, comm_hashmap,
                        mpi_init_hashmap, mpi_fini_hashmap, burst_last, finished>>
<1> DEFINE begun == IF p \in DOMAIN mpi_acumm_cycles[t] THEN mpi_acumm_cycles[t]
                    ELSE Put(mpi_acumm_cycles[t], p, 0)
<1>1. ~failed /\ ~mpi_opened[t] /\ MpiEntry(t, p, hwc) /\ burst_last[t] = 0
  BY DEF Entry, Reading
<1>2. /\ failed' = TRUE
      /\ mpi_acumm_cycles' = [mpi_acumm_cycles EXCEPT ![t] = begun]
      /\ UNCHANGED <<calls, comms, missing, mpi_opened, objs, callstack_pool, comm_hashmap,
                     mpi_init_hashmap, mpi_fini_hashmap, burst_last, finished>>
  BY <1>1, Zenon DEF MpiEntry
<1>3. begun \in [DOMAIN begun -> Nat]
  <2>1. mpi_acumm_cycles[t] \in [DOMAIN mpi_acumm_cycles[t] -> Nat]
    BY DEF Types
  <2>2. QED
    BY <2>1, PutType
<1> HIDE DEF begun
<1>4. QED
  BY <1>1, <1>2, <1>3 DEF Updated

(* Only the record before the first call of a task starts it.                *)
LEMMA EntryStarts ==
  ASSUME NEW t, NEW p, NEW hwc, Entry(t, p, hwc)
  PROVE  started' = started
<1>1. MpiEntry(t, p, hwc)
  BY DEF Entry
<1>2. QED
  BY <1>1, Zenon DEF MpiEntry

LEMMA ExitStarts ==
  ASSUME NEW t, NEW hwc, Exit(t, hwc)
  PROVE  started' = started
<1>1. MpiExit(t, hwc)
  BY DEF Exit
<1>2. QED
  BY <1>1, Zenon DEF MpiExit

LEMMA CommStarts ==
  ASSUME NEW src, NEW si, NEW dst, NEW di, Comm(src, si, dst, di)
  PROVE  started' = started
<1>1. CommRecord(Communication(src, si, dst, di))
  BY Zenon DEF Comm
<1>2. QED
  BY <1>1, Zenon DEF CommRecord

LEMMA StartEffect ==
  ASSUME Types, NEW t \in Task, Start(t)
  PROVE  /\ ~failed /\ ~finished /\ calls[t] = <<>> /\ ~mpi_opened[t]
         /\ started' = started \cup {t}
         /\ Updated(burst_last', burst_last, t, CallWork(0))
         /\ LET acc == Accumulated(mpi_acumm_cycles[t], CallWork(0))
            IN /\ acc \in [DOMAIN acc -> Nat]
               /\ Updated(mpi_acumm_cycles', mpi_acumm_cycles, t, acc)
         /\ UNCHANGED <<calls, comms, missing, mpi_opened, objs, callstack_pool, comm_hashmap,
                        mpi_init_hashmap, mpi_fini_hashmap, failed, finished>>
<1> DEFINE acc == Accumulated(mpi_acumm_cycles[t], CallWork(0))
<1>1. /\ ~failed /\ ~finished /\ calls[t] = <<>> /\ started' = started \cup {t}
      /\ Counters(t, CallWork(0))
  BY DEF Start, Reading
<1>2. ~mpi_opened[t]
  <2>1. Len(<<>>) = 0
    OBVIOUS
  <2>2. QED
    BY <1>1, <2>1 DEF Types
<1>3. mpi_acumm_cycles \in [Task -> {mpi_acumm_cycles[u] : u \in Task}]
  BY DEF Types, PerTask
<1>4. acc \in [DOMAIN acc -> Nat]
  <2>1. CallWork(0) \in Nat
    BY DEF CallWork
  <2>2. QED
    BY <2>1, AccumulatedType DEF Types
<1>5. mpi_acumm_cycles' = [mpi_acumm_cycles EXCEPT ![t] = acc]
  BY <1>1, Zenon DEF Counters
<1> HIDE DEF acc
<1>6. QED
  BY <1>1, <1>2, <1>4, <1>5 DEF Counters, Updated, acc

LEMMA TypesInit ==
  ASSUME Init
  PROVE  Types
<1>1. TypeOK
  <2>1. /\ failed \in BOOLEAN /\ finished \in BOOLEAN /\ mpi_opened \in [Task -> BOOLEAN]
        /\ started \in SUBSET Task
        /\ calls \in [Task -> Seq(Path)] /\ objs \in [Task -> Seq(Callstack)]
    <3>1. <<>> \in Seq(Path) /\ <<>> \in Seq(Callstack)
      OBVIOUS
    <3>2. QED
      BY <3>1 DEF Init
  <2>2. ASSUME NEW t \in Task
        PROVE  /\ objs[t] = <<>> /\ calls[t] = <<>> /\ callstack_pool[t] = <<>>
               /\ comm_hashmap[t] = <<>> /\ mpi_init_hashmap[t] = <<>>
               /\ mpi_fini_hashmap[t] = <<>>
    BY DEF Init
  <2>3. DOMAIN <<>> = {} /\ \A S : <<>> \in [{} -> S]
    OBVIOUS
  <2>4. QED
    BY <2>1, <2>2, <2>3 DEF TypeOK
<1>2. comms \in Seq(Message) /\ burst_last \in [Task -> Nat]
  BY DEF Init, CallWork
<1>3. /\ PerTask(callstack_pool) /\ PerTask(comm_hashmap) /\ PerTask(mpi_init_hashmap)
      /\ PerTask(mpi_fini_hashmap) /\ PerTask(mpi_acumm_cycles)
  BY DEF Init, PerTask
<1>4. \A t \in Task : /\ mpi_acumm_cycles[t] \in [DOMAIN mpi_acumm_cycles[t] -> Nat]
                      /\ Len(calls[t]) <= MaxCalls
                      /\ mpi_opened[t] => Len(calls[t]) # 0
  BY BoundAssumption DEF Init
<1>5. QED
  BY <1>1, <1>2, <1>3, <1>4 DEF Types

LEMMA AccumulatedCycles ==
  ASSUME Types, NEW t \in Task, NEW acc, acc \in [DOMAIN acc -> Nat],
         Updated(mpi_acumm_cycles', mpi_acumm_cycles, t, acc)
  PROVE  /\ PerTask(mpi_acumm_cycles')
         /\ \A u \in Task : mpi_acumm_cycles'[u] \in [DOMAIN mpi_acumm_cycles'[u] -> Nat]
<1>1. PerTask(mpi_acumm_cycles)
  BY DEF Types
<1>2. /\ PerTask(mpi_acumm_cycles') /\ mpi_acumm_cycles'[t] = acc
      /\ \A u \in Task : u # t => mpi_acumm_cycles'[u] = mpi_acumm_cycles[u]
  BY <1>1, PerTaskUpdate
<1>3. QED
  BY <1>2 DEF Types

(* The types of what is kept of one task, where n communications were read.  *)
TaskTypes(path, opened, object, pool, comm, init, fini, cycles, burst, n) ==
  /\ path \in Seq(Path) /\ opened \in BOOLEAN /\ object \in Seq(Callstack) /\ burst \in Nat
  /\ Len(object) = Len(path) /\ Len(path) <= MaxCalls
  /\ opened => Len(path) # 0
  /\ pool \in [DOMAIN pool -> 1..Len(object)]
  /\ comm \in [DOMAIN comm -> 1..n] /\ DOMAIN comm \subseteq Time
  /\ init \in [DOMAIN init -> 1..Len(object)]
  /\ fini \in [DOMAIN fini -> 1..Len(object)]
  /\ cycles \in [DOMAIN cycles -> Nat]

AllPerTask ==
  /\ PerTask(calls) /\ PerTask(mpi_opened) /\ PerTask(objs) /\ PerTask(callstack_pool)
  /\ PerTask(comm_hashmap) /\ PerTask(mpi_init_hashmap) /\ PerTask(mpi_fini_hashmap)
  /\ PerTask(mpi_acumm_cycles) /\ PerTask(burst_last)

TypesOf(t) == TaskTypes(calls[t], mpi_opened[t], objs[t], callstack_pool[t], comm_hashmap[t],
                        mpi_init_hashmap[t], mpi_fini_hashmap[t], mpi_acumm_cycles[t],
                        burst_last[t], Len(comms))

LEMMA TypesByTask ==
  ASSUME Types
  PROVE  AllPerTask /\ \A t \in Task : TypesOf(t)
<1>1. AllPerTask
  BY DEF Types, TypeOK, AllPerTask, PerTask
<1>2. \A t \in Task : TypesOf(t)
  BY DEF Types, TypeOK, TypesOf, TaskTypes
<1>3. QED
  BY <1>1, <1>2

LEMMA TypesFromTasks ==
  ASSUME AllPerTask', \A t \in Task : TypesOf(t)',
         comms' \in Seq(Message), failed' \in BOOLEAN, finished' \in BOOLEAN,
         started' \in SUBSET Task
  PROVE  Types'
<1>1. /\ calls' \in [Task -> Seq(Path)] /\ mpi_opened' \in [Task -> BOOLEAN]
      /\ objs' \in [Task -> Seq(Callstack)] /\ burst_last' \in [Task -> Nat]
  <2>1. /\ \A t \in Task : calls'[t] \in Seq(Path) /\ mpi_opened'[t] \in BOOLEAN
        /\ \A t \in Task : objs'[t] \in Seq(Callstack) /\ burst_last'[t] \in Nat
    BY DEF TypesOf, TaskTypes
  <2>2. QED
    BY <2>1 DEF AllPerTask, PerTask
<1>2. TypeOK'
  BY <1>1 DEF TypesOf, TaskTypes, TypeOK
<1>3. \A t \in Task : /\ mpi_acumm_cycles'[t] \in [DOMAIN mpi_acumm_cycles'[t] -> Nat]
                      /\ Len(calls'[t]) <= MaxCalls
                      /\ mpi_opened'[t] => Len(calls'[t]) # 0
  BY DEF TypesOf, TaskTypes
<1>4. QED
  BY <1>1, <1>2, <1>3 DEF Types, AllPerTask

(* A record of a task changes nothing that is kept of the others.            *)
SameCalls(t) ==
  /\ calls'[t] = calls[t] /\ mpi_opened'[t] = mpi_opened[t] /\ objs'[t] = objs[t]
  /\ callstack_pool'[t] = callstack_pool[t] /\ comm_hashmap'[t] = comm_hashmap[t]
  /\ mpi_init_hashmap'[t] = mpi_init_hashmap[t] /\ mpi_fini_hashmap'[t] = mpi_fini_hashmap[t]

SameOf(t) == SameCalls(t) /\ burst_last'[t] = burst_last[t]

LEMMA TypesOfOthers ==
  ASSUME NEW t \in Task, TypesOf(t), SameOf(t), UNCHANGED comms,
         mpi_acumm_cycles'[t] \in [DOMAIN mpi_acumm_cycles'[t] -> Nat]
  PROVE  TypesOf(t)'
BY DEF TypesOf, TaskTypes, SameOf, SameCalls

LEMMA TypesEntryFails ==
  ASSUME Types, NEW t \in Task, NEW p \in Path, NEW hwc \in BOOLEAN, Entry(t, p, hwc),
         ~(burst_last[t] # 0 \/ ~failed')
  PROVE  Types'
<1>1. /\ failed' = TRUE
      /\ UNCHANGED <<calls, comms, missing, mpi_opened, objs, callstack_pool, comm_hashmap,
                     mpi_init_hashmap, mpi_fini_hashmap, burst_last, finished>>
  BY EntryFails
<1>2. PICK acc : /\ acc \in [DOMAIN acc -> Nat]
                 /\ Updated(mpi_acumm_cycles', mpi_acumm_cycles, t, acc)
  BY EntryFails
<1>3. /\ PerTask(mpi_acumm_cycles')
      /\ \A u \in Task : mpi_acumm_cycles'[u] \in [DOMAIN mpi_acumm_cycles'[u] -> Nat]
  BY <1>2, AccumulatedCycles
<1>4. AllPerTask /\ \A u \in Task : TypesOf(u)
  BY TypesByTask
<1>5. AllPerTask'
  BY <1>1, <1>3, <1>4 DEF AllPerTask, PerTask
<1>6. \A u \in Task : TypesOf(u)'
  BY <1>1, <1>3, <1>4, TypesOfOthers DEF SameOf, SameCalls
<1>7. comms' \in Seq(Message) /\ failed' \in BOOLEAN /\ finished' \in BOOLEAN
  BY <1>1 DEF Types, TypeOK
<1>8. QED
  BY <1>5, <1>6, <1>7, EntryStarts, TypesFromTasks DEF Types, TypeOK

(* The entry record of a call, task by task.                                 *)
LEMMA EntryOfTask ==
  ASSUME Types, NEW t \in Task, NEW p \in Path, NEW hwc \in BOOLEAN, Entry(t, p, hwc),
         burst_last[t] # 0 \/ ~failed'
  PROVE  LET k     == Len(calls[t]) + 1
             known == EntryTime(k) \in DOMAIN comm_hashmap[t]
             m     == comm_hashmap[t][EntryTime(k)]
         IN /\ ~failed /\ ~finished /\ ~mpi_opened[t] /\ k \in Call
            /\ AllPerTask'
            /\ \A u \in Task : u # t => SameOf(u)
            /\ calls'[t] = Append(calls[t], p)
            /\ mpi_opened'[t] = TRUE
            /\ comm_hashmap'[t] = comm_hashmap[t] \/ /\ known
                                                     /\ comm_hashmap'[t] = Del(comm_hashmap[t], EntryTime(k))
            /\ mpi_init_hashmap'[t] = IF known THEN mpi_init_hashmap[t]
                                      ELSE Put(mpi_init_hashmap[t], k, k)
            /\ \E cs \in Callstack :
                 /\ objs'[t] = Append(objs[t], cs)
                 /\ Len(cs.instants) = 1 /\ cs.sizes = <<>> /\ cs.already_with_size = 1
                 /\ cs.partner = IF known THEN {comms[m].dst} ELSE {}
                 /\ cs.size = IF known THEN comms[m].size ELSE 0
            /\ \A u \in Task : mpi_acumm_cycles'[u] \in [DOMAIN mpi_acumm_cycles'[u] -> Nat]
            /\ missing \subseteq missing'
            /\ UNCHANGED <<comms, callstack_pool, mpi_fini_hashmap, burst_last, failed, finished>>
<1> DEFINE k     == Len(calls[t]) + 1
           known == EntryTime(k) \in DOMAIN comm_hashmap[t]
           m     == comm_hashmap[t][EntryTime(k)]
<1>1. /\ ~failed /\ ~finished /\ ~mpi_opened[t] /\ k \in Call
      /\ Updated(calls', calls, t, Append(calls[t], p))
      /\ Updated(mpi_opened', mpi_opened, t, TRUE)
      /\ IF known
         THEN /\ \/ comm_hashmap' = comm_hashmap
                 \/ Updated(comm_hashmap', comm_hashmap, t, Del(comm_hashmap[t], EntryTime(k)))
              /\ UNCHANGED mpi_init_hashmap
         ELSE /\ Updated(mpi_init_hashmap', mpi_init_hashmap, t, Put(mpi_init_hashmap[t], k, k))
              /\ UNCHANGED comm_hashmap
      /\ missing \subseteq missing'
      /\ UNCHANGED <<comms, callstack_pool, mpi_fini_hashmap, burst_last, failed, finished>>
  BY EntryEffect, ZenonT(60)
<1>2. PICK cs \in Callstack : /\ Updated(objs', objs, t, Append(objs[t], cs))
                              /\ Len(cs.instants) = 1 /\ cs.sizes = <<>>
                              /\ cs.already_with_size = 1
                              /\ cs.partner = IF known THEN {comms[m].dst} ELSE {}
                              /\ cs.size = IF known THEN comms[m].size ELSE 0
  BY EntryEffect
<1>3. PICK acc : /\ acc \in [DOMAIN acc -> Nat]
                 /\ Updated(mpi_acumm_cycles', mpi_acumm_cycles, t, acc)
  BY EntryEffect
<1>4. AllPerTask
  BY TypesByTask
<1>5. /\ PerTask(mpi_acumm_cycles')
      /\ \A u \in Task : mpi_acumm_cycles'[u] \in [DOMAIN mpi_acumm_cycles'[u] -> Nat]
  BY <1>3, AccumulatedCycles
<1>6. PerTask(calls') /\ calls'[t] = Append(calls[t], p) /\ \A u \in Task : u # t => calls'[u] = calls[u]
  <2> DEFINE v == Append(calls[t], p)
  <2>1. Updated(calls', calls, t, v) /\ PerTask(calls)
    BY <1>1, <1>4 DEF AllPerTask
  <2> HIDE DEF v
  <2>2. PerTask(calls') /\ calls'[t] = v /\ \A u \in Task : u # t => calls'[u] = calls[u]
    BY <2>1, PerTaskUpdate
  <2>3. QED
    BY <2>2 DEF v
<1>7. PerTask(mpi_opened') /\ mpi_opened'[t] = TRUE /\ \A u \in Task : u # t => mpi_opened'[u] = mpi_opened[u]
  <2> DEFINE v == TRUE
  <2>1. Updated(mpi_opened', mpi_opened, t, v) /\ PerTask(mpi_opened)
    BY <1>1, <1>4 DEF AllPerTask
  <2> HIDE DEF v
  <2>2. PerTask(mpi_opened') /\ mpi_opened'[t] = v /\ \A u \in Task : u # t => mpi_opened'[u] = mpi_opened[u]
    BY <2>1, PerTaskUpdate
  <2>3. QED
    BY <2>2 DEF v
<1>8. PerTask(objs') /\ objs'[t] = Append(objs[t], cs) /\ \A u \in Task : u # t => objs'[u] = objs[u]
  <2> DEFINE v == Append(objs[t], cs)
  <2>1. Updated(objs', objs, t, v) /\ PerTask(objs)
    BY <1>2, <1>4 DEF AllPerTask
  <2> HIDE DEF v
  <2>2. PerTask(objs') /\ objs'[t] = v /\ \A u \in Task : u # t => objs'[u] = objs[u]
    BY <2>1, PerTaskUpdate
  <2>3. QED
    BY <2>2 DEF v
<1>9. /\ PerTask(comm_hashmap') /\ \A u \in Task : u # t => comm_hashmap'[u] = comm_hashmap[u]
      /\ comm_hashmap'[t] = comm_hashmap[t] \/ /\ known
                                               /\ comm_hashmap'[t] = Del(comm_hashmap[t], EntryTime(k))
  <2>1. CASE comm_hashmap' = comm_hashmap
    BY <1>4, <2>1 DEF AllPerTask, PerTask
  <2>2. CASE known /\ Updated(comm_hashmap', comm_hashmap, t, Del(comm_hashmap[t], EntryTime(k)))
    <3> HIDE DEF known, k
    <3>1. QED
      BY <1>4, <2>2, PerTaskUpdate DEF AllPerTask
  <2>3. QED
    BY <1>1, <2>1, <2>2
<1>10. /\ PerTask(mpi_init_hashmap')
       /\ \A u \in Task : u # t => mpi_init_hashmap'[u] = mpi_init_hashmap[u]
       /\ mpi_init_hashmap'[t] = IF known THEN mpi_init_hashmap[t]
                                 ELSE Put(mpi_init_hashmap[t], k, k)
  <2> HIDE DEF known, k
  <2>1. CASE known
    BY <1>1, <1>4, <2>1 DEF AllPerTask, PerTask
  <2>2. CASE ~known
    BY <1>1, <1>4, <2>2, PerTaskUpdate DEF AllPerTask
  <2>3. QED
    BY <2>1, <2>2
<1>11. AllPerTask'
  <2>1. PerTask(callstack_pool') /\ PerTask(mpi_fini_hashmap') /\ PerTask(burst_last')
    BY <1>1, <1>4 DEF AllPerTask, PerTask
  <2>2. QED
    BY <1>5, <1>6, <1>7, <1>8, <1>9, <1>10, <2>1 DEF AllPerTask
<1>12. \A u \in Task : u # t => SameOf(u)
  BY <1>1, <1>6, <1>7, <1>8, <1>9, <1>10 DEF SameOf, SameCalls
<1> HIDE DEF known, k, m
<1>13. QED
  BY <1>1, <1>2, <1>5, <1>6, <1>7, <1>8, <1>9, <1>10, <1>11, <1>12 DEF known, k, m

LEMMA TypesEntry ==
  ASSUME Types, NEW t \in Task, NEW p \in Path, NEW hwc \in BOOLEAN, Entry(t, p, hwc)
  PROVE  Types'
<1>1. CASE ~(burst_last[t] # 0 \/ ~failed')
  BY <1>1, TypesEntryFails
<1>2. CASE burst_last[t] # 0 \/ ~failed'
  <2> DEFINE k     == Len(calls[t]) + 1
             known == EntryTime(k) \in DOMAIN comm_hashmap[t]
             m     == comm_hashmap[t][EntryTime(k)]
  <2>1. /\ AllPerTask' /\ k \in Call
        /\ \A u \in Task : u # t => SameOf(u)
        /\ calls'[t] = Append(calls[t], p)
        /\ mpi_opened'[t] = TRUE
        /\ comm_hashmap'[t] = comm_hashmap[t] \/ /\ known
                                                 /\ comm_hashmap'[t] = Del(comm_hashmap[t], EntryTime(k))
        /\ mpi_init_hashmap'[t] = IF known THEN mpi_init_hashmap[t]
                                  ELSE Put(mpi_init_hashmap[t], k, k)
        /\ \A u \in Task : mpi_acumm_cycles'[u] \in [DOMAIN mpi_acumm_cycles'[u] -> Nat]
        /\ UNCHANGED <<comms, callstack_pool, mpi_fini_hashmap, burst_last, failed, finished>>
    BY <1>2, EntryOfTask, ZenonT(120)
  <2>2. PICK cs \in Callstack : objs'[t] = Append(objs[t], cs)
    BY <1>2, EntryOfTask, ZenonT(60)
  <2>3. \A u \in Task : TypesOf(u)
    BY TypesByTask
  <2>4. ASSUME NEW u \in Task, u # t
        PROVE  TypesOf(u)'
    BY <2>1, <2>3, <2>4, TypesOfOthers
  <2>5. TypesOf(t)'
    <3> DEFINE n == Len(calls[t])
    <3>1. /\ calls[t] \in Seq(Path) /\ objs[t] \in Seq(Callstack) /\ burst_last[t] \in Nat
          /\ Len(objs[t]) = n /\ n \in Nat /\ k = n + 1
          /\ callstack_pool[t] \in [DOMAIN callstack_pool[t] -> 1..n]
          /\ comm_hashmap[t] \in [DOMAIN comm_hashmap[t] -> 1..Len(comms)]
          /\ DOMAIN comm_hashmap[t] \subseteq Time
          /\ mpi_init_hashmap[t] \in [DOMAIN mpi_init_hashmap[t] -> 1..n]
          /\ mpi_fini_hashmap[t] \in [DOMAIN mpi_fini_hashmap[t] -> 1..n]
      BY <2>3 DEF TypesOf, TaskTypes
    <3>2. /\ calls'[t] \in Seq(Path) /\ Len(calls'[t]) = n + 1
          /\ objs'[t] \in Seq(Callstack) /\ Len(objs'[t]) = n + 1
      BY <2>1, <2>2, <3>1
    <3>3. n + 1 <= MaxCalls /\ n + 1 # 0 /\ n + 1 \in 1..(n + 1)
      BY <2>1, <3>1 DEF Call
    <3> HIDE DEF n, k, known, m
    <3>4. /\ comm_hashmap'[t] \in [DOMAIN comm_hashmap'[t] -> 1..Len(comms)]
          /\ DOMAIN comm_hashmap'[t] \subseteq Time
      <4> DEFINE d == Del(comm_hashmap[t], EntryTime(k))
      <4>1. d \in [DOMAIN d -> 1..Len(comms)] /\ DOMAIN d \subseteq Time
        <5>1. comm_hashmap[t] \in [DOMAIN comm_hashmap[t] -> 1..Len(comms)]
          BY <3>1
        <5>2. d \in [DOMAIN d -> 1..Len(comms)]
          BY <5>1 DEF Del
        <5>3. DOMAIN d \subseteq DOMAIN comm_hashmap[t]
          BY DEF Del
        <5>4. QED
          BY <3>1, <5>2, <5>3
      <4> HIDE DEF d
      <4>2. comm_hashmap'[t] = comm_hashmap[t] \/ comm_hashmap'[t] = d
        BY <2>1 DEF d
      <4>3. QED
        BY <3>1, <4>1, <4>2
    <3>5. \A S : mpi_init_hashmap[t] \in [DOMAIN mpi_init_hashmap[t] -> S] /\ k \in S =>
                   mpi_init_hashmap'[t] \in [DOMAIN mpi_init_hashmap'[t] -> S]
      BY <2>1, PutType
    <3>6. /\ callstack_pool[t] \in [DOMAIN callstack_pool[t] -> 1..(n + 1)]
          /\ mpi_init_hashmap[t] \in [DOMAIN mpi_init_hashmap[t] -> 1..(n + 1)]
          /\ mpi_fini_hashmap[t] \in [DOMAIN mpi_fini_hashmap[t] -> 1..(n + 1)]
      BY <3>1
    <3>7. mpi_init_hashmap'[t] \in [DOMAIN mpi_init_hashmap'[t] -> 1..(n + 1)]
      BY <3>1, <3>3, <3>5, <3>6
    <3>8. TaskTypes(calls'[t], mpi_opened'[t], objs'[t], callstack_pool'[t], comm_hashmap'[t],
                    mpi_init_hashmap'[t], mpi_fini_hashmap'[t], mpi_acumm_cycles'[t],
                    burst_last'[t], Len(comms'))
      BY <2>1, <3>1, <3>2, <3>3, <3>4, <3>6, <3>7 DEF TaskTypes
    <3>9. QED
      BY <3>8 DEF TypesOf
  <2>6. comms' \in Seq(Message) /\ failed' \in BOOLEAN /\ finished' \in BOOLEAN
    BY <2>1 DEF Types, TypeOK
  <2>7. started' \in SUBSET Task
    BY EntryStarts DEF Types, TypeOK
  <2>8. QED
    BY <2>1, <2>4, <2>5, <2>6, <2>7, TypesFromTasks
<1>3. QED
  BY <1>1, <1>2

(* The exit record of a call, task by task.                                  *)
LEMMA ExitOfTask ==
  ASSUME Types, NEW t \in Task, NEW hwc \in BOOLEAN, Exit(t, hwc)
  PROVE  LET k     == Len(calls[t])
             p     == calls[t][k]
             o     == IF p \in DOMAIN callstack_pool[t] THEN callstack_pool[t][p] ELSE k
             known == ExitTime(k) \in DOMAIN comm_hashmap[t]
             m     == comm_hashmap[t][ExitTime(k)]
         IN /\ ~failed /\ ~finished /\ mpi_opened[t] /\ k \in Call
            /\ p \in Path /\ o \in 1..Len(objs[t])
            /\ AllPerTask'
            /\ \A u \in Task : u # t => SameOf(u)
            /\ callstack_pool'[t] = Put(callstack_pool[t], p, o)
            /\ mpi_opened'[t] = FALSE
            /\ mpi_init_hashmap'[t] = IF k \in DOMAIN mpi_init_hashmap[t]
                                      THEN Put(mpi_init_hashmap[t], k, o) ELSE mpi_init_hashmap[t]
            /\ comm_hashmap'[t] = comm_hashmap[t] \/ /\ known
                                                     /\ comm_hashmap'[t] = Del(comm_hashmap[t], ExitTime(k))
            /\ mpi_fini_hashmap'[t] = IF known THEN mpi_fini_hashmap[t]
                                      ELSE Put(mpi_fini_hashmap[t], k, o)
            /\ \E cs, new \in Callstack :
                 /\ IF p \in DOMAIN callstack_pool[t] THEN Merged(cs, objs[t][o], objs[t][k])
                    ELSE cs = objs[t][k]
                 /\ failed' = (known /\ ~CanTakeSize(cs))
                 /\ IF known /\ ~failed' THEN TookMessage(new, cs, comms[m].src, comms[m].size) ELSE new = cs
                 /\ objs'[t] = [objs[t] EXCEPT ![o] = new]
            /\ \A u \in Task : mpi_acumm_cycles'[u] \in [DOMAIN mpi_acumm_cycles'[u] -> Nat]
            /\ burst_last'[t] = IF hwc THEN CallWork(k) ELSE 0
            /\ missing' = IF hwc THEN missing ELSE missing \cup {<<t, ExitTime(k)>>}
            /\ UNCHANGED <<calls, comms, finished>>
<1> DEFINE k     == Len(calls[t])
           p     == calls[t][k]
           o     == IF p \in DOMAIN callstack_pool[t] THEN callstack_pool[t][p] ELSE k
           known == ExitTime(k) \in DOMAIN comm_hashmap[t]
           m     == comm_hashmap[t][ExitTime(k)]
           init  == IF k \in DOMAIN mpi_init_hashmap[t]
                    THEN Put(mpi_init_hashmap[t], k, o) ELSE mpi_init_hashmap[t]
           pool  == Put(callstack_pool[t], p, o)
           begun == IF hwc THEN CallWork(k) ELSE 0
           shut  == FALSE
<1>1. /\ ~failed /\ ~finished /\ mpi_opened[t] /\ k \in Call
      /\ p \in Path /\ o \in 1..Len(objs[t])
      /\ Updated(callstack_pool', callstack_pool, t, pool)
      /\ Updated(mpi_opened', mpi_opened, t, shut)
      /\ Updated(mpi_init_hashmap', mpi_init_hashmap, t, init)
      /\ IF known
         THEN /\ \/ comm_hashmap' = comm_hashmap
                 \/ Updated(comm_hashmap', comm_hashmap, t, Del(comm_hashmap[t], ExitTime(k)))
              /\ UNCHANGED mpi_fini_hashmap
         ELSE /\ Updated(mpi_fini_hashmap', mpi_fini_hashmap, t, Put(mpi_fini_hashmap[t], k, o))
              /\ UNCHANGED comm_hashmap
      /\ Updated(burst_last', burst_last, t, begun)
      /\ missing' = IF hwc THEN missing ELSE missing \cup {<<t, ExitTime(k)>>}
      /\ UNCHANGED <<calls, comms, finished>>
  BY ExitEffect
<1>2. PICK cs \in Callstack, new \in Callstack :
        /\ IF p \in DOMAIN callstack_pool[t] THEN Merged(cs, objs[t][o], objs[t][k])
           ELSE cs = objs[t][k]
        /\ failed' = (known /\ ~CanTakeSize(cs))
        /\ IF known /\ ~failed' THEN TookMessage(new, cs, comms[m].src, comms[m].size) ELSE new = cs
        /\ Updated(objs', objs, t, [objs[t] EXCEPT ![o] = new])
  BY ExitEffect
<1>3. PICK acc : /\ acc \in [DOMAIN acc -> Nat]
                 /\ Updated(mpi_acumm_cycles', mpi_acumm_cycles, t, acc)
  BY ExitEffect
<1>4. AllPerTask
  BY TypesByTask
<1>5. /\ PerTask(mpi_acumm_cycles')
      /\ \A u \in Task : mpi_acumm_cycles'[u] \in [DOMAIN mpi_acumm_cycles'[u] -> Nat]
  BY <1>3, AccumulatedCycles
<1> DEFINE object == [objs[t] EXCEPT ![o] = new]
<1>6. Updated(objs', objs, t, object)
  BY <1>2
<1> HIDE DEF object, init, pool, begun, shut, o, known, p, k
<1>7. /\ PerTask(callstack_pool') /\ callstack_pool'[t] = pool
      /\ \A u \in Task : u # t => callstack_pool'[u] = callstack_pool[u]
  BY <1>1, <1>4, PerTaskUpdate DEF AllPerTask
<1>8. PerTask(mpi_opened') /\ mpi_opened'[t] = shut /\ \A u \in Task : u # t => mpi_opened'[u] = mpi_opened[u]
  BY <1>1, <1>4, PerTaskUpdate DEF AllPerTask
<1>9. PerTask(objs') /\ objs'[t] = object /\ \A u \in Task : u # t => objs'[u] = objs[u]
  BY <1>4, <1>6, PerTaskUpdate DEF AllPerTask
<1>10. /\ PerTask(mpi_init_hashmap') /\ mpi_init_hashmap'[t] = init
       /\ \A u \in Task : u # t => mpi_init_hashmap'[u] = mpi_init_hashmap[u]
  BY <1>1, <1>4, PerTaskUpdate DEF AllPerTask
<1>11. /\ PerTask(burst_last') /\ burst_last'[t] = begun
       /\ \A u \in Task : u # t => burst_last'[u] = burst_last[u]
  BY <1>1, <1>4, PerTaskUpdate DEF AllPerTask
<1>12. /\ PerTask(comm_hashmap') /\ \A u \in Task : u # t => comm_hashmap'[u] = comm_hashmap[u]
       /\ comm_hashmap'[t] = comm_hashmap[t] \/ /\ known
                                                /\ comm_hashmap'[t] = Del(comm_hashmap[t], ExitTime(k))
  <2>1. CASE comm_hashmap' = comm_hashmap
    BY <1>4, <2>1 DEF AllPerTask, PerTask
  <2>2. CASE known /\ Updated(comm_hashmap', comm_hashmap, t, Del(comm_hashmap[t], ExitTime(k)))
    BY <1>4, <2>2, PerTaskUpdate DEF AllPerTask
  <2>3. QED
    BY <1>1, <2>1, <2>2
<1>13. /\ PerTask(mpi_fini_hashmap')
       /\ \A u \in Task : u # t => mpi_fini_hashmap'[u] = mpi_fini_hashmap[u]
       /\ mpi_fini_hashmap'[t] = IF known THEN mpi_fini_hashmap[t]
                                 ELSE Put(mpi_fini_hashmap[t], k, o)
  <2>1. CASE known
    BY <1>1, <1>4, <2>1 DEF AllPerTask, PerTask
  <2>2. CASE ~known
    BY <1>1, <1>4, <2>2, PerTaskUpdate DEF AllPerTask
  <2>3. QED
    BY <2>1, <2>2
<1>14. AllPerTask'
  <2>1. PerTask(calls')
    BY <1>1, <1>4 DEF AllPerTask, PerTask
  <2>2. QED
    BY <1>5, <1>7, <1>8, <1>9, <1>10, <1>11, <1>12, <1>13, <2>1 DEF AllPerTask
<1>15. \A u \in Task : u # t => SameOf(u)
  BY <1>1, <1>7, <1>8, <1>9, <1>10, <1>11, <1>12, <1>13 DEF SameOf, SameCalls
<1>16. QED
  BY <1>1, <1>2, <1>5, <1>7, <1>8, <1>9, <1>10, <1>11, <1>12, <1>13, <1>14, <1>15, ZenonT(60)
     DEF object, init, pool, begun, shut, o, known, p, k

LEMMA TypesExit ==
  ASSUME Types, NEW t \in Task, NEW hwc \in BOOLEAN, Exit(t, hwc)
  PROVE  Types'
<1> DEFINE k     == Len(calls[t])
           p     == calls[t][k]
           o     == IF p \in DOMAIN callstack_pool[t] THEN callstack_pool[t][p] ELSE k
           known == ExitTime(k) \in DOMAIN comm_hashmap[t]
           pool  == Put(callstack_pool[t], p, o)
           init  == Put(mpi_init_hashmap[t], k, o)
           fini  == Put(mpi_fini_hashmap[t], k, o)
           comm  == Del(comm_hashmap[t], ExitTime(k))
<1>1. /\ AllPerTask' /\ k \in Call /\ o \in 1..Len(objs[t])
      /\ \A u \in Task : u # t => SameOf(u)
      /\ callstack_pool'[t] = pool
      /\ mpi_opened'[t] = FALSE
      /\ mpi_init_hashmap'[t] = init \/ mpi_init_hashmap'[t] = mpi_init_hashmap[t]
      /\ comm_hashmap'[t] = comm_hashmap[t] \/ comm_hashmap'[t] = comm
      /\ mpi_fini_hashmap'[t] = mpi_fini_hashmap[t] \/ mpi_fini_hashmap'[t] = fini
      /\ \A u \in Task : mpi_acumm_cycles'[u] \in [DOMAIN mpi_acumm_cycles'[u] -> Nat]
      /\ burst_last'[t] = IF hwc THEN CallWork(k) ELSE 0
      /\ UNCHANGED <<calls, comms, finished>>
  BY ExitOfTask
<1>2. PICK cs \in Callstack, new \in Callstack :
        /\ IF p \in DOMAIN callstack_pool[t] THEN Merged(cs, objs[t][o], objs[t][k])
           ELSE cs = objs[t][k]
        /\ failed' = (known /\ ~CanTakeSize(cs))
        /\ IF known /\ ~failed' THEN TookMessage(new, cs, comms[comm_hashmap[t][ExitTime(k)]].src,
                                                 comms[comm_hashmap[t][ExitTime(k)]].size)
           ELSE new = cs
        /\ objs'[t] = [objs[t] EXCEPT ![o] = new]
  BY ExitOfTask
<1>3. \A u \in Task : TypesOf(u)
  BY TypesByTask
<1>4. ASSUME NEW u \in Task, u # t
      PROVE  TypesOf(u)'
  BY <1>1, <1>3, <1>4, TypesOfOthers
<1>5. TypesOf(t)'
  <2> DEFINE n == Len(objs[t])
  <2>1. /\ calls[t] \in Seq(Path) /\ objs[t] \in Seq(Callstack)
        /\ n = Len(calls[t]) /\ n \in Nat /\ n <= MaxCalls
        /\ callstack_pool[t] \in [DOMAIN callstack_pool[t] -> 1..n]
        /\ comm_hashmap[t] \in [DOMAIN comm_hashmap[t] -> 1..Len(comms)]
        /\ DOMAIN comm_hashmap[t] \subseteq Time
        /\ mpi_init_hashmap[t] \in [DOMAIN mpi_init_hashmap[t] -> 1..n]
        /\ mpi_fini_hashmap[t] \in [DOMAIN mpi_fini_hashmap[t] -> 1..n]
    BY <1>3 DEF TypesOf, TaskTypes
  <2>2. objs'[t] \in Seq(Callstack) /\ Len(objs'[t]) = n
    <3> HIDE DEF o
    <3>1. QED
      BY <1>1, <1>2, <2>1, ExceptSeq
  <2>3. k \in Nat /\ CallWork(k) \in Nat /\ burst_last'[t] \in Nat
    BY <1>1 DEF Call, CallWork
  <2> HIDE DEF n, k, o, p
  <2>4. o \in 1..n
    BY <1>1 DEF n
  <2>5. pool \in [DOMAIN pool -> 1..n]
    BY <2>1, <2>4 DEF Put
  <2>6. init \in [DOMAIN init -> 1..n]
    BY <2>1, <2>4 DEF Put
  <2>7. fini \in [DOMAIN fini -> 1..n]
    BY <2>1, <2>4 DEF Put
  <2>8. comm \in [DOMAIN comm -> 1..Len(comms)] /\ DOMAIN comm \subseteq Time
    BY <2>1 DEF Del
  <2> HIDE DEF pool, init, fini, comm
  <2>9. TaskTypes(calls'[t], mpi_opened'[t], objs'[t], callstack_pool'[t], comm_hashmap'[t],
                  mpi_init_hashmap'[t], mpi_fini_hashmap'[t], mpi_acumm_cycles'[t],
                  burst_last'[t], Len(comms'))
    <3>1. /\ mpi_init_hashmap'[t] \in [DOMAIN mpi_init_hashmap'[t] -> 1..n]
          /\ mpi_fini_hashmap'[t] \in [DOMAIN mpi_fini_hashmap'[t] -> 1..n]
          /\ callstack_pool'[t] \in [DOMAIN callstack_pool'[t] -> 1..n]
      BY <1>1, <2>1, <2>5, <2>6, <2>7
    <3>2. /\ comm_hashmap'[t] \in [DOMAIN comm_hashmap'[t] -> 1..Len(comms)]
          /\ DOMAIN comm_hashmap'[t] \subseteq Time
      BY <1>1, <2>1, <2>8
    <3>3. QED
      BY <1>1, <2>1, <2>2, <2>3, <3>1, <3>2 DEF TaskTypes
  <2>10. QED
    BY <2>9 DEF TypesOf
<1>6. comms' \in Seq(Message) /\ failed' \in BOOLEAN /\ finished' \in BOOLEAN
  BY <1>1, <1>2 DEF Types, TypeOK
<1>7. started' \in SUBSET Task
  BY ExitStarts DEF Types, TypeOK
<1>8. QED
  BY <1>1, <1>4, <1>5, <1>6, <1>7, TypesFromTasks

(* A communication record, task by task.                                     *)
LEMMA CommOfTasks ==
  ASSUME Types, NEW src \in Task, NEW dst \in Task, NEW si \in Call, NEW di \in Call,
         Comm(src, si, dst, di)
  PROVE  LET sOpen == si \in DOMAIN mpi_init_hashmap[src]
             rOpen == di \in DOMAIN mpi_fini_hashmap[dst]
         IN /\ PerTask(mpi_init_hashmap') /\ PerTask(mpi_fini_hashmap')
            /\ \A t \in Task :
                 /\ mpi_init_hashmap'[t] = IF t = src /\ sOpen THEN Del(mpi_init_hashmap[t], si)
                                           ELSE mpi_init_hashmap[t]
                 /\ mpi_fini_hashmap'[t] = IF t = dst /\ rOpen THEN Del(mpi_fini_hashmap[t], di)
                                           ELSE mpi_fini_hashmap[t]
<1> DEFINE sOpen == si \in DOMAIN mpi_init_hashmap[src]
           rOpen == di \in DOMAIN mpi_fini_hashmap[dst]
<1>1. PerTask(mpi_init_hashmap) /\ PerTask(mpi_fini_hashmap)
  BY DEF Types
<1>2. /\ IF sOpen THEN Updated(mpi_init_hashmap', mpi_init_hashmap, src, Del(mpi_init_hashmap[src], si))
         ELSE UNCHANGED mpi_init_hashmap
      /\ IF rOpen THEN Updated(mpi_fini_hashmap', mpi_fini_hashmap, dst, Del(mpi_fini_hashmap[dst], di))
         ELSE UNCHANGED mpi_fini_hashmap
  BY CommEffect
<1> HIDE DEF sOpen, rOpen
<1>3. /\ PerTask(mpi_init_hashmap')
      /\ \A t \in Task :
           mpi_init_hashmap'[t] = IF t = src /\ sOpen THEN Del(mpi_init_hashmap[t], si)
                                  ELSE mpi_init_hashmap[t]
  <2>1. CASE sOpen
    BY <1>1, <1>2, <2>1, PerTaskUpdate
  <2>2. CASE ~sOpen
    BY <1>1, <1>2, <2>2 DEF PerTask
  <2>3. QED
    BY <2>1, <2>2
<1>4. /\ PerTask(mpi_fini_hashmap')
      /\ \A t \in Task :
           mpi_fini_hashmap'[t] = IF t = dst /\ rOpen THEN Del(mpi_fini_hashmap[t], di)
                                  ELSE mpi_fini_hashmap[t]
  <2>1. CASE rOpen
    BY <1>1, <1>2, <2>1, PerTaskUpdate
  <2>2. CASE ~rOpen
    BY <1>1, <1>2, <2>2 DEF PerTask
  <2>3. QED
    BY <2>1, <2>2
<1>5. QED
  BY <1>3, <1>4 DEF sOpen, rOpen

LEMMA TypesComm ==
  ASSUME Types, NEW src \in Task, NEW dst \in Task, NEW si \in Call, NEW di \in Call,
         Comm(src, si, dst, di)
  PROVE  Types'
<1> DEFINE n == Len(comms) + 1
<1>1. /\ objs' \in [Task -> Seq(Callstack)]
      /\ \A t \in Task : Len(objs'[t]) = Len(objs[t])
      /\ PerTask(comm_hashmap')
      /\ \A t \in Task : \/ comm_hashmap'[t] = comm_hashmap[t]
                         \/ comm_hashmap'[t] = Put(comm_hashmap[t], EntryTime(si), n)
                         \/ comm_hashmap'[t] = Put(comm_hashmap[t], ExitTime(di), n)
      /\ UNCHANGED <<calls, missing, mpi_opened, callstack_pool, mpi_acumm_cycles, burst_last,
                     finished>>
  <2>1. \A t \in Task : comm_hashmap'[t] =
          IF t = src /\ ~(si \in DOMAIN mpi_init_hashmap[src])
          THEN Put(comm_hashmap[t], EntryTime(si), n)
          ELSE IF t = dst /\ ~(di \in DOMAIN mpi_fini_hashmap[dst])
          THEN Put(comm_hashmap[t], ExitTime(di), n)
          ELSE comm_hashmap[t]
    BY CommMapEffect
  <2>2. /\ objs' \in [Task -> Seq(Callstack)]
        /\ \A t \in Task : Len(objs'[t]) = Len(objs[t])
        /\ PerTask(comm_hashmap')
        /\ UNCHANGED <<calls, missing, mpi_opened, callstack_pool, mpi_acumm_cycles, burst_last,
                       finished>>
    BY CommEffect, CommMapEffect
  <2> HIDE DEF n
  <2>3. QED
    BY <2>1, <2>2
<1>2. PICK c \in Message : /\ c.src = src /\ c.si = si /\ c.dst = dst /\ c.di = di
                           /\ comms' = Append(comms, c)
  BY CommMessage
<1>3. /\ PerTask(mpi_init_hashmap') /\ PerTask(mpi_fini_hashmap')
      /\ \A t \in Task :
           /\ \/ mpi_init_hashmap'[t] = Del(mpi_init_hashmap[t], si)
              \/ mpi_init_hashmap'[t] = mpi_init_hashmap[t]
           /\ \/ mpi_fini_hashmap'[t] = Del(mpi_fini_hashmap[t], di)
              \/ mpi_fini_hashmap'[t] = mpi_fini_hashmap[t]
  BY CommOfTasks
<1>4. AllPerTask /\ \A t \in Task : TypesOf(t)
  BY TypesByTask
<1>5. comms \in Seq(Message) /\ comms' \in Seq(Message) /\ Len(comms') = n /\ n \in Nat /\ n # 0
  BY <1>2 DEF Types
<1>6. AllPerTask'
  <2>1. PerTask(objs')
    BY <1>1 DEF PerTask
  <2>2. /\ PerTask(calls') /\ PerTask(mpi_opened') /\ PerTask(callstack_pool')
        /\ PerTask(mpi_acumm_cycles') /\ PerTask(burst_last')
    BY <1>1, <1>4 DEF AllPerTask, PerTask
  <2>3. QED
    BY <1>1, <1>3, <2>1, <2>2 DEF AllPerTask
<1>7. ASSUME NEW t \in Task
      PROVE  TypesOf(t)'
  <2>1. /\ calls[t] \in Seq(Path) /\ mpi_opened[t] \in BOOLEAN /\ burst_last[t] \in Nat
        /\ Len(objs[t]) = Len(calls[t]) /\ Len(calls[t]) <= MaxCalls
        /\ mpi_opened[t] => Len(calls[t]) # 0
        /\ callstack_pool[t] \in [DOMAIN callstack_pool[t] -> 1..Len(objs[t])]
        /\ comm_hashmap[t] \in [DOMAIN comm_hashmap[t] -> 1..Len(comms)]
        /\ DOMAIN comm_hashmap[t] \subseteq Time
        /\ mpi_init_hashmap[t] \in [DOMAIN mpi_init_hashmap[t] -> 1..Len(objs[t])]
        /\ mpi_fini_hashmap[t] \in [DOMAIN mpi_fini_hashmap[t] -> 1..Len(objs[t])]
        /\ mpi_acumm_cycles[t] \in [DOMAIN mpi_acumm_cycles[t] -> Nat]
    BY <1>4 DEF TypesOf, TaskTypes
  <2>2. objs'[t] \in Seq(Callstack) /\ Len(objs'[t]) = Len(objs[t])
    BY <1>1
  <2>3. comm_hashmap'[t] \in [DOMAIN comm_hashmap'[t] -> 1..n] /\ DOMAIN comm_hashmap'[t] \subseteq Time
    <3>1. comm_hashmap[t] \in [DOMAIN comm_hashmap[t] -> 1..n] /\ n \in 1..n
      <4>1. Len(comms) \in Nat
        BY <1>5
      <4>2. QED
        BY <2>1, <4>1
    <3>2. EntryTime(si) \in Time /\ ExitTime(di) \in Time
      BY DEF Time
    <3> HIDE DEF n
    <3> DEFINE d == Put(comm_hashmap[t], EntryTime(si), n)
               e == Put(comm_hashmap[t], ExitTime(di), n)
    <3>3. d \in [DOMAIN d -> 1..n] /\ DOMAIN d \subseteq Time
      BY <2>1, <3>1, <3>2 DEF Put
    <3>4. e \in [DOMAIN e -> 1..n] /\ DOMAIN e \subseteq Time
      BY <2>1, <3>1, <3>2 DEF Put
    <3>5. comm_hashmap'[t] \in {comm_hashmap[t], d, e}
      BY <1>1 DEF n
    <3> HIDE DEF d, e
    <3>6. QED
      BY <2>1, <3>1, <3>3, <3>4, <3>5
  <2>4. mpi_init_hashmap'[t] \in [DOMAIN mpi_init_hashmap'[t] -> 1..Len(objs[t])]
    <3> DEFINE d == Del(mpi_init_hashmap[t], si)
    <3>1. d \in [DOMAIN d -> 1..Len(objs[t])]
      BY <2>1 DEF Del
    <3>2. mpi_init_hashmap'[t] \in {d, mpi_init_hashmap[t]}
      BY <1>3
    <3> HIDE DEF d
    <3>3. QED
      BY <2>1, <3>1, <3>2
  <2>5. mpi_fini_hashmap'[t] \in [DOMAIN mpi_fini_hashmap'[t] -> 1..Len(objs[t])]
    <3> DEFINE d == Del(mpi_fini_hashmap[t], di)
    <3>1. d \in [DOMAIN d -> 1..Len(objs[t])]
      BY <2>1 DEF Del
    <3>2. mpi_fini_hashmap'[t] \in {d, mpi_fini_hashmap[t]}
      BY <1>3
    <3> HIDE DEF d
    <3>3. QED
      BY <2>1, <3>1, <3>2
  <2> HIDE DEF n
  <2>6. TaskTypes(calls'[t], mpi_opened'[t], objs'[t], callstack_pool'[t], comm_hashmap'[t],
                  mpi_init_hashmap'[t], mpi_fini_hashmap'[t], mpi_acumm_cycles'[t],
                  burst_last'[t], Len(comms'))
    BY <1>1, <1>5, <2>1, <2>2, <2>3, <2>4, <2>5 DEF TaskTypes
  <2>7. QED
    BY <2>6 DEF TypesOf
<1>8. failed' \in BOOLEAN /\ finished' \in BOOLEAN
  <2>1. failed' = \/ /\ si \in DOMAIN mpi_init_hashmap[src]
                     /\ ~CanTakeSize(objs[src][mpi_init_hashmap[src][si]])
                  \/ /\ di \in DOMAIN mpi_fini_hashmap[dst]
                     /\ ~CanTakeSize(objs[dst][mpi_fini_hashmap[dst][di]])
    BY CommEffect
  <2>2. QED
    BY <1>1, <2>1 DEF Types, TypeOK
<1>9. started' \in SUBSET Task
  BY CommStarts DEF Types, TypeOK
<1>10. QED
  BY <1>5, <1>6, <1>7, <1>8, <1>9, TypesFromTasks

LEMMA TypesFinish ==
  ASSUME Types, Finish
  PROVE  Types'
<1>1. /\ ~failed /\ finished'
      /\ objs' \in [Task -> Seq(Callstack)]
      /\ \A t \in Task : Len(objs'[t]) = Len(objs[t])
      /\ UNCHANGED <<calls, comms, missing, mpi_opened, callstack_pool, comm_hashmap,
                     mpi_init_hashmap, mpi_fini_hashmap, mpi_acumm_cycles, burst_last, failed>>
  BY FinishEffect
<1>2. AllPerTask /\ \A t \in Task : TypesOf(t)
  BY TypesByTask
<1>3. AllPerTask'
  BY <1>1, <1>2 DEF AllPerTask, PerTask
<1>4. \A t \in Task : objs'[t] \in Seq(Callstack)
  BY <1>1
<1>5. \A t \in Task : TypesOf(t)'
  BY <1>1, <1>2, <1>4 DEF TypesOf, TaskTypes
<1>6. comms' \in Seq(Message) /\ failed' \in BOOLEAN /\ finished' \in BOOLEAN
  BY <1>1 DEF Types, TypeOK, Finish
<1>7. started' \in SUBSET Task
  BY DEF Types, TypeOK, Finish
<1>8. QED
  BY <1>3, <1>5, <1>6, <1>7, TypesFromTasks

LEMMA TypesStart ==
  ASSUME Types, NEW t \in Task, Start(t)
  PROVE  Types'
<1> DEFINE acc == Accumulated(mpi_acumm_cycles[t], CallWork(0))
<1>1. /\ started' = started \cup {t}
      /\ Updated(burst_last', burst_last, t, CallWork(0))
      /\ acc \in [DOMAIN acc -> Nat]
      /\ Updated(mpi_acumm_cycles', mpi_acumm_cycles, t, acc)
      /\ UNCHANGED <<calls, comms, missing, mpi_opened, objs, callstack_pool, comm_hashmap,
                     mpi_init_hashmap, mpi_fini_hashmap, failed, finished>>
  BY StartEffect
<1> HIDE DEF acc
<1>2. AllPerTask /\ \A u \in Task : TypesOf(u)
  BY TypesByTask
<1>3. /\ PerTask(mpi_acumm_cycles')
      /\ \A u \in Task : mpi_acumm_cycles'[u] \in [DOMAIN mpi_acumm_cycles'[u] -> Nat]
  BY <1>1, AccumulatedCycles
<1>4. /\ PerTask(burst_last') /\ burst_last'[t] = CallWork(0)
      /\ \A u \in Task : u # t => burst_last'[u] = burst_last[u]
  BY <1>1, <1>2, PerTaskUpdate DEF AllPerTask
<1>5. AllPerTask'
  BY <1>1, <1>2, <1>3, <1>4 DEF AllPerTask, PerTask
<1>6. \A u \in Task : burst_last'[u] \in Nat
  BY <1>4 DEF Types, CallWork
<1>7. \A u \in Task : TypesOf(u)'
  BY <1>1, <1>2, <1>3, <1>6 DEF TypesOf, TaskTypes
<1>8. /\ comms' \in Seq(Message) /\ failed' \in BOOLEAN /\ finished' \in BOOLEAN
      /\ started' \in SUBSET Task
  BY <1>1 DEF Types, TypeOK
<1>9. QED
  BY <1>5, <1>7, <1>8, TypesFromTasks

LEMMA TypesStep ==
  ASSUME Types, [Next]_vars
  PROVE  Types'
<1>1. CASE UNCHANGED vars
  BY <1>1 DEF vars, Types, TypeOK, PerTask
<1>2. CASE Next
  BY <1>2, TypesStart, TypesEntry, TypesExit, TypesComm, TypesFinish DEF Next
<1>3. QED
  BY <1>1, <1>2

(* TypeOK of CallstacksParser: the dictionaries refer to objects and to      *)
(* communications that exist, whatever the trace (__mpi_handler,             *)
(* __comms_handler).                                                         *)
THEOREM ParserTypes == Spec => []TypeOK
<1>1. Init => Types
  BY TypesInit
<1>2. Types /\ [Next]_vars => Types'
  BY TypesStep
<1>3. Types => TypeOK
  BY DEF Types
<1>4. QED
  BY <1>1, <1>2, <1>3, PTL DEF Spec

-----------------------------------------------------------------------------
(* Which object stands for a call, and what the dictionaries hold. *)

SentBy(t, k)     == {n \in 1..Len(comms) : comms[n].src = t /\ comms[n].si = k}
ReceivedBy(t, k) == {n \in 1..Len(comms) : comms[n].dst = t /\ comms[n].di = k}

ObjectOf(t, k) == IF k <= Over(t) THEN callstack_pool[t][calls[t][k]] ELSE k

(* The pool has the signatures of the calls that are over, each with the     *)
(* object of a call that has it.                                             *)
PoolInv(t) ==
  /\ DOMAIN callstack_pool[t] = {calls[t][k] : k \in 1..Over(t)}
  /\ \A p \in DOMAIN callstack_pool[t] : /\ callstack_pool[t][p] \in 1..Over(t)
                                         /\ calls[t][callstack_pool[t][p]] = p

(* A call takes part in one communication.                                   *)
MessagesInv ==
  /\ \A n \in 1..Len(comms) : comms[n].src # comms[n].dst
  /\ \A t \in Task, k \in Call : \A m, n \in SentBy(t, k) \cup ReceivedBy(t, k) : m = n

(* The entries, and the exits, that still wait for a communication.          *)
InitMapInv(t) ==
  /\ DOMAIN mpi_init_hashmap[t] = {k \in 1..Len(calls[t]) : SentBy(t, k) = {}}
  /\ \A k \in DOMAIN mpi_init_hashmap[t] : mpi_init_hashmap[t][k] = ObjectOf(t, k)

FiniMapInv(t) ==
  /\ DOMAIN mpi_fini_hashmap[t] = {k \in 1..Over(t) : ReceivedBy(t, k) = {}}
  /\ \A k \in DOMAIN mpi_fini_hashmap[t] : mpi_fini_hashmap[t][k] = ObjectOf(t, k)

(* The communications that wait for an entry or an exit.                     *)
CommMapInv(t) ==
  \A k \in Call :
    /\ k > Len(calls[t]) /\ SentBy(t, k) # {} => EntryTime(k) \in DOMAIN comm_hashmap[t]
    /\ EntryTime(k) \in DOMAIN comm_hashmap[t] => comm_hashmap[t][EntryTime(k)] \in SentBy(t, k)
    /\ k > Over(t) /\ ReceivedBy(t, k) # {} => ExitTime(k) \in DOMAIN comm_hashmap[t]
    /\ ExitTime(k) \in DOMAIN comm_hashmap[t] => comm_hashmap[t][ExitTime(k)] \in ReceivedBy(t, k)

MapsInv == \A t \in Task : PoolInv(t) /\ InitMapInv(t) /\ FiniMapInv(t) /\ CommMapInv(t)

LEMMA TaskFacts ==
  ASSUME Types, NEW t \in Task
  PROVE  /\ calls[t] \in Seq(Path) /\ Len(calls[t]) \in Nat /\ Len(calls[t]) <= MaxCalls
         /\ objs[t] \in Seq(Callstack) /\ Len(objs[t]) = Len(calls[t])
         /\ mpi_opened[t] => Len(calls[t]) # 0 /\ Over(t) = Len(calls[t]) - 1
         /\ ~mpi_opened[t] => Over(t) = Len(calls[t])
         /\ Over(t) \in Nat /\ Over(t) <= Len(calls[t])
         /\ Len(comms) \in Nat /\ \A n \in 1..Len(comms) : comms[n] \in Message
BY DEF Types, TypeOK, Over

LEMMA OthersKeepMaps ==
  ASSUME NEW t \in Task, SameCalls(t), UNCHANGED comms, mpi_fini_hashmap'[t] = mpi_fini_hashmap[t],
         PoolInv(t), InitMapInv(t), FiniMapInv(t), CommMapInv(t)
  PROVE  (PoolInv(t) /\ InitMapInv(t) /\ FiniMapInv(t) /\ CommMapInv(t))'
<1>1. Over(t)' = Over(t)
  BY DEF Over, SameCalls
<1>2. \A k : SentBy(t, k)' = SentBy(t, k) /\ ReceivedBy(t, k)' = ReceivedBy(t, k)
  BY DEF SentBy, ReceivedBy
<1>3. \A k : ObjectOf(t, k)' = ObjectOf(t, k)
  BY <1>1 DEF ObjectOf, SameCalls
<1>4. PoolInv(t)'
  BY <1>1 DEF PoolInv, SameCalls
<1>5. InitMapInv(t)' /\ FiniMapInv(t)'
  BY <1>1, <1>2, <1>3 DEF InitMapInv, FiniMapInv, SameCalls
<1>6. CommMapInv(t)'
  BY <1>1, <1>2 DEF CommMapInv, SameCalls
<1>7. QED
  BY <1>4, <1>5, <1>6

LEMMA MessagesKept ==
  ASSUME MessagesInv, UNCHANGED comms
  PROVE  MessagesInv'
BY DEF MessagesInv, SentBy, ReceivedBy

LEMMA EntryCalls ==
  ASSUME Types, NEW t \in Task, NEW p \in Path, NEW hwc \in BOOLEAN, Entry(t, p, hwc), ~failed'
  PROVE  /\ Over(t)' = Over(t) /\ Over(t) = Len(calls[t]) /\ Len(calls'[t]) = Len(calls[t]) + 1
         /\ \A k \in 1..Len(calls[t]) : calls'[t][k] = calls[t][k]
         /\ calls'[t][Len(calls[t]) + 1] = p
         /\ \A k \in Nat \ {0} : ObjectOf(t, k)' = ObjectOf(t, k)
         /\ \A k : SentBy(t, k)' = SentBy(t, k) /\ ReceivedBy(t, k)' = ReceivedBy(t, k)
<1>1. /\ ~mpi_opened[t] /\ calls'[t] = Append(calls[t], p) /\ mpi_opened'[t] = TRUE
      /\ UNCHANGED <<comms, callstack_pool>>
  BY EntryOfTask, ZenonT(60)
<1>2. calls[t] \in Seq(Path) /\ Len(calls[t]) \in Nat /\ Over(t) = Len(calls[t])
  BY <1>1, TaskFacts
<1>3. /\ Len(calls'[t]) = Len(calls[t]) + 1
      /\ \A k \in 1..Len(calls[t]) : calls'[t][k] = calls[t][k]
      /\ calls'[t][Len(calls[t]) + 1] = p
  BY <1>1, <1>2
<1>4. Over(t)' = Over(t)
  BY <1>1, <1>2, <1>3 DEF Over
<1>5. \A k \in Nat \ {0} : ObjectOf(t, k)' = ObjectOf(t, k)
  BY <1>1, <1>2, <1>3, <1>4 DEF ObjectOf
<1>6. \A k : SentBy(t, k)' = SentBy(t, k) /\ ReceivedBy(t, k)' = ReceivedBy(t, k)
  BY <1>1 DEF SentBy, ReceivedBy
<1>7. QED
  BY <1>2, <1>3, <1>4, <1>5, <1>6

LEMMA MapsEntry ==
  ASSUME Types, MapsInv, MessagesInv,
         NEW t \in Task, NEW p \in Path, NEW hwc \in BOOLEAN, Entry(t, p, hwc), ~failed'
  PROVE  MapsInv' /\ MessagesInv'
<1> DEFINE n     == Len(calls[t])
           k     == n + 1
           known == EntryTime(k) \in DOMAIN comm_hashmap[t]
<1>1. /\ ~mpi_opened[t] /\ k \in Call
      /\ \A u \in Task : u # t => SameOf(u)
      /\ comm_hashmap'[t] = comm_hashmap[t] \/ /\ known
                                               /\ comm_hashmap'[t] = Del(comm_hashmap[t], EntryTime(k))
      /\ mpi_init_hashmap'[t] = IF known THEN mpi_init_hashmap[t]
                                ELSE Put(mpi_init_hashmap[t], k, k)
      /\ UNCHANGED <<comms, callstack_pool, mpi_fini_hashmap, burst_last, failed, finished>>
  BY EntryOfTask, ZenonT(60)
<1>2. /\ Over(t)' = Over(t) /\ Over(t) = n /\ Len(calls'[t]) = k
      /\ \A i \in 1..n : calls'[t][i] = calls[t][i]
      /\ \A i \in Nat \ {0} : ObjectOf(t, i)' = ObjectOf(t, i)
      /\ \A i : SentBy(t, i)' = SentBy(t, i) /\ ReceivedBy(t, i)' = ReceivedBy(t, i)
  BY EntryCalls
<1>3. n \in Nat /\ n <= MaxCalls
  BY TaskFacts
<1>4. PoolInv(t) /\ InitMapInv(t) /\ FiniMapInv(t) /\ CommMapInv(t)
  BY DEF MapsInv
<1>5. known <=> SentBy(t, k) # {}
  BY <1>1, <1>3, <1>4 DEF CommMapInv
<1> HIDE DEF known
<1>6. PoolInv(t)'
  <2>1. {calls'[t][i] : i \in 1..n} = {calls[t][i] : i \in 1..n}
    BY <1>2
  <2>2. \A i \in 1..n : calls'[t][i] = calls[t][i]
    BY <1>2
  <2> HIDE DEF n
  <2>3. QED
    BY <1>1, <1>2, <1>4, <2>1, <2>2 DEF PoolInv
<1>7. InitMapInv(t)'
  <2>1. /\ DOMAIN mpi_init_hashmap[t] = {i \in 1..n : SentBy(t, i) = {}}
        /\ \A i \in DOMAIN mpi_init_hashmap[t] : mpi_init_hashmap[t][i] = ObjectOf(t, i)
    BY <1>4 DEF InitMapInv
  <2>2. ObjectOf(t, k) = k
    BY <1>2, <1>3 DEF ObjectOf
  <2>3. CASE known
    <3>1. {i \in 1..k : SentBy(t, i) = {}} = {i \in 1..n : SentBy(t, i) = {}}
      BY <1>3, <1>5, <2>3
    <3>2. QED
      BY <1>1, <1>2, <1>3, <2>1, <2>3, <3>1 DEF InitMapInv
  <2>4. CASE ~known
    <3> DEFINE d == Put(mpi_init_hashmap[t], k, k)
    <3>1. /\ DOMAIN d = DOMAIN mpi_init_hashmap[t] \cup {k}
          /\ \A i \in DOMAIN d : d[i] = IF i = k THEN k ELSE mpi_init_hashmap[t][i]
      BY DEF Put
    <3>2. {i \in 1..k : SentBy(t, i) = {}} = {i \in 1..n : SentBy(t, i) = {}} \cup {k}
      BY <1>3, <1>5, <2>4
    <3> HIDE DEF d
    <3>3. mpi_init_hashmap'[t] = d
      BY <1>1, <2>4 DEF d
    <3>4. k \in Nat /\ k # 0 /\ DOMAIN mpi_init_hashmap[t] \subseteq Nat \ {0}
      BY <1>3, <2>1
    <3> HIDE DEF k, n
    <3>5. DOMAIN mpi_init_hashmap'[t] = {i \in 1..Len(calls'[t]) : SentBy(t, i)' = {}}
      BY <1>2, <2>1, <3>1, <3>2, <3>3
    <3>6. \A i \in DOMAIN mpi_init_hashmap'[t] : mpi_init_hashmap'[t][i] = ObjectOf(t, i)'
      BY <1>2, <2>1, <2>2, <3>1, <3>3, <3>4
    <3>7. QED
      BY <3>5, <3>6 DEF InitMapInv
  <2>5. QED
    BY <2>3, <2>4
<1>8. FiniMapInv(t)'
  BY <1>1, <1>2, <1>3, <1>4 DEF FiniMapInv
<1>9. CommMapInv(t)'
  <2>1. ASSUME NEW i \in Call
        PROVE  /\ EntryTime(i) \in DOMAIN comm_hashmap'[t] =>
                    /\ EntryTime(i) \in DOMAIN comm_hashmap[t]
                    /\ comm_hashmap'[t][EntryTime(i)] = comm_hashmap[t][EntryTime(i)]
               /\ i # k /\ EntryTime(i) \in DOMAIN comm_hashmap[t] =>
                    EntryTime(i) \in DOMAIN comm_hashmap'[t]
               /\ ExitTime(i) \in DOMAIN comm_hashmap'[t] <=> ExitTime(i) \in DOMAIN comm_hashmap[t]
               /\ ExitTime(i) \in DOMAIN comm_hashmap[t] =>
                    comm_hashmap'[t][ExitTime(i)] = comm_hashmap[t][ExitTime(i)]
    <3>1. /\ ExitTime(i) # EntryTime(k)
          /\ EntryTime(i) = EntryTime(k) => i = k
      BY EntryAndExitTimesDiffer
    <3> HIDE DEF k
    <3>2. CASE comm_hashmap'[t] = comm_hashmap[t]
      BY <3>2
    <3>3. CASE comm_hashmap'[t] = Del(comm_hashmap[t], EntryTime(k))
      <4> DEFINE d == Del(comm_hashmap[t], EntryTime(k))
      <4>1. /\ DOMAIN d = DOMAIN comm_hashmap[t] \ {EntryTime(k)}
            /\ \A x \in DOMAIN d : d[x] = comm_hashmap[t][x]
        BY DEF Del
      <4> HIDE DEF d
      <4>2. comm_hashmap'[t] = d
        BY <3>3 DEF d
      <4>3. QED
        BY <3>1, <4>1, <4>2
    <3>4. QED
      BY <1>1, <3>2, <3>3
  <2>2. \A i \in Call : i > k => i > n /\ i # k
    BY <1>3 DEF Call
  <2> HIDE DEF k, n
  <2>3. QED
    BY <1>2, <1>4, <2>1, <2>2 DEF CommMapInv, n
<1>10. ASSUME NEW u \in Task, u # t
       PROVE  (PoolInv(u) /\ InitMapInv(u) /\ FiniMapInv(u) /\ CommMapInv(u))'
  BY <1>1, <1>10, OthersKeepMaps DEF MapsInv, SameOf
<1>11. MessagesInv'
  BY <1>1, MessagesKept
<1>12. QED
  BY <1>6, <1>7, <1>8, <1>9, <1>10, <1>11 DEF MapsInv

LEMMA ExitCalls ==
  ASSUME Types, NEW t \in Task, PoolInv(t), NEW hwc \in BOOLEAN, Exit(t, hwc)
  PROVE  LET n == Len(calls[t])
             p == calls[t][n]
             o == IF p \in DOMAIN callstack_pool[t] THEN callstack_pool[t][p] ELSE n
         IN /\ n \in Nat /\ n # 0 /\ Over(t) = n - 1 /\ Over(t)' = n
            /\ \A k \in 1..n : k <= n - 1 \/ k = n
            /\ o \in 1..n /\ calls[t][o] = p
            /\ callstack_pool'[t] = Put(callstack_pool[t], p, o)
            /\ \A k \in Nat \ {0} : ObjectOf(t, k)' = IF k = n THEN o ELSE ObjectOf(t, k)
            /\ \A k : SentBy(t, k)' = SentBy(t, k) /\ ReceivedBy(t, k)' = ReceivedBy(t, k)
            /\ UNCHANGED <<calls, comms>>
<1> DEFINE n == Len(calls[t])
           p == calls[t][n]
           o == IF p \in DOMAIN callstack_pool[t] THEN callstack_pool[t][p] ELSE n
<1>1. /\ mpi_opened[t] /\ mpi_opened'[t] = FALSE
      /\ callstack_pool'[t] = Put(callstack_pool[t], p, o)
      /\ UNCHANGED <<calls, comms>>
  BY ExitOfTask
<1>2. n \in Nat /\ n # 0 /\ Over(t) = n - 1
  BY <1>1, TaskFacts
<1>3. Over(t)' = n
  BY <1>1, <1>2 DEF Over
<1>4. /\ DOMAIN callstack_pool[t] = {calls[t][k] : k \in 1..(n - 1)}
      /\ \A q \in DOMAIN callstack_pool[t] : /\ callstack_pool[t][q] \in 1..(n - 1)
                                             /\ calls[t][callstack_pool[t][q]] = q
  BY <1>2 DEF PoolInv
<1>5. o \in 1..n /\ calls[t][o] = p
  <2>1. CASE p \in DOMAIN callstack_pool[t]
    <3>1. o \in 1..(n - 1) /\ calls[t][o] = p
      BY <1>4, <2>1
    <3> HIDE DEF n, p, o
    <3>2. QED
      BY <1>2, <3>1
  <2>2. CASE p \notin DOMAIN callstack_pool[t]
    BY <1>2, <2>2
  <2>3. QED
    BY <2>1, <2>2
<1>6. ASSUME NEW k \in Nat \ {0}
      PROVE  ObjectOf(t, k)' = IF k = n THEN o ELSE ObjectOf(t, k)
  <2> DEFINE pool == Put(callstack_pool[t], p, o)
  <2>1. ObjectOf(t, k)' = IF k <= n THEN pool[calls[t][k]] ELSE k
    BY <1>1, <1>3 DEF ObjectOf
  <2>2. ObjectOf(t, k) = IF k <= n - 1 THEN callstack_pool[t][calls[t][k]] ELSE k
    BY <1>2 DEF ObjectOf
  <2>3. pool[p] = o /\ \A q \in DOMAIN callstack_pool[t] : q # p => pool[q] = callstack_pool[t][q]
    BY DEF Put
  <2> HIDE DEF pool
  <2>4. CASE k = n
    BY <1>2, <2>1, <2>3, <2>4
  <2>5. CASE k <= n - 1
    <3>1. k \in 1..(n - 1) /\ calls[t][k] \in DOMAIN callstack_pool[t] /\ k # n /\ k <= n
      BY <1>2, <1>4, <2>5
    <3>2. pool[calls[t][k]] = callstack_pool[t][calls[t][k]]
      BY <2>3, <3>1
    <3> HIDE DEF n, p, o
    <3>3. QED
      BY <2>1, <2>2, <2>5, <3>1, <3>2
  <2>6. CASE k > n
    BY <1>2, <2>1, <2>2, <2>6
  <2>7. QED
    BY <1>2, <2>4, <2>5, <2>6
<1>7. \A k : SentBy(t, k)' = SentBy(t, k) /\ ReceivedBy(t, k)' = ReceivedBy(t, k)
  BY <1>1 DEF SentBy, ReceivedBy
<1>8. \A k \in 1..n : k <= n - 1 \/ k = n
  BY <1>2
<1> HIDE DEF o, p
<1>9. QED
  BY <1>1, <1>2, <1>3, <1>5, <1>6, <1>7, <1>8 DEF o, p

LEMMA MapsExit ==
  ASSUME Types, MapsInv, MessagesInv,
         NEW t \in Task, NEW hwc \in BOOLEAN, Exit(t, hwc), ~failed'
  PROVE  MapsInv' /\ MessagesInv'
<1> DEFINE n     == Len(calls[t])
           p     == calls[t][n]
           o     == IF p \in DOMAIN callstack_pool[t] THEN callstack_pool[t][p] ELSE n
           known == ExitTime(n) \in DOMAIN comm_hashmap[t]
<1>1. /\ n \in Call
      /\ \A u \in Task : u # t => SameOf(u)
      /\ mpi_init_hashmap'[t] = IF n \in DOMAIN mpi_init_hashmap[t]
                                THEN Put(mpi_init_hashmap[t], n, o) ELSE mpi_init_hashmap[t]
      /\ comm_hashmap'[t] = comm_hashmap[t] \/ /\ known
                                               /\ comm_hashmap'[t] = Del(comm_hashmap[t], ExitTime(n))
      /\ mpi_fini_hashmap'[t] = IF known THEN mpi_fini_hashmap[t]
                                ELSE Put(mpi_fini_hashmap[t], n, o)
      /\ UNCHANGED <<calls, comms, finished>>
  BY ExitOfTask
<1>2. PoolInv(t) /\ InitMapInv(t) /\ FiniMapInv(t) /\ CommMapInv(t)
  BY DEF MapsInv
<1>3. /\ n \in Nat /\ n # 0 /\ Over(t) = n - 1 /\ Over(t)' = n
      /\ \A k \in 1..n : k <= n - 1 \/ k = n
      /\ o \in 1..n /\ calls[t][o] = p
      /\ callstack_pool'[t] = Put(callstack_pool[t], p, o)
      /\ \A k \in Nat \ {0} : ObjectOf(t, k)' = IF k = n THEN o ELSE ObjectOf(t, k)
      /\ \A k : SentBy(t, k)' = SentBy(t, k) /\ ReceivedBy(t, k)' = ReceivedBy(t, k)
  BY <1>2, ExitCalls
<1>4. known <=> ReceivedBy(t, n) # {}
  BY <1>1, <1>2, <1>3 DEF CommMapInv
<1> HIDE DEF known, o
<1>5. PoolInv(t)'
  <2> DEFINE d == Put(callstack_pool[t], p, o)
  <2>1. /\ DOMAIN d = DOMAIN callstack_pool[t] \cup {p} /\ d[p] = o
        /\ \A q \in DOMAIN d : q # p => d[q] = callstack_pool[t][q]
    BY DEF Put
  <2>2. callstack_pool'[t] = d
    BY <1>3
  <2> HIDE DEF d
  <2>3. {calls[t][k] : k \in 1..n} = {calls[t][k] : k \in 1..(n - 1)} \cup {p}
    BY <1>3
  <2>4. /\ DOMAIN callstack_pool[t] = {calls[t][k] : k \in 1..(n - 1)}
        /\ \A q \in DOMAIN callstack_pool[t] : /\ callstack_pool[t][q] \in 1..(n - 1)
                                               /\ calls[t][callstack_pool[t][q]] = q
    BY <1>2, <1>3 DEF PoolInv
  <2>5. ASSUME NEW q \in DOMAIN d
        PROVE  d[q] \in 1..n /\ calls[t][d[q]] = q
    <3> HIDE DEF n, p
    <3>1. CASE q = p
      BY <1>3, <2>1, <3>1 DEF p
    <3>2. CASE q # p
      <4>1. q \in DOMAIN callstack_pool[t] /\ d[q] = callstack_pool[t][q]
        BY <2>1, <3>2
      <4>2. d[q] \in 1..(n - 1) /\ calls[t][d[q]] = q
        BY <2>4, <4>1
      <4>3. QED
        BY <1>3, <4>2
    <3>3. QED
      BY <3>1, <3>2
  <2>6. calls'[t] = calls[t] /\ DOMAIN d = {calls[t][k] : k \in 1..n}
    BY <1>1, <2>1, <2>3, <2>4
  <2> HIDE DEF n, p
  <2>7. QED
    BY <1>3, <2>2, <2>5, <2>6 DEF PoolInv
<1>6. InitMapInv(t)'
  <2>1. /\ DOMAIN mpi_init_hashmap[t] = {i \in 1..n : SentBy(t, i) = {}}
        /\ \A i \in DOMAIN mpi_init_hashmap[t] : mpi_init_hashmap[t][i] = ObjectOf(t, i)
    BY <1>2 DEF InitMapInv
  <2> DEFINE d == Put(mpi_init_hashmap[t], n, o)
  <2>2. /\ DOMAIN d = DOMAIN mpi_init_hashmap[t] \cup {n}
        /\ \A i \in DOMAIN d : d[i] = IF i = n THEN o ELSE mpi_init_hashmap[t][i]
    BY DEF Put
  <2> HIDE DEF d
  <2>3. mpi_init_hashmap'[t] = IF n \in DOMAIN mpi_init_hashmap[t] THEN d ELSE mpi_init_hashmap[t]
    BY <1>1 DEF d
  <2>4. /\ DOMAIN mpi_init_hashmap'[t] = DOMAIN mpi_init_hashmap[t]
        /\ \A i \in DOMAIN mpi_init_hashmap[t] :
             mpi_init_hashmap'[t][i] = IF i = n THEN o ELSE mpi_init_hashmap[t][i]
    BY <2>2, <2>3
  <2>5. DOMAIN mpi_init_hashmap[t] \subseteq Nat \ {0}
    BY <1>3, <2>1
  <2>6. DOMAIN mpi_init_hashmap'[t] = {i \in 1..Len(calls'[t]) : SentBy(t, i)' = {}}
    BY <1>1, <1>3, <2>1, <2>4
  <2>7. \A i \in DOMAIN mpi_init_hashmap'[t] : mpi_init_hashmap'[t][i] = ObjectOf(t, i)'
    <3> HIDE DEF n
    <3>1. QED
      BY <1>3, <2>1, <2>4, <2>5
  <2>8. QED
    BY <2>6, <2>7 DEF InitMapInv
<1>7. FiniMapInv(t)'
  <2>1. /\ DOMAIN mpi_fini_hashmap[t] = {i \in 1..(n - 1) : ReceivedBy(t, i) = {}}
        /\ \A i \in DOMAIN mpi_fini_hashmap[t] : mpi_fini_hashmap[t][i] = ObjectOf(t, i)
    BY <1>2, <1>3 DEF FiniMapInv
  <2>2. DOMAIN mpi_fini_hashmap[t] \subseteq Nat \ {0} /\ n \notin DOMAIN mpi_fini_hashmap[t]
    BY <1>3, <2>1
  <2>3. CASE known
    <3>1. {i \in 1..n : ReceivedBy(t, i) = {}} = {i \in 1..(n - 1) : ReceivedBy(t, i) = {}}
      BY <1>3, <1>4, <2>3
    <3>2. mpi_fini_hashmap'[t] = mpi_fini_hashmap[t]
      BY <1>1, <2>3
    <3> HIDE DEF n
    <3>3. QED
      BY <1>3, <2>1, <2>2, <3>1, <3>2 DEF FiniMapInv
  <2>4. CASE ~known
    <3> DEFINE d == Put(mpi_fini_hashmap[t], n, o)
    <3>1. /\ DOMAIN d = DOMAIN mpi_fini_hashmap[t] \cup {n}
          /\ \A i \in DOMAIN d : d[i] = IF i = n THEN o ELSE mpi_fini_hashmap[t][i]
      BY DEF Put
    <3> HIDE DEF d
    <3>2. mpi_fini_hashmap'[t] = d
      BY <1>1, <2>4 DEF d
    <3>3. {i \in 1..n : ReceivedBy(t, i) = {}} = {i \in 1..(n - 1) : ReceivedBy(t, i) = {}} \cup {n}
      BY <1>3, <1>4, <2>4
    <3> HIDE DEF n
    <3>4. DOMAIN mpi_fini_hashmap'[t] = {i \in 1..Over(t)' : ReceivedBy(t, i)' = {}}
      BY <1>3, <2>1, <3>1, <3>2, <3>3
    <3>5. \A i \in DOMAIN mpi_fini_hashmap'[t] : mpi_fini_hashmap'[t][i] = ObjectOf(t, i)'
      BY <1>3, <2>1, <2>2, <3>1, <3>2
    <3>6. QED
      BY <3>4, <3>5 DEF FiniMapInv
  <2>5. QED
    BY <2>3, <2>4
<1>8. CommMapInv(t)'
  <2>1. ASSUME NEW i \in Call
        PROVE  /\ ExitTime(i) \in DOMAIN comm_hashmap'[t] =>
                    /\ ExitTime(i) \in DOMAIN comm_hashmap[t]
                    /\ comm_hashmap'[t][ExitTime(i)] = comm_hashmap[t][ExitTime(i)]
               /\ i # n /\ ExitTime(i) \in DOMAIN comm_hashmap[t] =>
                    ExitTime(i) \in DOMAIN comm_hashmap'[t]
               /\ EntryTime(i) \in DOMAIN comm_hashmap'[t] <=> EntryTime(i) \in DOMAIN comm_hashmap[t]
               /\ EntryTime(i) \in DOMAIN comm_hashmap[t] =>
                    comm_hashmap'[t][EntryTime(i)] = comm_hashmap[t][EntryTime(i)]
    <3>1. /\ EntryTime(i) # ExitTime(n)
          /\ ExitTime(i) = ExitTime(n) => i = n
      BY EntryAndExitTimesDiffer
    <3> HIDE DEF n
    <3>2. CASE comm_hashmap'[t] = comm_hashmap[t]
      BY <3>2
    <3>3. CASE comm_hashmap'[t] = Del(comm_hashmap[t], ExitTime(n))
      <4> DEFINE d == Del(comm_hashmap[t], ExitTime(n))
      <4>1. /\ DOMAIN d = DOMAIN comm_hashmap[t] \ {ExitTime(n)}
            /\ \A x \in DOMAIN d : d[x] = comm_hashmap[t][x]
        BY DEF Del
      <4> HIDE DEF d
      <4>2. comm_hashmap'[t] = d
        BY <3>3 DEF d
      <4>3. QED
        BY <3>1, <4>1, <4>2
    <3>4. QED
      BY <1>1, <3>2, <3>3
  <2>2. \A i \in Call : i > n => i > n - 1 /\ i # n
    BY <1>3 DEF Call
  <2>3. Len(calls'[t]) = n
    BY <1>1
  <2>4. /\ \A i \in Call : i > Len(calls[t]) <=> i > n
        /\ \A i \in Call : i > Over(t) <=> i > n - 1
    BY <1>3
  <2> HIDE DEF n
  <2>5. QED
    BY <1>2, <1>3, <2>1, <2>2, <2>3, <2>4 DEF CommMapInv
<1>9. ASSUME NEW u \in Task, u # t
      PROVE  (PoolInv(u) /\ InitMapInv(u) /\ FiniMapInv(u) /\ CommMapInv(u))'
  BY <1>1, <1>9, OthersKeepMaps DEF MapsInv, SameOf, SameCalls
<1>10. MessagesInv'
  BY <1>1, MessagesKept
<1>11. QED
  BY <1>5, <1>6, <1>7, <1>8, <1>9, <1>10 DEF MapsInv

LEMMA CommSets ==
  ASSUME Types, NEW src \in Task, NEW dst \in Task, NEW si \in Call, NEW di \in Call,
         Comm(src, si, dst, di)
  PROVE  LET n == Len(comms) + 1
         IN /\ src # dst /\ n \in Nat /\ n \in 1..n
            /\ SentBy(src, si) = {} /\ ReceivedBy(src, si) = {}
            /\ SentBy(dst, di) = {} /\ ReceivedBy(dst, di) = {}
            /\ Len(comms') = n /\ \A m \in 1..n : m # n => m \in 1..Len(comms)
            /\ \A m \in 1..Len(comms) : m # n /\ m \in 1..n /\ comms'[m] = comms[m]
            /\ comms'[n].src = src /\ comms'[n].si = si
            /\ comms'[n].dst = dst /\ comms'[n].di = di /\ comms'[n].size = n
            /\ \A t, k : /\ SentBy(t, k)' = IF t = src /\ k = si THEN {n} ELSE SentBy(t, k)
                         /\ ReceivedBy(t, k)' = IF t = dst /\ k = di THEN {n} ELSE ReceivedBy(t, k)
<1> DEFINE n == Len(comms) + 1
<1>1. PICK c \in Message : /\ c.src = src /\ c.si = si /\ c.dst = dst /\ c.di = di
                           /\ c.size = n /\ comms' = Append(comms, c)
  BY CommMessage
<1>2. src # dst /\ ~Taken(src, si) /\ ~Taken(dst, di)
  BY CommEffect
<1>3. comms \in Seq(Message) /\ Len(comms) \in Nat
  BY DEF Types
<1>4. /\ SentBy(src, si) = {} /\ ReceivedBy(src, si) = {}
      /\ SentBy(dst, di) = {} /\ ReceivedBy(dst, di) = {}
  BY <1>2 DEF Taken, SentBy, ReceivedBy
<1>5. /\ Len(comms') = n /\ \A m \in 1..n : m # n => m \in 1..Len(comms)
      /\ \A m \in 1..Len(comms) : m # n /\ m \in 1..n /\ comms'[m] = comms[m]
      /\ comms'[n] = c /\ n \in Nat /\ n \in 1..n
  BY <1>1, <1>3
<1> HIDE DEF n
<1>6. ASSUME NEW t, NEW k
      PROVE  /\ SentBy(t, k)' = IF t = src /\ k = si THEN {n} ELSE SentBy(t, k)
             /\ ReceivedBy(t, k)' = IF t = dst /\ k = di THEN {n} ELSE ReceivedBy(t, k)
  <2>1. SentBy(t, k)' = IF t = src /\ k = si THEN {n} ELSE SentBy(t, k)
    <3>1. CASE t = src /\ k = si
      BY <1>1, <1>4, <1>5, <3>1 DEF SentBy
    <3>2. CASE ~(t = src /\ k = si)
      BY <1>1, <1>5, <3>2 DEF SentBy
    <3>3. QED
      BY <3>1, <3>2
  <2>2. ReceivedBy(t, k)' = IF t = dst /\ k = di THEN {n} ELSE ReceivedBy(t, k)
    <3>1. CASE t = dst /\ k = di
      BY <1>1, <1>4, <1>5, <3>1 DEF ReceivedBy
    <3>2. CASE ~(t = dst /\ k = di)
      BY <1>1, <1>5, <3>2 DEF ReceivedBy
    <3>3. QED
      BY <3>1, <3>2
  <2>3. QED
    BY <2>1, <2>2
<1>7. QED
  BY <1>1, <1>2, <1>4, <1>5, <1>6 DEF n

LEMMA MapsComm ==
  ASSUME Types, MapsInv, MessagesInv,
         NEW src \in Task, NEW dst \in Task, NEW si \in Call, NEW di \in Call,
         Comm(src, si, dst, di), ~failed'
  PROVE  MapsInv' /\ MessagesInv'
<1> DEFINE n     == Len(comms) + 1
           sOpen == si \in DOMAIN mpi_init_hashmap[src]
           rOpen == di \in DOMAIN mpi_fini_hashmap[dst]
<1>1. UNCHANGED <<calls, mpi_opened, callstack_pool>>
  BY CommEffect
<1>2. \A t \in Task :
        /\ mpi_init_hashmap'[t] = IF t = src /\ sOpen THEN Del(mpi_init_hashmap[t], si)
                                  ELSE mpi_init_hashmap[t]
        /\ mpi_fini_hashmap'[t] = IF t = dst /\ rOpen THEN Del(mpi_fini_hashmap[t], di)
                                  ELSE mpi_fini_hashmap[t]
  BY CommOfTasks
<1>3. \A t \in Task : comm_hashmap'[t] =
        IF t = src /\ ~sOpen THEN Put(comm_hashmap[t], EntryTime(si), n)
        ELSE IF t = dst /\ ~rOpen THEN Put(comm_hashmap[t], ExitTime(di), n)
        ELSE comm_hashmap[t]
  BY CommMapEffect
<1>4. /\ src # dst /\ n \in Nat /\ n \in 1..n
      /\ SentBy(src, si) = {} /\ ReceivedBy(src, si) = {}
      /\ SentBy(dst, di) = {} /\ ReceivedBy(dst, di) = {}
      /\ Len(comms') = n /\ \A m \in 1..n : m # n => m \in 1..Len(comms)
      /\ \A m \in 1..Len(comms) : m # n /\ m \in 1..n /\ comms'[m] = comms[m]
      /\ comms'[n].src = src /\ comms'[n].si = si
      /\ comms'[n].dst = dst /\ comms'[n].di = di
      /\ \A t, k : /\ SentBy(t, k)' = IF t = src /\ k = si THEN {n} ELSE SentBy(t, k)
                   /\ ReceivedBy(t, k)' = IF t = dst /\ k = di THEN {n} ELSE ReceivedBy(t, k)
  BY CommSets
<1>5. \A t \in Task : Over(t)' = Over(t) /\ \A k : ObjectOf(t, k)' = ObjectOf(t, k)
  BY <1>1 DEF Over, ObjectOf
<1> HIDE DEF n
<1>6. ASSUME NEW t \in Task
      PROVE  PoolInv(t)'
  BY <1>1, <1>5 DEF MapsInv, PoolInv
<1>7. ASSUME NEW t \in Task
      PROVE  InitMapInv(t)'
  <2>1. /\ DOMAIN mpi_init_hashmap[t] = {i \in 1..Len(calls[t]) : SentBy(t, i) = {}}
        /\ \A i \in DOMAIN mpi_init_hashmap[t] : mpi_init_hashmap[t][i] = ObjectOf(t, i)
    BY DEF MapsInv, InitMapInv
  <2> DEFINE d == Del(mpi_init_hashmap[t], si)
  <2>2. /\ DOMAIN d = DOMAIN mpi_init_hashmap[t] \ {si}
        /\ \A x \in DOMAIN d : d[x] = mpi_init_hashmap[t][x]
    BY DEF Del
  <2> HIDE DEF d
  <2>3. mpi_init_hashmap'[t] = IF t = src /\ sOpen THEN d ELSE mpi_init_hashmap[t]
    BY <1>2 DEF d
  <2>4. CASE t = src /\ sOpen
    <3>1. mpi_init_hashmap'[t] = d
      BY <2>3, <2>4
    <3>2. DOMAIN d = {i \in 1..Len(calls[t]) : SentBy(t, i)' = {}}
      BY <1>4, <2>1, <2>2, <2>4
    <3>3. QED
      BY <1>1, <1>5, <2>1, <2>2, <3>1, <3>2 DEF InitMapInv
  <2>5. CASE ~(t = src /\ sOpen)
    <3>1. mpi_init_hashmap'[t] = mpi_init_hashmap[t]
      BY <2>3, <2>5
    <3>2. DOMAIN mpi_init_hashmap[t] = {i \in 1..Len(calls[t]) : SentBy(t, i)' = {}}
      BY <1>4, <2>1, <2>5
    <3>3. QED
      BY <1>1, <1>5, <2>1, <3>1, <3>2 DEF InitMapInv
  <2>6. QED
    BY <2>4, <2>5
<1>8. ASSUME NEW t \in Task
      PROVE  FiniMapInv(t)'
  <2>1. /\ DOMAIN mpi_fini_hashmap[t] = {i \in 1..Over(t) : ReceivedBy(t, i) = {}}
        /\ \A i \in DOMAIN mpi_fini_hashmap[t] : mpi_fini_hashmap[t][i] = ObjectOf(t, i)
    BY DEF MapsInv, FiniMapInv
  <2> DEFINE d == Del(mpi_fini_hashmap[t], di)
  <2>2. /\ DOMAIN d = DOMAIN mpi_fini_hashmap[t] \ {di}
        /\ \A x \in DOMAIN d : d[x] = mpi_fini_hashmap[t][x]
    BY DEF Del
  <2> HIDE DEF d
  <2>3. mpi_fini_hashmap'[t] = IF t = dst /\ rOpen THEN d ELSE mpi_fini_hashmap[t]
    BY <1>2 DEF d
  <2>4. CASE t = dst /\ rOpen
    <3>1. mpi_fini_hashmap'[t] = d
      BY <2>3, <2>4
    <3>2. DOMAIN d = {i \in 1..Over(t) : ReceivedBy(t, i)' = {}}
      BY <1>4, <2>1, <2>2, <2>4
    <3>3. QED
      BY <1>5, <2>1, <2>2, <3>1, <3>2 DEF FiniMapInv
  <2>5. CASE ~(t = dst /\ rOpen)
    <3>1. mpi_fini_hashmap'[t] = mpi_fini_hashmap[t]
      BY <2>3, <2>5
    <3>2. DOMAIN mpi_fini_hashmap[t] = {i \in 1..Over(t) : ReceivedBy(t, i)' = {}}
      BY <1>4, <2>1, <2>5
    <3>3. QED
      BY <1>5, <2>1, <3>1, <3>2 DEF FiniMapInv
  <2>6. QED
    BY <2>4, <2>5
<1>9. ASSUME NEW t \in Task
      PROVE  CommMapInv(t)'
  <2>1. CommMapInv(t)
    BY DEF MapsInv
  <2>2. /\ sOpen <=> si <= Len(calls[src])
        /\ rOpen <=> di <= Over(dst)
    <3>1. /\ DOMAIN mpi_init_hashmap[src] = {i \in 1..Len(calls[src]) : SentBy(src, i) = {}}
          /\ DOMAIN mpi_fini_hashmap[dst] = {i \in 1..Over(dst) : ReceivedBy(dst, i) = {}}
      BY DEF MapsInv, InitMapInv, FiniMapInv
    <3>2. /\ Len(calls[src]) \in Nat /\ Over(dst) \in Nat
          /\ si \in Nat /\ si # 0 /\ di \in Nat /\ di # 0
      BY TaskFacts DEF Call
    <3>3. QED
      BY <1>4, <3>1, <3>2
  <2> HIDE DEF sOpen, rOpen
  <2> DEFINE d == Put(comm_hashmap[t], EntryTime(si), n)
             e == Put(comm_hashmap[t], ExitTime(di), n)
  <2>3. /\ DOMAIN d = DOMAIN comm_hashmap[t] \cup {EntryTime(si)}
        /\ \A x \in DOMAIN d : d[x] = IF x = EntryTime(si) THEN n ELSE comm_hashmap[t][x]
    BY DEF Put
  <2>4. /\ DOMAIN e = DOMAIN comm_hashmap[t] \cup {ExitTime(di)}
        /\ \A x \in DOMAIN e : e[x] = IF x = ExitTime(di) THEN n ELSE comm_hashmap[t][x]
    BY DEF Put
  <2> HIDE DEF d, e
  <2>5. comm_hashmap'[t] = IF t = src /\ ~sOpen THEN d ELSE IF t = dst /\ ~rOpen THEN e
                           ELSE comm_hashmap[t]
    BY <1>3 DEF d, e
  <2>6. Over(t)' = Over(t) /\ Len(calls'[t]) = Len(calls[t]) /\ Len(calls[t]) \in Nat /\ Over(t) \in Nat
    BY <1>1, <1>5, TaskFacts
  <2>7. \A k \in Call : k \in Nat
    BY DEF Call
  <2>8. ASSUME NEW k \in Call
        PROVE  /\ EntryTime(k) # ExitTime(di) /\ ExitTime(k) # EntryTime(si)
               /\ EntryTime(k) = EntryTime(si) <=> k = si
               /\ ExitTime(k) = ExitTime(di) <=> k = di
    BY EntryAndExitTimesDiffer
  <2>9. ASSUME NEW k \in Call
        PROVE  /\ k > Len(calls[t]) /\ SentBy(t, k)' # {} => EntryTime(k) \in DOMAIN comm_hashmap'[t]
               /\ EntryTime(k) \in DOMAIN comm_hashmap'[t] =>
                    comm_hashmap'[t][EntryTime(k)] \in SentBy(t, k)'
    <3>1. /\ k > Len(calls[t]) /\ SentBy(t, k) # {} => EntryTime(k) \in DOMAIN comm_hashmap[t]
          /\ EntryTime(k) \in DOMAIN comm_hashmap[t] => comm_hashmap[t][EntryTime(k)] \in SentBy(t, k)
      BY <2>1 DEF CommMapInv
    <3>2. SentBy(t, k)' = IF t = src /\ k = si THEN {n} ELSE SentBy(t, k)
      BY <1>4
    <3>3. CASE t = src /\ k = si
      <4>1. SentBy(t, k) = {}
        BY <1>4, <3>3
      <4>2. k > Len(calls[t]) => ~sOpen
        BY <2>2, <2>6, <2>7, <3>3
      <4>3. CASE sOpen
        BY <2>5, <3>1, <4>1, <4>2, <4>3, <1>4, <3>3
      <4>4. CASE ~sOpen
        BY <2>3, <2>5, <3>2, <3>3, <4>4
      <4>5. QED
        BY <4>3, <4>4
    <3>4. CASE ~(t = src /\ k = si)
      <4>1. SentBy(t, k)' = SentBy(t, k)
        BY <3>2, <3>4
      <4>2. CASE t = src /\ ~sOpen
        <5>1. comm_hashmap'[t] = d /\ k # si
          BY <2>5, <3>4, <4>2
        <5>2. QED
          BY <2>3, <2>8, <3>1, <4>1, <5>1
      <4>3. CASE ~(t = src /\ ~sOpen) /\ t = dst /\ ~rOpen
        <5>1. comm_hashmap'[t] = e
          BY <2>5, <4>3
        <5>2. QED
          BY <2>4, <2>8, <3>1, <4>1, <5>1
      <4>4. CASE ~(t = src /\ ~sOpen) /\ ~(t = dst /\ ~rOpen)
        BY <2>5, <3>1, <4>1, <4>4
      <4>5. QED
        BY <4>2, <4>3, <4>4
    <3>5. QED
      BY <3>3, <3>4
  <2>10. ASSUME NEW k \in Call
         PROVE  /\ k > Over(t) /\ ReceivedBy(t, k)' # {} => ExitTime(k) \in DOMAIN comm_hashmap'[t]
                /\ ExitTime(k) \in DOMAIN comm_hashmap'[t] =>
                     comm_hashmap'[t][ExitTime(k)] \in ReceivedBy(t, k)'
    <3>1. /\ k > Over(t) /\ ReceivedBy(t, k) # {} => ExitTime(k) \in DOMAIN comm_hashmap[t]
          /\ ExitTime(k) \in DOMAIN comm_hashmap[t] => comm_hashmap[t][ExitTime(k)] \in ReceivedBy(t, k)
      BY <2>1 DEF CommMapInv
    <3>2. ReceivedBy(t, k)' = IF t = dst /\ k = di THEN {n} ELSE ReceivedBy(t, k)
      BY <1>4
    <3>3. CASE t = dst /\ k = di
      <4>1. ReceivedBy(t, k) = {} /\ t # src
        BY <1>4, <3>3
      <4>2. k > Over(t) => ~rOpen
        BY <2>2, <2>6, <2>7, <3>3
      <4>3. CASE rOpen
        BY <2>5, <3>1, <4>1, <4>2, <4>3, <3>3
      <4>4. CASE ~rOpen
        BY <2>4, <2>5, <3>2, <3>3, <4>1, <4>4
      <4>5. QED
        BY <4>3, <4>4
    <3>4. CASE ~(t = dst /\ k = di)
      <4>1. ReceivedBy(t, k)' = ReceivedBy(t, k)
        BY <3>2, <3>4
      <4>2. CASE t = src /\ ~sOpen
        <5>1. comm_hashmap'[t] = d
          BY <2>5, <4>2
        <5>2. QED
          BY <2>3, <2>8, <3>1, <4>1, <5>1
      <4>3. CASE ~(t = src /\ ~sOpen) /\ t = dst /\ ~rOpen
        <5>1. comm_hashmap'[t] = e /\ k # di
          BY <2>5, <3>4, <4>3
        <5>2. QED
          BY <2>4, <2>8, <3>1, <4>1, <5>1
      <4>4. CASE ~(t = src /\ ~sOpen) /\ ~(t = dst /\ ~rOpen)
        BY <2>5, <3>1, <4>1, <4>4
      <4>5. QED
        BY <4>2, <4>3, <4>4
    <3>5. QED
      BY <3>3, <3>4
  <2>11. QED
    BY <2>6, <2>9, <2>10 DEF CommMapInv
<1>10. MessagesInv'
  <2>1. \A m \in 1..Len(comms') : comms'[m].src # comms'[m].dst
    BY <1>4 DEF MessagesInv
  <2>2. ASSUME NEW t \in Task, NEW k \in Call,
               NEW l \in SentBy(t, k)' \cup ReceivedBy(t, k)',
               NEW m \in SentBy(t, k)' \cup ReceivedBy(t, k)'
        PROVE  l = m
    <3>1. /\ SentBy(t, k)' = IF t = src /\ k = si THEN {n} ELSE SentBy(t, k)
          /\ ReceivedBy(t, k)' = IF t = dst /\ k = di THEN {n} ELSE ReceivedBy(t, k)
      BY <1>4
    <3>2. CASE t = src /\ k = si
      BY <1>4, <3>1, <3>2
    <3>3. CASE t = dst /\ k = di
      BY <1>4, <3>1, <3>3
    <3>4. CASE ~(t = src /\ k = si) /\ ~(t = dst /\ k = di)
      BY <3>1, <3>4 DEF MessagesInv
    <3>5. QED
      BY <3>2, <3>3, <3>4
  <2>3. QED
    BY <2>1, <2>2 DEF MessagesInv
<1>11. QED
  BY <1>6, <1>7, <1>8, <1>9, <1>10 DEF MapsInv

-----------------------------------------------------------------------------
(* Partners. *)

(* The processes that the calls of task t with signature p have exchanged    *)
(* messages with, and those that its k-th call has sent to.                  *)
PartnersOf(t, p) == {comms[n].dst : n \in Sends(t, p)} \cup {comms[n].src : n \in Recvs(t, p)}
Receivers(t, k)  == {comms[n].dst : n \in SentBy(t, k)}
Senders(t, k)    == {comms[n].src : n \in ReceivedBy(t, k)}

(* A callstack has the partners of its repetitions, and an open call those   *)
(* that it has sent to.                                                      *)
PartnersInv(t) ==
  /\ \A p \in DOMAIN callstack_pool[t] : Pooled(t, p).partner = PartnersOf(t, p)
  /\ mpi_opened[t] => objs[t][Len(calls[t])].partner = Receivers(t, Len(calls[t]))

LEMMA OthersKeepPartners ==
  ASSUME NEW t \in Task, SameCalls(t), UNCHANGED comms, PartnersInv(t)
  PROVE  PartnersInv(t)'
<1>1. Over(t)' = Over(t)
  BY DEF Over, SameCalls
<1>2. \A p : PartnersOf(t, p)' = PartnersOf(t, p)
  BY <1>1 DEF PartnersOf, Sends, Recvs, SameCalls
<1>3. \A k : Receivers(t, k)' = Receivers(t, k)
  BY DEF Receivers, SentBy
<1>4. \A p : Pooled(t, p)' = Pooled(t, p)
  BY DEF Pooled, SameCalls
<1>5. QED
  BY <1>2, <1>3, <1>4 DEF PartnersInv, SameCalls

LEMMA PartnersEntry ==
  ASSUME Types, MapsInv, MessagesInv, \A u \in Task : PartnersInv(u),
         NEW t \in Task, NEW p \in Path, NEW hwc \in BOOLEAN, Entry(t, p, hwc), ~failed'
  PROVE  \A u \in Task : PartnersInv(u)'
<1> DEFINE n     == Len(calls[t])
           k     == n + 1
           known == EntryTime(k) \in DOMAIN comm_hashmap[t]
           m     == comm_hashmap[t][EntryTime(k)]
<1>1. /\ ~mpi_opened[t] /\ k \in Call
      /\ \A u \in Task : u # t => SameOf(u)
      /\ UNCHANGED <<comms, callstack_pool, mpi_fini_hashmap, burst_last, failed, finished>>
  BY EntryOfTask, ZenonT(60)
<1>2. PICK cs \in Callstack :
        /\ objs'[t] = Append(objs[t], cs)
        /\ Len(cs.instants) = 1 /\ cs.sizes = <<>> /\ cs.already_with_size = 1
        /\ cs.partner = IF known THEN {comms[m].dst} ELSE {}
  BY EntryOfTask, ZenonT(60)
<1>3. /\ Over(t)' = Over(t) /\ Over(t) = n /\ Len(calls'[t]) = k
      /\ \A i \in 1..n : calls'[t][i] = calls[t][i]
      /\ \A i : SentBy(t, i)' = SentBy(t, i) /\ ReceivedBy(t, i)' = ReceivedBy(t, i)
  BY EntryCalls
<1>4. /\ n \in Nat /\ objs[t] \in Seq(Callstack) /\ Len(objs[t]) = n
      /\ \A i \in 1..Len(comms) : comms[i] \in Message
  BY TaskFacts
<1>5. PoolInv(t) /\ CommMapInv(t) /\ PartnersInv(t)
  BY DEF MapsInv
<1>6. PartnersInv(t)'
  <2>1. \A q : PartnersOf(t, q)' = PartnersOf(t, q)
    <3>1. \A i \in 1..Len(comms) : /\ comms[i].si <= n => comms[i].si \in 1..n
                                   /\ comms[i].di <= n => comms[i].di \in 1..n
      BY <1>4 DEF Message, Call
    <3>2. ASSUME NEW q
          PROVE  Sends(t, q)' = Sends(t, q) /\ Recvs(t, q)' = Recvs(t, q)
      <4> HIDE DEF n
      <4>1. QED
        BY <1>1, <1>3, <3>1 DEF Sends, Recvs
    <3>3. QED
      BY <1>1, <3>2 DEF PartnersOf
  <2>2. \A q \in DOMAIN callstack_pool[t] : Pooled(t, q)' = Pooled(t, q)
    <3>1. \A q \in DOMAIN callstack_pool[t] : callstack_pool[t][q] \in 1..n
      BY <1>3, <1>5 DEF PoolInv
    <3>2. \A i \in 1..n : objs'[t][i] = objs[t][i]
      BY <1>2, <1>4
    <3> HIDE DEF n
    <3>3. QED
      BY <1>1, <3>1, <3>2 DEF Pooled
  <2>3. objs'[t][k].partner = Receivers(t, k) /\ \A j : Receivers(t, j)' = Receivers(t, j)
    <3>1. objs'[t][k] = cs
      BY <1>2, <1>4
    <3>2. \A j : Receivers(t, j)' = Receivers(t, j)
      BY <1>1 DEF Receivers, SentBy
    <3>3. known <=> SentBy(t, k) # {}
      BY <1>1, <1>4, <1>5 DEF CommMapInv
    <3>4. known => m \in SentBy(t, k)
      BY <1>1, <1>5 DEF CommMapInv
    <3>5. \A i, j \in SentBy(t, k) : i = j
      BY <1>1 DEF MessagesInv
    <3> HIDE DEF known, m, k
    <3>6. Receivers(t, k) = IF known THEN {comms[m].dst} ELSE {}
      BY <3>3, <3>4, <3>5 DEF Receivers
    <3>7. QED
      BY <1>2, <3>1, <3>2, <3>6
  <2>4. \A q \in DOMAIN callstack_pool'[t] : Pooled(t, q)'.partner = PartnersOf(t, q)'
    BY <1>1, <1>5, <2>1, <2>2 DEF PartnersInv
  <2> HIDE DEF k, n
  <2>5. QED
    BY <1>3, <2>3, <2>4 DEF PartnersInv
<1>7. ASSUME NEW u \in Task, u # t
      PROVE  PartnersInv(u)'
  BY <1>1, <1>7, OthersKeepPartners DEF SameOf
<1>8. QED
  BY <1>6, <1>7

LEMMA PartnersExit ==
  ASSUME Types, MapsInv, MessagesInv, \A u \in Task : PartnersInv(u),
         NEW t \in Task, NEW hwc \in BOOLEAN, Exit(t, hwc), ~failed'
  PROVE  \A u \in Task : PartnersInv(u)'
<1> DEFINE n     == Len(calls[t])
           p     == calls[t][n]
           had   == p \in DOMAIN callstack_pool[t]
           o     == IF had THEN callstack_pool[t][p] ELSE n
           known == ExitTime(n) \in DOMAIN comm_hashmap[t]
           m     == comm_hashmap[t][ExitTime(n)]
<1>1. /\ n \in Call /\ mpi_opened[t] /\ mpi_opened'[t] = FALSE
      /\ \A u \in Task : u # t => SameOf(u)
      /\ UNCHANGED <<calls, comms, finished>>
  BY ExitOfTask
<1>2. PICK cs \in Callstack, new \in Callstack :
        /\ IF had THEN Merged(cs, objs[t][o], objs[t][n]) ELSE cs = objs[t][n]
        /\ failed' = (known /\ ~CanTakeSize(cs))
        /\ IF known /\ ~failed' THEN TookMessage(new, cs, comms[m].src, comms[m].size) ELSE new = cs
        /\ objs'[t] = [objs[t] EXCEPT ![o] = new]
  BY ExitOfTask
<1>3. PoolInv(t) /\ CommMapInv(t) /\ PartnersInv(t)
  BY DEF MapsInv
<1>4. /\ n \in Nat /\ n # 0 /\ Over(t) = n - 1 /\ Over(t)' = n
      /\ \A i \in 1..n : i <= n - 1 \/ i = n
      /\ o \in 1..n /\ calls[t][o] = p
      /\ callstack_pool'[t] = Put(callstack_pool[t], p, o)
  BY <1>3, ExitCalls
<1>5. /\ objs[t] \in Seq(Callstack) /\ Len(objs[t]) = n
      /\ \A i \in 1..Len(comms) : comms[i] \in Message
  BY TaskFacts
<1>6. /\ DOMAIN callstack_pool[t] = {calls[t][i] : i \in 1..(n - 1)}
      /\ \A q \in DOMAIN callstack_pool[t] : /\ callstack_pool[t][q] \in 1..(n - 1)
                                             /\ calls[t][callstack_pool[t][q]] = q
  BY <1>3, <1>4 DEF PoolInv
<1>7. objs'[t][o] = new /\ \A i \in 1..n : i # o => objs'[t][i] = objs[t][i]
  <2> HIDE DEF o
  <2>1. QED
    BY <1>2, <1>4, <1>5
<1>8. /\ DOMAIN callstack_pool'[t] = DOMAIN callstack_pool[t] \cup {p}
      /\ callstack_pool'[t][p] = o
      /\ \A q \in DOMAIN callstack_pool[t] : q # p => callstack_pool'[t][q] = callstack_pool[t][q]
  BY <1>4 DEF Put
<1>9. new.partner = (IF had THEN Pooled(t, p).partner ELSE {}) \cup objs[t][n].partner
                      \cup (IF known THEN {comms[m].src} ELSE {})
  <2>1. cs.partner = (IF had THEN Pooled(t, p).partner ELSE {}) \cup objs[t][n].partner
    <3>1. CASE had
      <4>1. o = callstack_pool[t][p]
        BY <3>1
      <4>2. cs.partner = objs[t][o].partner \cup objs[t][n].partner
        BY <1>2, <3>1 DEF Merged
      <4> HIDE DEF o, p, n
      <4>3. QED
        BY <3>1, <4>1, <4>2 DEF Pooled
    <3>2. CASE ~had
      BY <1>2, <3>2
    <3>3. QED
      BY <3>1, <3>2
  <2>2. new.partner = cs.partner \cup (IF known THEN {comms[m].src} ELSE {})
    <3> HIDE DEF known, m, had, o, p, n
    <3>1. QED
      BY <1>2 DEF TookMessage
  <2> HIDE DEF known, m, had, p, n
  <2>3. QED
    BY <2>1, <2>2
<1>10. Senders(t, n) = IF known THEN {comms[m].src} ELSE {}
  <2>1. known <=> ReceivedBy(t, n) # {}
    BY <1>1, <1>3, <1>4 DEF CommMapInv
  <2>2. known => m \in ReceivedBy(t, n)
    BY <1>1, <1>3 DEF CommMapInv
  <2>3. \A i, j \in ReceivedBy(t, n) : i = j
    BY <1>1 DEF MessagesInv
  <2> HIDE DEF known, m, n
  <2>4. QED
    BY <2>1, <2>2, <2>3 DEF Senders
<1>11. objs[t][n].partner = Receivers(t, n)
  BY <1>1, <1>3 DEF PartnersInv
<1>12. (IF had THEN Pooled(t, p).partner ELSE {}) = PartnersOf(t, p)
  <2>1. CASE had
    BY <1>3, <2>1 DEF PartnersInv
  <2>2. CASE ~had
    <3>1. Sends(t, p) = {} /\ Recvs(t, p) = {}
      <4>1. \A i \in 1..(n - 1) : calls[t][i] # p
        BY <1>6, <2>2
      <4>2. \A i \in 1..Len(comms) : /\ comms[i].si <= n - 1 => comms[i].si \in 1..(n - 1)
                                     /\ comms[i].di <= n - 1 => comms[i].di \in 1..(n - 1)
        BY <1>5 DEF Message, Call
      <4> HIDE DEF n, p
      <4>3. QED
        BY <1>4, <4>1, <4>2 DEF Sends, Recvs
    <3>2. QED
      BY <2>2, <3>1 DEF PartnersOf
  <2>3. QED
    BY <2>1, <2>2
<1>13. ASSUME NEW q
       PROVE  PartnersOf(t, q)' = IF q = p THEN PartnersOf(t, p) \cup Receivers(t, n) \cup Senders(t, n)
                                  ELSE PartnersOf(t, q)
  <2>1. \A i \in 1..Len(comms) : /\ comms[i].si <= n <=> comms[i].si <= n - 1 \/ comms[i].si = n
                                 /\ comms[i].di <= n <=> comms[i].di <= n - 1 \/ comms[i].di = n
    BY <1>4, <1>5 DEF Message, Call
  <2> HIDE DEF n
  <2>2. calls[t][n] = p
    OBVIOUS
  <2> HIDE DEF p
  <2>3. /\ Sends(t, q)' = IF q = p THEN Sends(t, p) \cup SentBy(t, n) ELSE Sends(t, q)
        /\ Recvs(t, q)' = IF q = p THEN Recvs(t, p) \cup ReceivedBy(t, n) ELSE Recvs(t, q)
    BY <1>1, <1>4, <2>1, <2>2 DEF Sends, Recvs, SentBy, ReceivedBy
  <2>4. QED
    BY <1>1, <2>3 DEF PartnersOf, Receivers, Senders
<1>14. ASSUME NEW q \in DOMAIN callstack_pool'[t]
       PROVE  Pooled(t, q)'.partner = PartnersOf(t, q)'
  <2> HIDE DEF had, known, m
  <2>1. CASE q = p
    <3>1. Pooled(t, q)' = new
      <4> HIDE DEF o, p, n
      <4>1. QED
        BY <1>7, <1>8, <2>1 DEF Pooled
    <3> HIDE DEF p, n, o
    <3>2. QED
      BY <1>9, <1>10, <1>11, <1>12, <1>13, <2>1, <3>1
  <2>2. CASE q # p
    <3>1. q \in DOMAIN callstack_pool[t] /\ callstack_pool'[t][q] = callstack_pool[t][q]
      BY <1>8, <2>2
    <3>2. callstack_pool[t][q] \in 1..n /\ callstack_pool[t][q] # o
      <4>1. callstack_pool[t][q] \in 1..(n - 1) /\ calls[t][callstack_pool[t][q]] = q
        BY <1>6, <3>1
      <4> HIDE DEF o, p, n
      <4>2. QED
        BY <1>4, <2>2, <4>1
    <3> HIDE DEF o, p, n
    <3>3. Pooled(t, q)' = Pooled(t, q)
      BY <1>7, <3>1, <3>2 DEF Pooled
    <3>4. QED
      BY <1>3, <1>13, <2>2, <3>1, <3>3 DEF PartnersInv
  <2>3. QED
    BY <2>1, <2>2
<1>15. PartnersInv(t)'
  BY <1>1, <1>14 DEF PartnersInv
<1>16. ASSUME NEW u \in Task, u # t
       PROVE  PartnersInv(u)'
  BY <1>1, <1>16, OthersKeepPartners DEF SameOf
<1>17. QED
  BY <1>15, <1>16

(* The object that a communication record finds for one of its calls is the  *)
(* object of the pool for the call's signature, or that of the open call.    *)
LEMMA ObjectFound ==
  ASSUME Types, NEW t \in Task, PoolInv(t), NEW k \in Call, k <= Len(calls[t])
  PROVE  /\ \A p \in DOMAIN callstack_pool[t] :
              callstack_pool[t][p] = ObjectOf(t, k) <=> k <= Over(t) /\ calls[t][k] = p
         /\ mpi_opened[t] => (ObjectOf(t, k) = Len(calls[t]) <=> k = Len(calls[t]))
<1>1. /\ DOMAIN callstack_pool[t] = {calls[t][i] : i \in 1..Over(t)}
      /\ \A p \in DOMAIN callstack_pool[t] : /\ callstack_pool[t][p] \in 1..Over(t)
                                             /\ calls[t][callstack_pool[t][p]] = p
  BY DEF PoolInv
<1>2. /\ Len(calls[t]) \in Nat /\ Over(t) \in Nat /\ k \in Nat /\ k # 0
      /\ mpi_opened[t] => Over(t) = Len(calls[t]) - 1
  BY TaskFacts DEF Call
<1>3. CASE k <= Over(t)
  <2>1. ObjectOf(t, k) = callstack_pool[t][calls[t][k]] /\ calls[t][k] \in DOMAIN callstack_pool[t]
    BY <1>1, <1>2, <1>3 DEF ObjectOf
  <2>2. ObjectOf(t, k) \in 1..Over(t) /\ calls[t][ObjectOf(t, k)] = calls[t][k]
    BY <1>1, <2>1
  <2>3. mpi_opened[t] => ObjectOf(t, k) # Len(calls[t]) /\ k # Len(calls[t])
    BY <1>2, <1>3, <2>2
  <2>4. QED
    BY <1>1, <1>3, <2>1, <2>2, <2>3
<1>4. CASE ~(k <= Over(t))
  <2>1. ObjectOf(t, k) = k
    BY <1>4 DEF ObjectOf
  <2>2. \A p \in DOMAIN callstack_pool[t] : callstack_pool[t][p] # k
    BY <1>1, <1>2, <1>4
  <2>3. QED
    BY <1>4, <2>1, <2>2
<1>5. QED
  BY <1>3, <1>4

LEMMA PartnersComm ==
  ASSUME Types, MapsInv, MessagesInv, \A u \in Task : PartnersInv(u),
         NEW src \in Task, NEW dst \in Task, NEW si \in Call, NEW di \in Call,
         Comm(src, si, dst, di), ~failed'
  PROVE  \A u \in Task : PartnersInv(u)'
<1> DEFINE n     == Len(comms) + 1
           sOpen == si \in DOMAIN mpi_init_hashmap[src]
           so    == mpi_init_hashmap[src][si]
           rOpen == di \in DOMAIN mpi_fini_hashmap[dst]
           ro    == mpi_fini_hashmap[dst][di]
<1>1. /\ UNCHANGED <<calls, mpi_opened, callstack_pool>>
      /\ \A t \in Task : Len(objs'[t]) = Len(objs[t])
      /\ \A t \in Task : \A j \in 1..Len(objs[t]) :
           IF t = src /\ sOpen /\ j = so THEN TookMessage(objs'[t][j], objs[t][j], dst, Len(comms) + 1)
           ELSE IF t = dst /\ rOpen /\ j = ro THEN TookMessage(objs'[t][j], objs[t][j], src, Len(comms) + 1)
           ELSE objs'[t][j] = objs[t][j]
  <2>1. /\ UNCHANGED <<calls, mpi_opened, callstack_pool>>
        /\ \A t \in Task : Len(objs'[t]) = Len(objs[t])
        /\ MessageIsTaken(src, dst, si, di)
    BY CommEffect
  <2>2. QED
    BY <2>1 DEF MessageIsTaken
<1>2. /\ src # dst /\ n \in Nat /\ n \in 1..n
      /\ SentBy(src, si) = {} /\ ReceivedBy(src, si) = {}
      /\ SentBy(dst, di) = {} /\ ReceivedBy(dst, di) = {}
      /\ Len(comms') = n /\ \A m \in 1..n : m # n => m \in 1..Len(comms)
      /\ \A m \in 1..Len(comms) : m # n /\ m \in 1..n /\ comms'[m] = comms[m]
      /\ comms'[n].src = src /\ comms'[n].si = si
      /\ comms'[n].dst = dst /\ comms'[n].di = di
      /\ \A t, k : /\ SentBy(t, k)' = IF t = src /\ k = si THEN {n} ELSE SentBy(t, k)
                   /\ ReceivedBy(t, k)' = IF t = dst /\ k = di THEN {n} ELSE ReceivedBy(t, k)
  BY CommSets
<1>3. /\ sOpen <=> si <= Len(calls[src])
      /\ sOpen => so = ObjectOf(src, si)
      /\ rOpen <=> di <= Over(dst)
      /\ rOpen => ro = ObjectOf(dst, di)
  <2>1. /\ DOMAIN mpi_init_hashmap[src] = {i \in 1..Len(calls[src]) : SentBy(src, i) = {}}
        /\ \A i \in DOMAIN mpi_init_hashmap[src] : mpi_init_hashmap[src][i] = ObjectOf(src, i)
        /\ DOMAIN mpi_fini_hashmap[dst] = {i \in 1..Over(dst) : ReceivedBy(dst, i) = {}}
        /\ \A i \in DOMAIN mpi_fini_hashmap[dst] : mpi_fini_hashmap[dst][i] = ObjectOf(dst, i)
    BY DEF MapsInv, InitMapInv, FiniMapInv
  <2>2. /\ Len(calls[src]) \in Nat /\ Over(dst) \in Nat
        /\ si \in Nat /\ si # 0 /\ di \in Nat /\ di # 0
    BY TaskFacts DEF Call
  <2>3. QED
    BY <1>2, <2>1, <2>2
<1>4. ASSUME NEW t \in Task
      PROVE  Over(t)' = Over(t)
  BY <1>1 DEF Over
<1>5. ASSUME NEW t \in Task, NEW j \in 1..Len(objs[t])
      PROVE  objs'[t][j].partner = objs[t][j].partner
                                     \cup (IF t = src /\ sOpen /\ j = so THEN {dst} ELSE {})
                                     \cup (IF t = dst /\ rOpen /\ j = ro THEN {src} ELSE {})
  <2> HIDE DEF sOpen, so, rOpen, ro
  <2>1. src # dst
    BY <1>2
  <2>2. CASE t = src /\ sOpen /\ j = so
    BY <1>1, <2>1, <2>2 DEF TookMessage
  <2>3. CASE ~(t = src /\ sOpen /\ j = so) /\ t = dst /\ rOpen /\ j = ro
    BY <1>1, <2>1, <2>3 DEF TookMessage
  <2>4. CASE ~(t = src /\ sOpen /\ j = so) /\ ~(t = dst /\ rOpen /\ j = ro)
    BY <1>1, <2>4
  <2>5. QED
    BY <2>2, <2>3, <2>4
<1> HIDE DEF n, sOpen, so, rOpen, ro
<1>6. ASSUME NEW t \in Task, NEW p
      PROVE  PartnersOf(t, p)' = PartnersOf(t, p)
               \cup (IF t = src /\ si <= Over(src) /\ calls[src][si] = p THEN {dst} ELSE {})
               \cup (IF t = dst /\ di <= Over(dst) /\ calls[dst][di] = p THEN {src} ELSE {})
  <2>1. Sends(t, p)' = Sends(t, p)
          \cup (IF t = src /\ si <= Over(src) /\ calls[src][si] = p THEN {n} ELSE {})
    BY <1>1, <1>2, <1>4 DEF Sends
  <2>2. Recvs(t, p)' = Recvs(t, p)
          \cup (IF t = dst /\ di <= Over(dst) /\ calls[dst][di] = p THEN {n} ELSE {})
    BY <1>1, <1>2, <1>4 DEF Recvs
  <2>3. /\ Sends(t, p) \subseteq 1..Len(comms) /\ Recvs(t, p) \subseteq 1..Len(comms)
    BY DEF Sends, Recvs
  <2>4. {comms'[i].dst : i \in Sends(t, p)'} = {comms[i].dst : i \in Sends(t, p)}
          \cup (IF t = src /\ si <= Over(src) /\ calls[src][si] = p THEN {dst} ELSE {})
    BY <1>2, <2>1, <2>3
  <2>5. {comms'[i].src : i \in Recvs(t, p)'} = {comms[i].src : i \in Recvs(t, p)}
          \cup (IF t = dst /\ di <= Over(dst) /\ calls[dst][di] = p THEN {src} ELSE {})
    BY <1>2, <2>2, <2>3
  <2>6. PartnersOf(t, p)' = {comms'[i].dst : i \in Sends(t, p)'} \cup {comms'[i].src : i \in Recvs(t, p)'}
    BY DEF PartnersOf
  <2>7. PartnersOf(t, p) = {comms[i].dst : i \in Sends(t, p)} \cup {comms[i].src : i \in Recvs(t, p)}
    BY DEF PartnersOf
  <2>8. QED
    BY <2>4, <2>5, <2>6, <2>7
<1>7. ASSUME NEW t \in Task, NEW p \in DOMAIN callstack_pool[t]
      PROVE  Pooled(t, p)'.partner = PartnersOf(t, p)'
  <2> DEFINE j == callstack_pool[t][p]
  <2>1. j \in 1..Over(t) /\ j \in 1..Len(objs[t])
    BY TaskFacts DEF MapsInv, PoolInv
  <2>2. Pooled(t, p)' = objs'[t][j] /\ Pooled(t, p) = objs[t][j]
    BY <1>1 DEF Pooled
  <2>3. objs[t][j].partner = PartnersOf(t, p)
    BY <2>2 DEF PartnersInv
  <2>4. t = src => (sOpen /\ j = so <=> si <= Over(src) /\ calls[src][si] = p)
    <3>1. SUFFICES ASSUME t = src
                   PROVE  sOpen /\ j = so <=> si <= Over(src) /\ calls[src][si] = p
      OBVIOUS
    <3>2. PoolInv(src) /\ Over(src) \in Nat /\ Len(calls[src]) \in Nat /\ Over(src) <= Len(calls[src])
          /\ si \in Nat
      BY TaskFacts DEF MapsInv, Call
    <3>3. CASE sOpen
      <4>1. si <= Len(calls[src]) /\ so = ObjectOf(src, si)
        BY <1>3, <3>3
      <4>2. j = ObjectOf(src, si) <=> si <= Over(src) /\ calls[src][si] = p
        BY <3>1, <3>2, <4>1, ObjectFound
      <4> HIDE DEF j
      <4>3. QED
        BY <3>3, <4>1, <4>2
    <3>4. CASE ~sOpen
      BY <1>3, <3>2, <3>4
    <3>5. QED
      BY <3>3, <3>4
  <2>5. t = dst => (rOpen /\ j = ro <=> di <= Over(dst) /\ calls[dst][di] = p)
    <3>1. SUFFICES ASSUME t = dst
                   PROVE  rOpen /\ j = ro <=> di <= Over(dst) /\ calls[dst][di] = p
      OBVIOUS
    <3>2. PoolInv(dst) /\ Over(dst) \in Nat /\ Len(calls[dst]) \in Nat /\ Over(dst) <= Len(calls[dst])
          /\ di \in Nat
      BY TaskFacts DEF MapsInv, Call
    <3>3. CASE rOpen
      <4>1. di <= Over(dst) /\ di <= Len(calls[dst]) /\ ro = ObjectOf(dst, di)
        BY <1>3, <3>2, <3>3
      <4>2. j = ObjectOf(dst, di) <=> di <= Over(dst) /\ calls[dst][di] = p
        BY <3>1, <3>2, <4>1, ObjectFound
      <4> HIDE DEF j
      <4>3. QED
        BY <3>3, <4>1, <4>2
    <3>4. CASE ~rOpen
      BY <1>3, <3>2, <3>4
    <3>5. QED
      BY <3>3, <3>4
  <2> HIDE DEF j
  <2>6. objs'[t][j].partner = objs[t][j].partner
                                \cup (IF t = src /\ sOpen /\ j = so THEN {dst} ELSE {})
                                \cup (IF t = dst /\ rOpen /\ j = ro THEN {src} ELSE {})
    BY <1>5, <2>1
  <2>7. PartnersOf(t, p)' = PartnersOf(t, p)
               \cup (IF t = src /\ si <= Over(src) /\ calls[src][si] = p THEN {dst} ELSE {})
               \cup (IF t = dst /\ di <= Over(dst) /\ calls[dst][di] = p THEN {src} ELSE {})
    BY <1>6
  <2>8. QED
    BY <2>2, <2>3, <2>4, <2>5, <2>6, <2>7
<1>8. ASSUME NEW t \in Task, mpi_opened[t]
      PROVE  objs'[t][Len(calls[t])].partner = Receivers(t, Len(calls[t]))'
  <2> DEFINE k == Len(calls[t])
  <2>1. /\ k \in 1..Len(objs[t]) /\ k \in Nat /\ Over(t) = k - 1 /\ PoolInv(t)
    BY <1>8, TaskFacts DEF MapsInv
  <2>2. objs[t][k].partner = Receivers(t, k)
    BY <1>8 DEF PartnersInv
  <2>3. t = src => (sOpen /\ k = so <=> k = si)
    <3>1. SUFFICES ASSUME t = src
                   PROVE  sOpen /\ k = so <=> k = si
      OBVIOUS
    <3>2. si \in Nat
      BY DEF Call
    <3>3. CASE sOpen
      <4>1. si <= Len(calls[t]) /\ so = ObjectOf(t, si)
        BY <1>3, <3>1, <3>3
      <4>2. ObjectOf(t, si) = k <=> si = k
        BY <1>8, <2>1, <4>1, ObjectFound
      <4> HIDE DEF k
      <4>3. QED
        BY <3>3, <4>1, <4>2
    <3>4. CASE ~sOpen
      BY <1>3, <2>1, <3>1, <3>2, <3>4
    <3>5. QED
      BY <3>3, <3>4
  <2>4. t = dst => ~(rOpen /\ k = ro)
    <3>1. SUFFICES ASSUME t = dst, rOpen
                   PROVE  k # ro
      OBVIOUS
    <3>2. di \in Nat
      BY DEF Call
    <3>3. di <= Len(calls[t]) /\ di # k /\ ro = ObjectOf(t, di)
      BY <1>3, <2>1, <3>1, <3>2
    <3>4. ObjectOf(t, di) = k <=> di = k
      BY <1>8, <2>1, <3>3, ObjectFound
    <3> HIDE DEF k
    <3>5. QED
      BY <3>3, <3>4
  <2> HIDE DEF k
  <2>5. objs'[t][k].partner = objs[t][k].partner
                                \cup (IF t = src /\ sOpen /\ k = so THEN {dst} ELSE {})
                                \cup (IF t = dst /\ rOpen /\ k = ro THEN {src} ELSE {})
    BY <1>5, <2>1
  <2>6. ASSUME NEW i
        PROVE  Receivers(t, i)' = IF t = src /\ i = si THEN {dst} ELSE Receivers(t, i)
    <3>1. SentBy(t, i)' = IF t = src /\ i = si THEN {n} ELSE SentBy(t, i)
      BY <1>2
    <3>2. SentBy(t, i) \subseteq 1..Len(comms)
      BY DEF SentBy
    <3>3. QED
      BY <1>2, <3>1, <3>2 DEF Receivers
  <2>7. t = src => Receivers(t, si) = {}
    BY <1>2 DEF Receivers
  <2>8. Len(calls'[t]) = Len(calls[t])
    BY <1>1
  <2>9. objs'[t][k].partner = IF t = src /\ k = si THEN {dst} ELSE Receivers(t, k)
    BY <2>2, <2>3, <2>4, <2>5, <2>7
  <2>10. QED
    BY <2>6, <2>8, <2>9 DEF k
<1>9. QED
  BY <1>1, <1>7, <1>8 DEF PartnersInv

LEMMA MapsFinish ==
  ASSUME Types, MapsInv, MessagesInv, Finish
  PROVE  MapsInv' /\ MessagesInv'
<1>1. UNCHANGED <<calls, comms, mpi_opened, callstack_pool, comm_hashmap, mpi_init_hashmap,
                  mpi_fini_hashmap>>
  BY FinishEffect
<1>2. ASSUME NEW t \in Task
      PROVE  (PoolInv(t) /\ InitMapInv(t) /\ FiniMapInv(t) /\ CommMapInv(t))'
  <2>1. PoolInv(t) /\ InitMapInv(t) /\ FiniMapInv(t) /\ CommMapInv(t)
    BY DEF MapsInv
  <2>2. Over(t)' = Over(t)
    BY <1>1 DEF Over
  <2>3. \A k : SentBy(t, k)' = SentBy(t, k) /\ ReceivedBy(t, k)' = ReceivedBy(t, k)
    BY <1>1 DEF SentBy, ReceivedBy
  <2>4. \A k : ObjectOf(t, k)' = ObjectOf(t, k)
    BY <1>1, <2>2 DEF ObjectOf
  <2>5. PoolInv(t)'
    BY <1>1, <2>1, <2>2 DEF PoolInv
  <2>6. InitMapInv(t)' /\ FiniMapInv(t)'
    BY <1>1, <2>1, <2>2, <2>3, <2>4 DEF InitMapInv, FiniMapInv
  <2>7. CommMapInv(t)'
    BY <1>1, <2>1, <2>2, <2>3 DEF CommMapInv
  <2>8. QED
    BY <2>5, <2>6, <2>7
<1>3. MapsInv'
  BY <1>2 DEF MapsInv
<1>4. QED
  BY <1>1, <1>3, MessagesKept

LEMMA PartnersFinish ==
  ASSUME Types, MapsInv, \A u \in Task : PartnersInv(u), Finish
  PROVE  \A u \in Task : PartnersInv(u)'
<1>1. /\ UNCHANGED <<calls, comms, mpi_opened, callstack_pool>>
      /\ \A t \in Task : \A j \in 1..Len(objs[t]) : objs'[t][j].partner = objs[t][j].partner
  BY FinishEffect
<1>2. ASSUME NEW t \in Task
      PROVE  PartnersInv(t)'
  <2>1. PoolInv(t) /\ PartnersInv(t)
    BY <1>2 DEF MapsInv
  <2>2. Over(t)' = Over(t)
    BY <1>1 DEF Over
  <2>3. \A p : PartnersOf(t, p)' = PartnersOf(t, p)
    BY <1>1, <2>2 DEF PartnersOf, Sends, Recvs
  <2>4. \A k : Receivers(t, k)' = Receivers(t, k)
    BY <1>1 DEF Receivers, SentBy
  <2>5. /\ \A p \in DOMAIN callstack_pool[t] : callstack_pool[t][p] \in 1..Len(objs[t])
        /\ mpi_opened[t] => Len(calls[t]) \in 1..Len(objs[t])
    BY <2>1, TaskFacts DEF PoolInv
  <2>6. \A p \in DOMAIN callstack_pool[t] : Pooled(t, p)'.partner = Pooled(t, p).partner
    BY <1>1, <2>5 DEF Pooled
  <2>7. mpi_opened[t] => objs'[t][Len(calls[t])].partner = objs[t][Len(calls[t])].partner
    BY <1>1, <2>5
  <2>8. QED
    BY <1>1, <2>1, <2>3, <2>4, <2>6, <2>7 DEF PartnersInv
<1>3. QED
  BY <1>2

(* The invariant: as long as no exception was raised, the dictionaries hold  *)
(* what the calls and the communications read so far make of them.           *)
PartInv == /\ Types
           /\ ~failed => MapsInv /\ MessagesInv /\ \A t \in Task : PartnersInv(t)

LEMMA PartInit ==
  ASSUME Init
  PROVE  PartInv
<1>1. Types /\ comms = <<>> /\ Len(comms) = 0
  BY TypesInit DEF Init
<1>2. MessagesInv
  BY <1>1 DEF MessagesInv, SentBy, ReceivedBy
<1>3. ASSUME NEW t \in Task
      PROVE  /\ Over(t) = 0 /\ Len(calls[t]) = 0 /\ ~mpi_opened[t]
             /\ DOMAIN callstack_pool[t] = {} /\ DOMAIN comm_hashmap[t] = {}
             /\ DOMAIN mpi_init_hashmap[t] = {} /\ DOMAIN mpi_fini_hashmap[t] = {}
             /\ \A k : SentBy(t, k) = {} /\ ReceivedBy(t, k) = {}
  <2>1. /\ calls[t] = <<>> /\ mpi_opened[t] = FALSE /\ callstack_pool[t] = <<>>
        /\ comm_hashmap[t] = <<>> /\ mpi_init_hashmap[t] = <<>> /\ mpi_fini_hashmap[t] = <<>>
    BY DEF Init
  <2>2. DOMAIN <<>> = {} /\ Len(<<>>) = 0
    OBVIOUS
  <2>3. QED
    BY <1>1, <2>1, <2>2 DEF Over, SentBy, ReceivedBy
<1>4. ASSUME NEW t \in Task
      PROVE  PoolInv(t) /\ InitMapInv(t) /\ FiniMapInv(t) /\ CommMapInv(t) /\ PartnersInv(t)
  BY <1>3 DEF PoolInv, InitMapInv, FiniMapInv, CommMapInv, PartnersInv
<1>5. QED
  BY <1>1, <1>2, <1>4 DEF PartInv, MapsInv

LEMMA PartStep ==
  ASSUME PartInv, [Next]_vars
  PROVE  PartInv'
<1>1. Types /\ Types'
  BY TypesStep DEF PartInv
<1>2. ASSUME ~failed', Next
      PROVE  (MapsInv /\ MessagesInv /\ \A t \in Task : PartnersInv(t))'
  <2>1. ~failed
    BY <1>2 DEF Next, Start, Entry, Exit, Comm, Finish, Reading
  <2>2. MapsInv /\ MessagesInv /\ \A t \in Task : PartnersInv(t)
    BY <2>1 DEF PartInv
  <2>3. ASSUME NEW t \in Task, NEW p \in Path, NEW hwc \in BOOLEAN, Entry(t, p, hwc)
        PROVE  MapsInv' /\ MessagesInv' /\ \A u \in Task : PartnersInv(u)'
    BY <1>1, <1>2, <2>2, <2>3, MapsEntry, PartnersEntry
  <2>4. ASSUME NEW t \in Task, NEW hwc \in BOOLEAN, Exit(t, hwc)
        PROVE  MapsInv' /\ MessagesInv' /\ \A u \in Task : PartnersInv(u)'
    BY <1>1, <1>2, <2>2, <2>4, MapsExit, PartnersExit
  <2>5. ASSUME NEW src \in Task, NEW dst \in Task, NEW si \in Call, NEW di \in Call,
               Comm(src, si, dst, di)
        PROVE  MapsInv' /\ MessagesInv' /\ \A u \in Task : PartnersInv(u)'
    BY <1>1, <1>2, <2>2, <2>5, MapsComm, PartnersComm
  <2>6. ASSUME Finish
        PROVE  MapsInv' /\ MessagesInv' /\ \A u \in Task : PartnersInv(u)'
    BY <1>1, <2>2, <2>6, MapsFinish, PartnersFinish
  <2>7. ASSUME NEW t \in Task, Start(t)
        PROVE  MapsInv' /\ MessagesInv' /\ \A u \in Task : PartnersInv(u)'
    <3>1. UNCHANGED <<comms, mpi_fini_hashmap>> /\ \A u : SameCalls(u)
      BY <1>1, <2>7, StartEffect DEF SameCalls
    <3>2. ASSUME NEW u \in Task
          PROVE  /\ PartnersInv(u)'
                 /\ (PoolInv(u) /\ InitMapInv(u) /\ FiniMapInv(u) /\ CommMapInv(u))'
      BY <2>2, <3>1, OthersKeepMaps, OthersKeepPartners DEF MapsInv
    <3>3. QED
      BY <2>2, <3>1, <3>2, MessagesKept DEF MapsInv
  <2>8. QED
    BY <1>2, <2>3, <2>4, <2>5, <2>6, <2>7 DEF Next
<1>3. ASSUME UNCHANGED vars
      PROVE  PartInv'
  <2>1. /\ UNCHANGED <<comms, mpi_fini_hashmap, failed>>
        /\ \A t : SameOf(t)
    BY <1>3 DEF vars, SameOf, SameCalls
  <2>2. SUFFICES ASSUME MapsInv, MessagesInv, \A t \in Task : PartnersInv(t)
                 PROVE  (MapsInv /\ MessagesInv /\ \A t \in Task : PartnersInv(t))'
    BY <1>1, <2>1 DEF PartInv
  <2>3. ASSUME NEW t \in Task
        PROVE  /\ PartnersInv(t)'
               /\ (PoolInv(t) /\ InitMapInv(t) /\ FiniMapInv(t) /\ CommMapInv(t))'
    BY <2>1, <2>2, OthersKeepMaps, OthersKeepPartners DEF MapsInv, SameOf
  <2>4. QED
    BY <2>1, <2>2, <2>3, MessagesKept DEF MapsInv
<1>4. QED
  BY <1>1, <1>2, <1>3 DEF PartInv

(* PartnersExact of CallstacksParser: in whatever order a communication and  *)
(* the two calls it joins are read, and whatever was merged in between, a    *)
(* callstack of the pool has the partners of its repetitions, and no other   *)
(* (set_partner, merge and the dictionaries of __comms_handler).             *)
THEOREM PartnersCorrect == Spec => []PartnersExact
<1>1. Init => PartInv
  BY PartInit
<1>2. PartInv /\ [Next]_vars => PartInv'
  BY PartStep
<1>3. PartInv => PartnersExact
  BY DEF PartInv, PartnersInv, PartnersOf, PartnersExact
<1>4. QED
  BY <1>1, <1>2, <1>3, PTL DEF Spec

-----------------------------------------------------------------------------
(* Sizes: the index of add_mpi_msg_size. *)

(* A callstack has a size for each repetition, its index is in the list, and *)
(* that of an open call has no list yet.                                     *)
Indexed(cs) == /\ Repetitions(cs) # 0 /\ cs.already_with_size \in 1..Repetitions(cs)
               /\ Len(cs.sizes) = IF Repetitions(cs) = 1 THEN 0 ELSE Repetitions(cs)

Fresh(cs) == Repetitions(cs) = 1 /\ Indexed(cs)

(* The callstack of the last call, when it has not got its message yet, has  *)
(* room for one more size.                                                   *)
SizesInv(t) ==
  /\ \A p \in DOMAIN callstack_pool[t] : Indexed(Pooled(t, p))
  /\ mpi_opened[t] => Fresh(objs[t][Len(calls[t])])
  /\ ~mpi_opened[t] /\ Len(calls[t]) # 0 /\ ReceivedBy(t, Len(calls[t])) = {}
       => CanTakeSize(Pooled(t, calls[t][Len(calls[t])]))

(* burst_last has no counters only if the last exit record had none, or no   *)
(* call and no other record with counters was read.                          *)
BurstInv(t) == burst_last[t] = 0 /\ ~mpi_opened[t] => NoCountersBefore(t)

LEMMA FreshCanTake ==
  ASSUME NEW cs, Fresh(cs)
  PROVE  CanTakeSize(cs)
BY DEF Fresh, CanTakeSize

LEMMA TookIndexed ==
  ASSUME NEW cs \in Callstack, NEW new, NEW q, NEW size, TookMessage(new, cs, q, size), Indexed(cs),
         CanTakeSize(cs)
  PROVE  Indexed(new) /\ (Fresh(cs) => Fresh(new))
<1>1. /\ cs.instants \in Seq(Call) /\ cs.sizes \in Seq(Nat) /\ cs.already_with_size \in Nat
      /\ Len(cs.instants) \in Nat /\ Len(cs.sizes) \in Nat
  BY DEF Callstack
<1>2. /\ Repetitions(new) = Repetitions(cs) /\ Len(new.sizes) = Len(cs.sizes)
      /\ new.already_with_size = IF Repetitions(cs) = 1 THEN cs.already_with_size
                                 ELSE cs.already_with_size + 1
  BY DEF TookMessage, Repetitions
<1>3. Repetitions(cs) \in Nat
  BY <1>1 DEF Repetitions
<1>4. QED
  BY <1>1, <1>2, <1>3 DEF Indexed, Fresh, CanTakeSize

LEMMA MergedIndexed ==
  ASSUME NEW cs \in Callstack, NEW ended \in Callstack, NEW new, Merged(new, cs, ended),
         Indexed(cs), Fresh(ended)
  PROVE  Indexed(new) /\ CanTakeSize(new)
<1>1. /\ cs.sizes \in Seq(Nat) /\ Len(cs.sizes) \in Nat /\ cs.already_with_size \in Nat
      /\ cs.instants \in Seq(Call) /\ Len(cs.instants) \in Nat
  <2>1. cs.sizes \in Seq(Nat) /\ cs.already_with_size \in Nat /\ cs.instants \in Seq(Call)
    BY DEF Callstack
  <2> HIDE DEF Callstack
  <2>2. QED
    BY <2>1
<1>2. cs.sizes = <<>> <=> Len(cs.sizes) = 0
  BY <1>1
<1>3. /\ Repetitions(new) = Repetitions(cs) + 1
      /\ Len(new.sizes) = IF Len(cs.sizes) = 0 THEN 2 ELSE Len(cs.sizes) + 1
      /\ new.already_with_size = cs.already_with_size
      /\ Repetitions(cs) \in Nat
  BY <1>1, <1>2 DEF Merged, Fresh, Repetitions
<1>4. QED
  BY <1>1, <1>3 DEF Indexed, CanTakeSize

LEMMA OthersKeepSizes ==
  ASSUME NEW t \in Task, SameOf(t), UNCHANGED <<comms, started>>, missing \subseteq missing',
         SizesInv(t), BurstInv(t)
  PROVE  SizesInv(t)' /\ BurstInv(t)'
<1>1. \A p : Pooled(t, p)' = Pooled(t, p)
  BY DEF Pooled, SameOf, SameCalls
<1>2. \A k : ReceivedBy(t, k)' = ReceivedBy(t, k)
  BY DEF ReceivedBy
<1>3. QED
  BY <1>1, <1>2 DEF SizesInv, BurstInv, NoCountersBefore, SameOf, SameCalls

LEMMA SizesEntry ==
  ASSUME Types, MapsInv, \A u \in Task : SizesInv(u) /\ BurstInv(u),
         NEW t \in Task, NEW p \in Path, NEW hwc \in BOOLEAN, Entry(t, p, hwc), ~failed'
  PROVE  \A u \in Task : SizesInv(u)' /\ BurstInv(u)'
<1> DEFINE n     == Len(calls[t])
           k     == n + 1
           known == EntryTime(k) \in DOMAIN comm_hashmap[t]
           m     == comm_hashmap[t][EntryTime(k)]
<1>1. /\ \A u \in Task : u # t => SameOf(u)
      /\ mpi_opened'[t] = TRUE
      /\ missing \subseteq missing'
      /\ UNCHANGED <<comms, callstack_pool, mpi_fini_hashmap, burst_last, failed, finished>>
  BY EntryOfTask, ZenonT(60)
<1>2. PICK cs \in Callstack :
        /\ objs'[t] = Append(objs[t], cs)
        /\ Len(cs.instants) = 1 /\ cs.sizes = <<>> /\ cs.already_with_size = 1
        /\ cs.partner = IF known THEN {comms[m].dst} ELSE {}
  BY EntryOfTask, ZenonT(60)
<1>3. /\ Over(t) = n /\ Len(calls'[t]) = k /\ n \in Nat
      /\ objs[t] \in Seq(Callstack) /\ Len(objs[t]) = n
  BY EntryCalls, TaskFacts
<1>4. \A i \in 1..n : objs'[t][i] = objs[t][i]
  BY <1>2, <1>3
<1>5. objs'[t][k] = cs
  BY <1>2, <1>3
<1>6. \A q \in DOMAIN callstack_pool[t] : Pooled(t, q)' = Pooled(t, q)
  <2>1. \A q \in DOMAIN callstack_pool[t] : callstack_pool[t][q] \in 1..n
    BY <1>3 DEF MapsInv, PoolInv
  <2> HIDE DEF n
  <2>2. QED
    BY <1>1, <1>4, <2>1 DEF Pooled
<1>7. Fresh(cs)
  BY <1>2 DEF Fresh, Indexed, Repetitions
<1>8. SizesInv(t)' /\ BurstInv(t)'
  <2> HIDE DEF n, k
  <2>1. QED
    BY <1>1, <1>3, <1>5, <1>6, <1>7 DEF SizesInv, BurstInv
<1>9. ASSUME NEW u \in Task, u # t
      PROVE  SizesInv(u)' /\ BurstInv(u)'
  BY <1>1, <1>9, EntryStarts, OthersKeepSizes
<1>10. QED
  BY <1>8, <1>9

LEMMA SizesExit ==
  ASSUME Types, MapsInv, \A u \in Task : SizesInv(u) /\ BurstInv(u),
         NEW t \in Task, NEW hwc \in BOOLEAN, Exit(t, hwc)
  PROVE  ~failed' /\ \A u \in Task : SizesInv(u)' /\ BurstInv(u)'
<1> DEFINE n     == Len(calls[t])
           p     == calls[t][n]
           had   == p \in DOMAIN callstack_pool[t]
           o     == IF had THEN callstack_pool[t][p] ELSE n
           known == ExitTime(n) \in DOMAIN comm_hashmap[t]
           m     == comm_hashmap[t][ExitTime(n)]
<1>1. /\ n \in Call /\ mpi_opened[t] /\ mpi_opened'[t] = FALSE
      /\ o \in 1..Len(objs[t])
      /\ \A u \in Task : u # t => SameOf(u)
      /\ burst_last'[t] = IF hwc THEN CallWork(n) ELSE 0
      /\ missing' = IF hwc THEN missing ELSE missing \cup {<<t, ExitTime(n)>>}
      /\ UNCHANGED <<calls, comms, finished>>
  BY ExitOfTask
<1>2. PICK cs \in Callstack, new \in Callstack :
        /\ IF had THEN Merged(cs, objs[t][o], objs[t][n]) ELSE cs = objs[t][n]
        /\ failed' = (known /\ ~CanTakeSize(cs))
        /\ IF known /\ ~failed' THEN TookMessage(new, cs, comms[m].src, comms[m].size) ELSE new = cs
        /\ objs'[t] = [objs[t] EXCEPT ![o] = new]
  BY ExitOfTask
<1>3. callstack_pool'[t] = Put(callstack_pool[t], p, o)
  BY ExitOfTask
<1>4. /\ n \in Nat /\ n \in 1..Len(objs[t]) /\ Over(t) = n - 1
      /\ objs[t] \in Seq(Callstack) /\ Len(objs[t]) = n
      /\ \A i \in 1..n : objs[t][i] \in Callstack
  BY <1>1, TaskFacts
<1>5. Indexed(cs) /\ CanTakeSize(cs)
  <2>1. objs[t][n] \in Callstack /\ objs[t][o] \in Callstack
    BY <1>1, <1>4
  <2>2. Fresh(objs[t][n])
    BY <1>1 DEF SizesInv
  <2>3. CASE had
    <3>1. Indexed(objs[t][o])
      BY <2>3 DEF SizesInv, Pooled
    <3> HIDE DEF o, n, had
    <3>2. QED
      BY <1>2, <2>1, <2>2, <2>3, <3>1, MergedIndexed
  <2>4. CASE ~had
    BY <1>2, <2>2, <2>4, FreshCanTake DEF Fresh
  <2>5. QED
    BY <2>3, <2>4
<1>6. ~failed'
  BY <1>2, <1>5
<1>7. Indexed(new)
  <2> HIDE DEF known, m
  <2>1. QED
    BY <1>2, <1>5, <1>6, TookIndexed
<1>8. ReceivedBy(t, Len(calls[t]))' = {} => CanTakeSize(new)
  <2>1. known => m \in ReceivedBy(t, n)
    BY <1>1 DEF MapsInv, CommMapInv
  <2>2. ReceivedBy(t, Len(calls[t]))' = {} => ~known
    BY <1>1, <2>1 DEF ReceivedBy
  <2> HIDE DEF known
  <2>3. QED
    BY <1>2, <1>5, <2>2
<1>9. /\ DOMAIN callstack_pool'[t] = DOMAIN callstack_pool[t] \cup {p}
      /\ callstack_pool'[t][p] = o
      /\ \A q \in DOMAIN callstack_pool[t] : q # p => callstack_pool'[t][q] = callstack_pool[t][q]
  <2> DEFINE d == Put(callstack_pool[t], p, o)
  <2>1. /\ DOMAIN d = DOMAIN callstack_pool[t] \cup {p} /\ d[p] = o
        /\ \A q \in DOMAIN callstack_pool[t] : q # p => d[q] = callstack_pool[t][q]
    BY DEF Put
  <2>2. callstack_pool'[t] = d
    BY <1>3
  <2> HIDE DEF d
  <2>3. QED
    BY <2>1, <2>2
<1>10. objs'[t][o] = new /\ \A i \in 1..n : i # o => objs'[t][i] = objs[t][i]
  <2> HIDE DEF o
  <2>1. QED
    BY <1>1, <1>2, <1>4
<1>11. objs'[t][callstack_pool'[t][p]] = new
  <2> HIDE DEF o, p, n
  <2>1. QED
    BY <1>9, <1>10
<1>12. ASSUME NEW q \in DOMAIN callstack_pool'[t]
       PROVE  Indexed(Pooled(t, q))'
  <2>1. CASE q = p
    <3> HIDE DEF p, n, o
    <3>1. Pooled(t, q)' = new
      BY <1>11, <2>1 DEF Pooled
    <3>2. QED
      BY <1>7, <3>1 DEF Indexed, Repetitions
  <2>2. CASE q # p
    <3>1. q \in DOMAIN callstack_pool[t] /\ callstack_pool'[t][q] = callstack_pool[t][q]
      BY <1>9, <2>2
    <3>2. callstack_pool[t][q] \in 1..n
      BY <1>4, <3>1, TaskFacts DEF MapsInv, PoolInv
    <3>3. Indexed(objs[t][callstack_pool[t][q]])
      BY <3>1 DEF SizesInv, Pooled
    <3> HIDE DEF o, p, n
    <3>4. objs'[t][callstack_pool[t][q]] = new
            \/ objs'[t][callstack_pool[t][q]] = objs[t][callstack_pool[t][q]]
      BY <1>10, <3>2
    <3>5. QED
      BY <1>7, <3>1, <3>3, <3>4 DEF Pooled, Indexed, Repetitions
  <2>3. QED
    BY <2>1, <2>2
<1>13. SizesInv(t)'
  <2>1. Len(calls'[t]) = n /\ calls'[t][n] = p
    BY <1>1
  <2> HIDE DEF n, p, o
  <2>2. QED
    BY <1>1, <1>8, <1>11, <1>12, <2>1 DEF SizesInv, Pooled, CanTakeSize, Repetitions
<1>14. BurstInv(t)'
  <2>1. calls[t] # <<>>
    <3>1. Len(<<>>) = 0 /\ mpi_opened[t] => Len(calls[t]) # 0
      BY DEF Types
    <3>2. QED
      BY <1>1, <3>1
  <2>2. QED
    BY <1>1, <1>4, <2>1 DEF BurstInv, NoCountersBefore, CallWork
<1>15. ASSUME NEW u \in Task, u # t
       PROVE  SizesInv(u)' /\ BurstInv(u)'
  BY <1>1, <1>15, ExitStarts, OthersKeepSizes
<1>16. QED
  BY <1>6, <1>13, <1>14, <1>15

(* In one file a communication is next to the entry of the send, and its     *)
(* receive is the last call or one to come.                                  *)
LEMMA SizesComm ==
  ASSUME Types, MapsInv, MessagesInv, \A u \in Task : SizesInv(u) /\ BurstInv(u), ~Split,
         NEW src \in Task, NEW dst \in Task, NEW si \in Call, NEW di \in Call,
         Comm(src, si, dst, di)
  PROVE  ~failed' /\ \A u \in Task : SizesInv(u)' /\ BurstInv(u)'
<1> DEFINE n     == Len(comms) + 1
           sOpen == si \in DOMAIN mpi_init_hashmap[src]
           so    == mpi_init_hashmap[src][si]
           rOpen == di \in DOMAIN mpi_fini_hashmap[dst]
           ro    == mpi_fini_hashmap[dst][di]
<1>1. /\ ~failed /\ src # dst
      /\ IF Split THEN AfterAllEvents(Communication(src, si, dst, di))
         ELSE InTimeOrder(Communication(src, si, dst, di))
      /\ failed' = (\/ sOpen /\ ~CanTakeSize(objs[src][so])
                    \/ rOpen /\ ~CanTakeSize(objs[dst][ro]))
      /\ \A t \in Task : Len(objs'[t]) = Len(objs[t])
      /\ ~failed' => MessageIsTaken(src, dst, si, di)
      /\ UNCHANGED <<calls, missing, mpi_opened, callstack_pool, mpi_acumm_cycles, burst_last,
                     finished>>
  BY CommEffect
<1>2. /\ IF mpi_opened[src] THEN si = Len(calls[src]) ELSE si = Len(calls[src]) + 1
      /\ di >= Len(calls[dst])
  BY <1>1 DEF InTimeOrder, Communication
<1>3. /\ DOMAIN mpi_init_hashmap[src] = {i \in 1..Len(calls[src]) : SentBy(src, i) = {}}
      /\ \A i \in DOMAIN mpi_init_hashmap[src] : mpi_init_hashmap[src][i] = ObjectOf(src, i)
      /\ DOMAIN mpi_fini_hashmap[dst] = {i \in 1..Over(dst) : ReceivedBy(dst, i) = {}}
      /\ \A i \in DOMAIN mpi_fini_hashmap[dst] : mpi_fini_hashmap[dst][i] = ObjectOf(dst, i)
  BY DEF MapsInv, InitMapInv, FiniMapInv
<1>4. /\ si \in Nat /\ di \in Nat
      /\ \A t \in Task : /\ Len(calls[t]) \in Nat /\ Over(t) \in Nat
                         /\ objs[t] \in Seq(Callstack) /\ Len(objs[t]) = Len(calls[t])
                         /\ mpi_opened[t] => Len(calls[t]) # 0 /\ Over(t) = Len(calls[t]) - 1
                         /\ ~mpi_opened[t] => Over(t) = Len(calls[t])
  BY TaskFacts DEF Call
<1>5. sOpen => mpi_opened[src] /\ si = Len(calls[src]) /\ so = Len(calls[src])
  <2>1. sOpen => mpi_opened[src] /\ si = Len(calls[src]) /\ so = ObjectOf(src, si)
    BY <1>2, <1>3, <1>4
  <2>2. QED
    BY <1>4, <2>1 DEF ObjectOf
<1>6. rOpen => /\ ~mpi_opened[dst] /\ di = Len(calls[dst]) /\ di # 0
               /\ ReceivedBy(dst, di) = {}
               /\ ro = callstack_pool[dst][calls[dst][di]]
  <2>1. rOpen => /\ ~mpi_opened[dst] /\ di = Len(calls[dst]) /\ di # 0 /\ di <= Over(dst)
                 /\ ReceivedBy(dst, di) = {} /\ ro = ObjectOf(dst, di)
    BY <1>2, <1>3, <1>4
  <2>2. QED
    BY <2>1 DEF ObjectOf
<1>7. sOpen => CanTakeSize(objs[src][so])
  BY <1>5, FreshCanTake DEF SizesInv
<1>8. rOpen => CanTakeSize(objs[dst][ro])
  BY <1>6 DEF SizesInv, Pooled
<1>9. ~failed'
  BY <1>1, <1>7, <1>8
<1> HIDE DEF n, sOpen, so, rOpen, ro
<1>10. ASSUME NEW t \in Task, NEW j \in 1..Len(objs[t]), Indexed(objs[t][j])
       PROVE  Indexed(objs'[t][j]) /\ (Fresh(objs[t][j]) => Fresh(objs'[t][j]))
  <2>1. objs[t][j] \in Callstack
    BY <1>4
  <2>2. MessageIsTaken(src, dst, si, di)
    BY <1>1, <1>9
  <2>3. CASE t = src /\ sOpen /\ j = so
    <3>1. TookMessage(objs'[t][j], objs[t][j], dst, Len(comms) + 1)
      BY <2>2, <2>3 DEF MessageIsTaken, sOpen, so
    <3>2. QED
      BY <1>7, <1>10, <2>1, <2>3, <3>1, TookIndexed
  <2>4. CASE ~(t = src /\ sOpen /\ j = so) /\ t = dst /\ rOpen /\ j = ro
    <3>1. TookMessage(objs'[t][j], objs[t][j], src, Len(comms) + 1)
      BY <1>1, <2>2, <2>4 DEF MessageIsTaken, rOpen, ro
    <3>2. QED
      BY <1>8, <1>10, <2>1, <2>4, <3>1, TookIndexed
  <2>5. CASE ~(t = src /\ sOpen /\ j = so) /\ ~(t = dst /\ rOpen /\ j = ro)
    <3>1. objs'[t][j] = objs[t][j]
      BY <2>2, <2>5 DEF MessageIsTaken, sOpen, so, rOpen, ro
    <3>2. QED
      BY <1>10, <3>1 DEF Indexed, Fresh, Repetitions
  <2>6. QED
    BY <2>3, <2>4, <2>5
<1>11. ASSUME NEW t \in Task, NEW j \in 1..Len(objs[t]), ~mpi_opened[t], ~(t = dst /\ rOpen)
       PROVE  objs'[t][j] = objs[t][j]
  <2>1. ~(t = src /\ sOpen)
    BY <1>5, <1>11
  <2>2. MessageIsTaken(src, dst, si, di)
    BY <1>1, <1>9
  <2>3. QED
    BY <1>11, <2>1, <2>2 DEF MessageIsTaken, sOpen, rOpen
<1>12. /\ \A i \in 1..Len(comms) : i \in 1..Len(comms') /\ comms'[i] = comms[i]
       /\ n \in 1..Len(comms') /\ comms'[n].dst = dst /\ comms'[n].di = di
  BY CommSets DEF n
<1>13. ASSUME NEW t \in Task
       PROVE  SizesInv(t)'
  <2>1. ASSUME NEW p \in DOMAIN callstack_pool[t]
        PROVE  /\ callstack_pool[t][p] \in 1..Len(objs[t])
               /\ Indexed(objs[t][callstack_pool[t][p]])
    BY TaskFacts DEF SizesInv, MapsInv, PoolInv, Pooled
  <2>2. ASSUME NEW p \in DOMAIN callstack_pool[t]
        PROVE  Indexed(Pooled(t, p))'
    <3>1. Indexed(objs'[t][callstack_pool[t][p]])
      BY <1>10, <2>1
    <3>2. QED
      BY <1>1, <3>1 DEF Pooled, Indexed, Repetitions
  <2>3. mpi_opened[t] => Fresh(objs'[t][Len(calls[t])])
    <3>1. SUFFICES ASSUME mpi_opened[t]
                   PROVE  Fresh(objs'[t][Len(calls[t])])
      OBVIOUS
    <3>2. Len(calls[t]) \in 1..Len(objs[t]) /\ Fresh(objs[t][Len(calls[t])])
      BY <1>4, <3>1 DEF SizesInv
    <3>3. QED
      BY <1>10, <3>2 DEF Fresh
  <2>4. ASSUME ~mpi_opened[t], Len(calls[t]) # 0, ReceivedBy(t, Len(calls[t]))' = {}
        PROVE  CanTakeSize(objs'[t][callstack_pool[t][calls[t][Len(calls[t])]]])
    <3>1. \A i \in 1..Len(comms') : ~(comms'[i].dst = t /\ comms'[i].di = Len(calls[t]))
      BY <1>1, <2>4 DEF ReceivedBy
    <3>2. \A i \in 1..Len(comms) : ~(comms[i].dst = t /\ comms[i].di = Len(calls[t]))
      BY <1>12, <3>1
    <3>3. ~(t = dst /\ di = Len(calls[t]))
      BY <1>12, <3>1
    <3>4. ReceivedBy(t, Len(calls[t])) = {} /\ ~(t = dst /\ rOpen)
      BY <1>6, <3>2, <3>3 DEF ReceivedBy
    <3>5. CanTakeSize(objs[t][callstack_pool[t][calls[t][Len(calls[t])]]])
      BY <2>4, <3>4 DEF SizesInv, Pooled
    <3>6. callstack_pool[t][calls[t][Len(calls[t])]] \in 1..Len(objs[t])
      <4>1. calls[t][Len(calls[t])] \in DOMAIN callstack_pool[t]
        BY <1>4, <2>4 DEF MapsInv, PoolInv
      <4>2. QED
        BY <2>1, <4>1
    <3>7. QED
      BY <1>11, <2>4, <3>4, <3>5, <3>6
  <2>5. QED
    BY <1>1, <2>2, <2>3, <2>4 DEF SizesInv, Pooled, Fresh, Indexed, CanTakeSize, Repetitions
<1>14. ASSUME NEW t \in Task
       PROVE  BurstInv(t)'
  BY <1>1, CommStarts DEF BurstInv, NoCountersBefore
<1>15. QED
  BY <1>9, <1>13, <1>14

(* The record before the first call of a task.                               *)
LEMMA SizesStart ==
  ASSUME Types, \A u \in Task : SizesInv(u) /\ BurstInv(u), NEW t \in Task, Start(t)
  PROVE  ~failed' /\ \A u \in Task : SizesInv(u)' /\ BurstInv(u)'
<1>1. /\ ~failed' /\ calls[t] = <<>> /\ started' = started \cup {t}
      /\ Updated(burst_last', burst_last, t, CallWork(0))
      /\ UNCHANGED <<calls, comms, missing, mpi_opened, objs, callstack_pool>>
  BY StartEffect
<1>2. /\ burst_last'[t] = CallWork(0) /\ CallWork(0) # 0
      /\ \A u \in Task : u # t => burst_last'[u] = burst_last[u]
  <2>1. PerTask(burst_last)
    BY DEF Types, PerTask
  <2>2. QED
    BY <1>1, <2>1, PerTaskUpdate DEF CallWork
<1>3. ASSUME NEW u \in Task
      PROVE  SizesInv(u)'
  <2>1. \A p : Pooled(u, p)' = Pooled(u, p)
    BY <1>1 DEF Pooled
  <2>2. \A k : ReceivedBy(u, k)' = ReceivedBy(u, k)
    BY <1>1 DEF ReceivedBy
  <2>3. QED
    BY <1>1, <2>1, <2>2 DEF SizesInv
<1>4. ASSUME NEW u \in Task
      PROVE  BurstInv(u)'
  <2>1. CASE u = t
    BY <1>2, <2>1 DEF BurstInv
  <2>2. CASE u # t
    BY <1>1, <1>2, <2>2 DEF BurstInv, NoCountersBefore
  <2>3. QED
    BY <2>1, <2>2
<1>5. QED
  BY <1>1, <1>3, <1>4

(* The invariant of a trace in one file.                                     *)
FailInv == /\ PartInv
           /\ ~failed /\ ~finished => \A t \in Task : SizesInv(t) /\ BurstInv(t)
           /\ ParserNeverFails

LEMMA FailInit ==
  ASSUME Init
  PROVE  FailInv
<1>1. PartInv /\ failed = FALSE
  BY PartInit DEF Init
<1>2. ASSUME NEW t \in Task
      PROVE  SizesInv(t) /\ BurstInv(t)
  <2>1. /\ mpi_opened[t] = FALSE /\ calls[t] = <<>> /\ callstack_pool[t] = <<>>
        /\ started = {}
    BY DEF Init
  <2>2. DOMAIN <<>> = {} /\ Len(<<>>) = 0
    OBVIOUS
  <2>3. SizesInv(t)
    BY <2>1, <2>2 DEF SizesInv
  <2>4. QED
    BY <2>1, <2>3 DEF BurstInv, NoCountersBefore
<1>3. QED
  BY <1>1, <1>2 DEF FailInv, ParserNeverFails

LEMMA FailStep ==
  ASSUME ~Split, FailInv, [Next]_vars
  PROVE  FailInv'
<1>1. PartInv' /\ Types
  BY PartStep DEF FailInv, PartInv
<1>2. ASSUME Next
      PROVE  FailInv'
  <2>1. ~failed /\ ~finished
    BY <1>2 DEF Next, Start, Entry, Exit, Comm, Finish, Reading
  <2>2. MapsInv /\ MessagesInv /\ \A t \in Task : SizesInv(t) /\ BurstInv(t)
    BY <2>1 DEF FailInv, PartInv
  <2>3. ASSUME NEW t \in Task, NEW p \in Path, NEW hwc \in BOOLEAN, Entry(t, p, hwc)
        PROVE  FailInv'
    <3>1. CASE burst_last[t] # 0 \/ ~failed'
      <4>1. ~failed'
        BY <1>1, <2>1, <2>3, <3>1, EntryOfTask
      <4>2. \A u \in Task : SizesInv(u)' /\ BurstInv(u)'
        BY <1>1, <2>2, <2>3, <4>1, SizesEntry
      <4>3. QED
        BY <1>1, <4>1, <4>2 DEF FailInv, ParserNeverFails
    <3>2. CASE ~(burst_last[t] # 0 \/ ~failed')
      <4>1. /\ failed' = TRUE /\ ~mpi_opened[t] /\ burst_last[t] = 0
            /\ UNCHANGED <<calls, missing, mpi_opened>>
        BY <1>1, <2>3, <3>2, EntryFails
      <4>2. NoCountersBefore(t)
        BY <2>2, <4>1 DEF BurstInv
      <4>3. ParserNeverFails'
        BY <2>3, <4>1, <4>2, EntryStarts DEF ParserNeverFails, NoCountersBefore
      <4>4. QED
        BY <1>1, <4>1, <4>3 DEF FailInv
    <3>3. QED
      BY <3>1, <3>2
  <2>4. ASSUME NEW t \in Task, NEW hwc \in BOOLEAN, Exit(t, hwc)
        PROVE  FailInv'
    BY <1>1, <2>2, <2>4, SizesExit DEF FailInv, ParserNeverFails
  <2>5. ASSUME NEW src \in Task, NEW dst \in Task, NEW si \in Call, NEW di \in Call,
               Comm(src, si, dst, di)
        PROVE  FailInv'
    BY <1>1, <2>2, <2>5, SizesComm DEF FailInv, ParserNeverFails
  <2>6. ASSUME Finish
        PROVE  FailInv'
    BY <1>1, <2>1, <2>6, FinishEffect DEF FailInv, ParserNeverFails
  <2>7. ASSUME NEW t \in Task, Start(t)
        PROVE  FailInv'
    BY <1>1, <2>2, <2>7, SizesStart DEF FailInv, ParserNeverFails
  <2>8. QED
    BY <1>2, <2>3, <2>4, <2>5, <2>6, <2>7 DEF Next
<1>3. ASSUME UNCHANGED vars
      PROVE  FailInv'
  <2>1. /\ UNCHANGED <<calls, comms, missing, started, mpi_opened, failed, finished>>
        /\ \A t : SameOf(t)
    BY <1>3 DEF vars, SameOf, SameCalls
  <2>2. ParserNeverFails'
    BY <2>1 DEF FailInv, ParserNeverFails, NoCountersBefore
  <2>3. QED
    BY <1>1, <2>1, <2>2, OthersKeepSizes DEF FailInv
<1>4. QED
  BY <1>2, <1>3

(* ParserNeverFails of CallstacksParser: in a trace in one file, the index   *)
(* of add_mpi_msg_size always exists, however late or early communications   *)
(* are; the parser raises an exception only at an entry record whose burst   *)
(* began without counters - at the exit record of the call before, or before *)
(* the first call, if no record with counters was there (__mpi_handler).     *)
THEOREM ParserFailsOnlyWithoutCounters == ~Split => (Spec => []ParserNeverFails)
<1>1. Init => FailInv
  BY FailInit
<1>2. ~Split /\ FailInv /\ [Next]_vars => FailInv'
  BY FailStep
<1>3. FailInv => ParserNeverFails
  BY DEF FailInv
<1>4. ASSUME ~Split
      PROVE  Spec => []ParserNeverFails
  <2>1. FailInv /\ [Next]_vars => FailInv'
    BY <1>2, <1>4
  <2>2. QED
    BY <1>1, <1>3, <2>1, PTL DEF Spec
<1>5. QED
  BY <1>4

-----------------------------------------------------------------------------
(* Sizes: their values. *)

(* A communication read has its number as its size, and names calls of its   *)
(* kind.                                                                     *)
KindInv ==
  \A n \in 1..Len(comms) :
    /\ comms[n].size = n
    /\ comms[n].si <= Len(calls[comms[n].src]) => calls[comms[n].src][comms[n].si] \in SendPath
    /\ comms[n].di <= Len(calls[comms[n].dst]) => calls[comms[n].dst][comms[n].di] \in RecvPath

(* The communications of a trace in several files follow all the events.     *)
SplitInv == Split /\ comms # <<>> => \A t \in Task : Len(calls[t]) = MaxCalls /\ ~mpi_opened[t]

Messages(t, p) == Sends(t, p) \cup Recvs(t, p)

(* The sizes of a callstack are those of the messages ms, each once.         *)
Holds(cs, ms) ==
  /\ Len(SizesOf(cs)) = Repetitions(cs)
  /\ ToSet(SizesOf(cs)) \ {0} = ms
  /\ Injective(SizesOf(cs))

(* The sizes to come find their places empty.                                *)
Room(cs) == \A i \in 1..Repetitions(cs) : i > cs.already_with_size => SizesOf(cs)[i] = 0

(* A callstack that was not merged stands for one call.                      *)
Single(t, p) ==
  Repetitions(Pooled(t, p)) = 1 =>
    \A k \in 1..Over(t) : calls[t][k] = p => k = callstack_pool[t][p]

(* A callstack has the sizes of its repetitions.  Where a size may still be  *)
(* added to it - a receive, or any call if all communications come last -,   *)
(* the places it will take are empty.                                        *)
PoolSizes(t, p) ==
  /\ Indexed(Pooled(t, p))
  /\ Holds(Pooled(t, p), Messages(t, p))
  /\ Split \/ p \in RecvPath => Room(Pooled(t, p))
  /\ Single(t, p)

OpenSizes(t) ==
  mpi_opened[t] => /\ Fresh(objs[t][Len(calls[t])])
                   /\ Holds(objs[t][Len(calls[t])], SentBy(t, Len(calls[t])))

ValuesInv == /\ KindInv
             /\ SplitInv
             /\ \A t \in Task : OpenSizes(t) /\ \A p \in DOMAIN callstack_pool[t] : PoolSizes(t, p)

LEMMA ToSetIs ==
  ASSUME NEW list \in Seq(Nat)
  PROVE  ToSet(list) = {list[i] : i \in 1..Len(list)}
BY DEF ToSet

Placed(list, i, v) == [list EXCEPT ![i] = v]

LEMMA ListTakes ==
  ASSUME NEW list \in Seq(Nat), Injective(list), NEW i \in 1..Len(list), list[i] = 0,
         NEW v \in Nat \ {0}, v \notin ToSet(list)
  PROVE  /\ ToSet(Placed(list, i, v)) \ {0} = (ToSet(list) \ {0}) \cup {v}
         /\ Injective(Placed(list, i, v))
<1> DEFINE new == [list EXCEPT ![i] = v]
<1>1. new \in Seq(Nat) /\ Len(new) = Len(list)
  BY ExceptSeq
<1>2. \A j \in 1..Len(list) : new[j] = IF j = i THEN v ELSE list[j]
  OBVIOUS
<1> HIDE DEF new
<1>3. \A j \in 1..Len(list) : list[j] # v
  BY ToSetIs
<1>4. ToSet(new) = {new[j] : j \in 1..Len(list)} /\ ToSet(list) = {list[j] : j \in 1..Len(list)}
  BY <1>1, ToSetIs
<1>5. ToSet(new) \ {0} = (ToSet(list) \ {0}) \cup {v}
  BY <1>2, <1>4
<1>6. Injective(new)
  BY <1>1, <1>2, <1>3, SMTT(30) DEF Injective
<1>7. QED
  BY <1>5, <1>6 DEF Placed, new

LEMMA ListAppends ==
  ASSUME NEW list \in Seq(Nat), Injective(list), NEW v \in Nat, v = 0 \/ v \notin ToSet(list),
         NEW new, new = Append(list, v)
  PROVE  /\ ToSet(new) \ {0} = (ToSet(list) \ {0}) \cup ({v} \ {0})
         /\ Injective(new)
<1> DEFINE n == Len(list)
<1>1. new \in Seq(Nat) /\ Len(new) = n + 1 /\ n \in Nat
  OBVIOUS
<1>2. /\ \A j \in 1..(n + 1) : j \in 1..n \/ j = n + 1
      /\ \A j \in 1..n : j \in 1..(n + 1) /\ j # n + 1 /\ new[j] = list[j]
      /\ new[n + 1] = v /\ n + 1 \in 1..(n + 1)
  OBVIOUS
<1>3. ToSet(new) = {new[j] : j \in 1..(n + 1)} /\ ToSet(list) = {list[j] : j \in 1..n}
  BY <1>1, ToSetIs
<1>4. v = 0 \/ \A j \in 1..n : list[j] # v
  BY <1>3
<1>5. \A i, j \in 1..n : i # j /\ list[i] # 0 => list[i] # list[j]
  BY DEF Injective
<1> HIDE DEF n
<1>6. ToSet(new) = ToSet(list) \cup {v}
  BY <1>2, <1>3
<1>7. Injective(new)
  BY <1>1, <1>2, <1>4, <1>5 DEF Injective
<1>8. QED
  BY <1>6, <1>7

LEMMA SizesOfFacts ==
  ASSUME NEW cs \in Callstack, Indexed(cs)
  PROVE  /\ SizesOf(cs) \in Seq(Nat) /\ Len(SizesOf(cs)) = Repetitions(cs)
         /\ SizesOf(cs) = IF Repetitions(cs) = 1 THEN <<cs.size>> ELSE cs.sizes
         /\ Repetitions(cs) \in Nat /\ cs.size \in Nat /\ cs.sizes \in Seq(Nat)
         /\ cs.sizes = <<>> <=> Repetitions(cs) = 1
         /\ cs.already_with_size \in Nat
<1>1. /\ cs.sizes \in Seq(Nat) /\ cs.size \in Nat /\ cs.instants \in Seq(Call)
      /\ cs.already_with_size \in Nat
  BY DEF Callstack
<1>2. Repetitions(cs) \in Nat /\ cs.sizes = <<>> <=> Len(cs.sizes) = 0
  BY <1>1 DEF Repetitions
<1>3. QED
  BY <1>1, <1>2 DEF Indexed, SizesOf, Values

(* A callstack that takes the size of one more message.                      *)
LEMMA TookHolds ==
  ASSUME NEW cs \in Callstack, NEW new, NEW q, NEW size \in Nat \ {0}, NEW ms,
         TookMessage(new, cs, q, size), Indexed(cs), CanTakeSize(cs), Holds(cs, ms),
         size \notin ms, Room(cs), Repetitions(cs) = 1 => ms = {}
  PROVE  Holds(new, ms \cup {size}) /\ Room(new)
<1>1. /\ SizesOf(cs) \in Seq(Nat) /\ Len(SizesOf(cs)) = Repetitions(cs)
      /\ SizesOf(cs) = IF Repetitions(cs) = 1 THEN <<cs.size>> ELSE cs.sizes
      /\ Repetitions(cs) \in Nat /\ cs.already_with_size \in Nat
  BY SizesOfFacts
<1>2. Indexed(new) /\ new \in Callstack /\ Repetitions(new) = Repetitions(cs)
  BY TookIndexed DEF TookMessage, Repetitions
<1>3. /\ Len(SizesOf(new)) = Repetitions(new)
      /\ SizesOf(new) = IF Repetitions(new) = 1 THEN <<new.size>> ELSE new.sizes
  BY <1>2, SizesOfFacts
<1>4. CASE Repetitions(cs) = 1
  <2>1. SizesOf(new) = <<size>>
    BY <1>2, <1>3, <1>4 DEF TookMessage, TookSize
  <2>2. ToSet(<<size>>) = {size}
    BY DEF ToSet
  <2>3. Injective(<<size>>)
    BY DEF Injective
  <2>4. Holds(new, ms \cup {size})
    BY <1>3, <1>4, <2>1, <2>2, <2>3 DEF Holds
  <2>5. Room(new)
    BY <1>2, <1>4 DEF Room, Indexed
  <2>6. QED
    BY <2>4, <2>5
<1>5. CASE Repetitions(cs) # 1
  <2> DEFINE l == SizesOf(cs)
             m == SizesOf(new)
             i == cs.already_with_size + 1
  <2>1. m = [l EXCEPT ![i] = size] /\ new.already_with_size = i
    BY <1>1, <1>2, <1>3, <1>5 DEF TookMessage, TookSize, Repetitions
  <2>2. i \in 1..Len(l) /\ l[i] = 0 /\ l \in Seq(Nat) /\ i \in Nat
    <3>1. /\ cs.already_with_size < Len(cs.sizes) /\ l = cs.sizes
          /\ Len(cs.sizes) = Repetitions(cs)
      BY <1>1, <1>5 DEF CanTakeSize
    <3> HIDE DEF l
    <3>2. i \in 1..Repetitions(cs) /\ i > cs.already_with_size
      BY <1>1, <3>1
    <3>3. QED
      BY <1>1, <3>2 DEF Room, l
  <2>3. size \notin ToSet(l) /\ Injective(l) /\ ToSet(l) \ {0} = ms
    BY DEF Holds
  <2>4. Room(new)
    <3>1. \A j \in 1..Repetitions(cs) : j > i => j > cs.already_with_size /\ j # i
      BY <1>1
    <3>2. \A j \in 1..Len(l) : j # i => m[j] = l[j]
      BY <2>1, <2>2
    <3> HIDE DEF i, l, m
    <3>3. \A j \in 1..Repetitions(cs) : j > i => m[j] = 0
      BY <1>1, <3>1, <3>2 DEF Room, l
    <3>4. QED
      BY <1>2, <2>1, <3>3 DEF Room, m
  <2> HIDE DEF i, l, m
  <2>5. ToSet(m) \ {0} = (ToSet(l) \ {0}) \cup {size} /\ Injective(m)
    <3>1. m = Placed(l, i, size)
      BY <2>1 DEF Placed
    <3>2. /\ l \in Seq(Nat) /\ Injective(l) /\ i \in 1..Len(l) /\ l[i] = 0
          /\ size \in Nat \ {0} /\ size \notin ToSet(l)
      BY <2>2, <2>3
    <3>3. QED
      BY <3>1, <3>2, ListTakes
  <2>6. Holds(new, ms \cup {size})
    BY <1>3, <2>3, <2>5 DEF Holds, m
  <2>7. QED
    BY <2>4, <2>6
<1>6. QED
  BY <1>4, <1>5

(* A callstack that a call that is over is merged into.                      *)
LEMMA MergedHolds ==
  ASSUME NEW cs \in Callstack, NEW ended \in Callstack, NEW new, NEW ms, NEW es,
         Merged(new, cs, ended), Indexed(cs), Fresh(ended), Holds(cs, ms), Holds(ended, es),
         ms \cap es = {}
  PROVE  /\ Holds(new, ms \cup es) /\ Repetitions(new) # 1
         /\ Room(cs) /\ es = {} => Room(new)
<1>1. /\ SizesOf(cs) \in Seq(Nat) /\ Len(SizesOf(cs)) = Repetitions(cs)
      /\ SizesOf(cs) = IF Repetitions(cs) = 1 THEN <<cs.size>> ELSE cs.sizes
      /\ Repetitions(cs) \in Nat /\ cs.already_with_size \in Nat
      /\ cs.sizes = <<>> <=> Repetitions(cs) = 1
  BY SizesOfFacts
<1>2. /\ Indexed(new) /\ new \in Callstack /\ Repetitions(new) = Repetitions(cs) + 1
      /\ Repetitions(cs) # 0
  BY MergedIndexed DEF Merged, Repetitions, Fresh, Indexed
<1>3. /\ Len(SizesOf(new)) = Repetitions(new) /\ Repetitions(new) # 1
      /\ SizesOf(new) = new.sizes
  BY <1>1, <1>2, SizesOfFacts
<1>4. SizesOf(ended) = <<ended.size>> /\ ended.size \in Nat
  BY SizesOfFacts DEF Fresh
<1>5. {ended.size} \ {0} = es
  <2>1. ToSet(<<ended.size>>) = {ended.size}
    BY DEF ToSet
  <2>2. QED
    BY <1>4, <2>1 DEF Holds
<1> DEFINE l == SizesOf(cs)
           m == SizesOf(new)
           e == ended.size
<1>6. m = Append(l, e)
  <2>1. m = Extended(cs.sizes, cs.size, e)
    BY <1>3 DEF Merged
  <2>2. CASE Repetitions(cs) = 1
    <3>1. m = <<cs.size, e>> /\ l = <<cs.size>>
      BY <1>1, <2>1, <2>2 DEF Extended
    <3> HIDE DEF l, m, e
    <3>2. QED
      BY <3>1
  <2>3. CASE Repetitions(cs) # 1
    BY <1>1, <2>1, <2>3 DEF Extended
  <2>4. QED
    BY <2>2, <2>3
<1>7. e = 0 \/ e \notin ToSet(l)
  BY <1>5 DEF Holds
<1>8. ToSet(l) \ {0} = ms /\ Injective(l)
  BY DEF Holds
<1>9. Room(cs) /\ es = {} => Room(new)
  <2>1. SUFFICES ASSUME Room(cs), e = 0, NEW i \in 1..Repetitions(new), i > new.already_with_size
                 PROVE  m[i] = 0
    BY <1>5 DEF Room
  <2>2. new.already_with_size = cs.already_with_size
    BY DEF Merged
  <2>3. CASE i \in 1..Repetitions(cs)
    <3>1. m[i] = l[i]
      BY <1>1, <1>6, <2>3
    <3>2. QED
      BY <2>1, <2>2, <2>3, <3>1 DEF Room
  <2>4. CASE i \notin 1..Repetitions(cs)
    <3>1. i = Len(l) + 1
      BY <1>1, <1>2, <2>4
    <3>2. QED
      BY <1>1, <1>6, <2>1, <3>1
  <2>5. QED
    BY <2>3, <2>4
<1> HIDE DEF l, m, e
<1>10. ToSet(m) \ {0} = (ToSet(l) \ {0}) \cup ({e} \ {0}) /\ Injective(m)
  BY <1>1, <1>4, <1>6, <1>7, <1>8, ListAppends DEF l, e
<1>11. Holds(new, ms \cup es)
  BY <1>3, <1>5, <1>8, <1>10 DEF Holds, m, e
<1>12. QED
  BY <1>3, <1>9, <1>11

LEMMA OthersKeepValues ==
  ASSUME NEW t \in Task, SameCalls(t), UNCHANGED comms,
         OpenSizes(t), \A p \in DOMAIN callstack_pool[t] : PoolSizes(t, p)
  PROVE  OpenSizes(t)' /\ \A p \in DOMAIN callstack_pool'[t] : PoolSizes(t, p)'
<1>1. Over(t)' = Over(t)
  BY DEF Over, SameCalls
<1>2. ASSUME NEW p
      PROVE  Pooled(t, p)' = Pooled(t, p) /\ Messages(t, p)' = Messages(t, p)
  BY <1>1 DEF Pooled, Messages, Sends, Recvs, SameCalls
<1>3. \A k : SentBy(t, k)' = SentBy(t, k)
  BY DEF SentBy
<1>4. OpenSizes(t)'
  BY <1>3 DEF OpenSizes, SameCalls
<1>5. ASSUME NEW p \in DOMAIN callstack_pool'[t]
      PROVE  PoolSizes(t, p)'
  <2>1. p \in DOMAIN callstack_pool[t] /\ PoolSizes(t, p)
    BY DEF SameCalls
  <2>2. Single(t, p)'
    BY <1>1, <1>2, <2>1 DEF PoolSizes, Single, SameCalls
  <2>3. QED
    BY <1>2, <2>1, <2>2 DEF PoolSizes
<1>6. QED
  BY <1>4, <1>5

LEMMA MessageTypes ==
  ASSUME Types, NEW n \in 1..Len(comms)
  PROVE  /\ comms[n].src \in Task /\ comms[n].dst \in Task
         /\ comms[n].si \in Nat \ {0} /\ comms[n].di \in Nat \ {0}
         /\ comms[n].si \in Call /\ comms[n].di \in Call
<1>1. comms[n] \in Message
  BY TaskFacts DEF Types
<1>2. comms[n].si \in Call /\ comms[n].di \in Call /\ comms[n].src \in Task /\ comms[n].dst \in Task
  BY <1>1 DEF Message
<1>3. QED
  BY <1>2, BoundAssumption DEF Call

(* A communication is one of the last call, or of an earlier one, or of one  *)
(* to come, and has two ends.                                                *)
LEMMA MessageSets ==
  ASSUME Types, MessagesInv, NEW t \in Task, NEW p
  PROVE  /\ \A k : k > Over(t) => /\ SentBy(t, k) \cap Messages(t, p) = {}
                                  /\ ReceivedBy(t, k) \cap Messages(t, p) = {}
         /\ \A k, l : SentBy(t, k) \cap ReceivedBy(t, l) = {}
         /\ Messages(t, p) \subseteq 1..Len(comms)
         /\ \A k : SentBy(t, k) \subseteq 1..Len(comms) /\ ReceivedBy(t, k) \subseteq 1..Len(comms)
         /\ \A n \in Messages(t, p) :
              \E k \in 1..Over(t) : calls[t][k] = p /\ n \in SentBy(t, k) \cup ReceivedBy(t, k)
<1>1. /\ Over(t) \in Nat
      /\ \A n \in 1..Len(comms) : /\ comms[n].src # comms[n].dst
                                  /\ comms[n].si \in Nat \ {0} /\ comms[n].di \in Nat \ {0}
  BY TaskFacts, MessageTypes DEF MessagesInv
<1>2. ASSUME NEW n \in Messages(t, p)
      PROVE  /\ n \in 1..Len(comms)
             /\ \/ comms[n].src = t /\ comms[n].si <= Over(t) /\ calls[t][comms[n].si] = p
                \/ comms[n].dst = t /\ comms[n].di <= Over(t) /\ calls[t][comms[n].di] = p
  BY DEF Messages, Sends, Recvs
<1>3. ASSUME NEW k, k > Over(t)
      PROVE  SentBy(t, k) \cap Messages(t, p) = {} /\ ReceivedBy(t, k) \cap Messages(t, p) = {}
  <2>1. \A n \in 1..Len(comms) : /\ comms[n].si = k => ~(comms[n].si <= Over(t))
                                 /\ comms[n].di = k => ~(comms[n].di <= Over(t))
    BY <1>1, <1>3
  <2>2. QED
    BY <1>1, <1>2, <2>1 DEF SentBy, ReceivedBy
<1>4. \A k, l : SentBy(t, k) \cap ReceivedBy(t, l) = {}
  BY <1>1 DEF SentBy, ReceivedBy
<1>5. ASSUME NEW n \in Messages(t, p)
      PROVE  \E k \in 1..Over(t) : calls[t][k] = p /\ n \in SentBy(t, k) \cup ReceivedBy(t, k)
  <2>1. CASE comms[n].src = t /\ comms[n].si <= Over(t) /\ calls[t][comms[n].si] = p
    <3>1. comms[n].si \in 1..Over(t) /\ n \in SentBy(t, comms[n].si)
      BY <1>1, <1>2, <2>1 DEF SentBy
    <3>2. QED
      BY <2>1, <3>1
  <2>2. CASE comms[n].dst = t /\ comms[n].di <= Over(t) /\ calls[t][comms[n].di] = p
    <3>1. comms[n].di \in 1..Over(t) /\ n \in ReceivedBy(t, comms[n].di)
      BY <1>1, <1>2, <2>2 DEF ReceivedBy
    <3>2. QED
      BY <2>2, <3>1
  <2>3. QED
    BY <1>2, <2>1, <2>2
<1>6. /\ Messages(t, p) \subseteq 1..Len(comms)
      /\ \A k : SentBy(t, k) \subseteq 1..Len(comms) /\ ReceivedBy(t, k) \subseteq 1..Len(comms)
  BY <1>2 DEF SentBy, ReceivedBy
<1>7. QED
  BY <1>3, <1>4, <1>5, <1>6

LEMMA KindEntry ==
  ASSUME Types, KindInv, SplitInv,
         NEW t \in Task, NEW p \in Path, NEW hwc \in BOOLEAN, Entry(t, p, hwc), ~failed'
  PROVE  KindInv' /\ SplitInv'
<1> DEFINE k == Len(calls[t]) + 1
<1>1. /\ \A n \in 1..Len(comms) : /\ comms[n].src = t /\ comms[n].si = k => p \in SendPath
                                  /\ comms[n].dst = t /\ comms[n].di = k => p \in RecvPath
      /\ Len(calls[t]) < MaxCalls
  BY DEF Entry
<1>2. /\ \A u \in Task : u # t => SameOf(u)
      /\ UNCHANGED comms
  BY EntryOfTask
<1>3. /\ Len(calls'[t]) = k /\ calls'[t][k] = p
      /\ \A i \in 1..Len(calls[t]) : calls'[t][i] = calls[t][i]
  BY EntryCalls
<1>4. /\ Len(calls[t]) \in Nat /\ MaxCalls \in Nat /\ comms \in Seq(Message)
      /\ \A n \in 1..Len(comms) : /\ comms[n].src \in Task /\ comms[n].si \in Nat \ {0}
                                  /\ comms[n].dst \in Task /\ comms[n].di \in Nat \ {0}
  BY TaskFacts, MessageTypes, BoundAssumption DEF Types
<1>5. ASSUME NEW i \in Nat \ {0}, i <= k
      PROVE  i = k \/ i \in 1..Len(calls[t])
  BY <1>4, <1>5
<1>6. ASSUME NEW n \in 1..Len(comms)
      PROVE  /\ comms[n].size = n
             /\ comms[n].si <= Len(calls'[comms[n].src]) => calls'[comms[n].src][comms[n].si] \in SendPath
             /\ comms[n].di <= Len(calls'[comms[n].dst]) => calls'[comms[n].dst][comms[n].di] \in RecvPath
  <2> HIDE DEF k
  <2>1. comms[n].si <= Len(calls'[comms[n].src]) => calls'[comms[n].src][comms[n].si] \in SendPath
    <3>1. CASE comms[n].src = t
      <4>1. CASE comms[n].si = k
        BY <1>1, <1>3, <3>1, <4>1
      <4>2. CASE comms[n].si \in 1..Len(calls[t])
        BY <1>3, <3>1, <4>2 DEF KindInv
      <4>3. QED
        BY <1>3, <1>4, <1>5, <3>1, <4>1, <4>2
    <3>2. CASE comms[n].src # t
      BY <1>2, <1>4, <3>2 DEF KindInv, SameOf, SameCalls
    <3>3. QED
      BY <3>1, <3>2
  <2>2. comms[n].di <= Len(calls'[comms[n].dst]) => calls'[comms[n].dst][comms[n].di] \in RecvPath
    <3>1. CASE comms[n].dst = t
      <4>1. CASE comms[n].di = k
        BY <1>1, <1>3, <3>1, <4>1
      <4>2. CASE comms[n].di \in 1..Len(calls[t])
        BY <1>3, <3>1, <4>2 DEF KindInv
      <4>3. QED
        BY <1>3, <1>4, <1>5, <3>1, <4>1, <4>2
    <3>2. CASE comms[n].dst # t
      BY <1>2, <1>4, <3>2 DEF KindInv, SameOf, SameCalls
    <3>3. QED
      BY <3>1, <3>2
  <2>3. QED
    BY <2>1, <2>2 DEF KindInv
<1>7. KindInv'
  BY <1>2, <1>6 DEF KindInv
<1>8. SplitInv'
  <2>1. ~(Split /\ comms # <<>>)
    BY <1>1, <1>4 DEF SplitInv
  <2>2. QED
    BY <1>2, <2>1 DEF SplitInv
<1>9. QED
  BY <1>7, <1>8

LEMMA HoldsOne ==
  ASSUME NEW cs \in Callstack, Fresh(cs), NEW n \in Nat \ {0}
  PROVE  /\ cs.size = n => Holds(cs, {n})
         /\ cs.size = 0 => Holds(cs, {})
         /\ Room(cs)
<1>1. SizesOf(cs) = <<cs.size>> /\ Repetitions(cs) = 1
  BY SizesOfFacts DEF Fresh
<1>2. ToSet(<<cs.size>>) = {cs.size} /\ Injective(<<cs.size>>)
  BY DEF ToSet, Injective
<1>3. Room(cs)
  BY <1>1 DEF Room, Fresh, Indexed
<1>4. QED
  BY <1>1, <1>2, <1>3 DEF Holds

LEMMA ValuesEntry ==
  ASSUME Types, MapsInv, MessagesInv, ValuesInv,
         NEW t \in Task, NEW p \in Path, NEW hwc \in BOOLEAN, Entry(t, p, hwc), ~failed'
  PROVE  ValuesInv'
<1> DEFINE n     == Len(calls[t])
           k     == n + 1
           known == EntryTime(k) \in DOMAIN comm_hashmap[t]
           m     == comm_hashmap[t][EntryTime(k)]
<1>1. /\ ~mpi_opened[t] /\ k \in Call
      /\ \A u \in Task : u # t => SameOf(u)
      /\ UNCHANGED <<comms, callstack_pool, mpi_fini_hashmap, burst_last, failed, finished>>
  BY EntryOfTask, ZenonT(60)
<1>2. PICK cs \in Callstack :
        /\ objs'[t] = Append(objs[t], cs)
        /\ Len(cs.instants) = 1 /\ cs.sizes = <<>> /\ cs.already_with_size = 1
        /\ cs.size = IF known THEN comms[m].size ELSE 0
  BY EntryOfTask, ZenonT(60)
<1>3. /\ Over(t)' = Over(t) /\ Over(t) = n /\ Len(calls'[t]) = k
      /\ \A i \in 1..n : calls'[t][i] = calls[t][i]
      /\ \A i : SentBy(t, i)' = SentBy(t, i) /\ ReceivedBy(t, i)' = ReceivedBy(t, i)
  BY EntryCalls
<1>4. n \in Nat /\ objs[t] \in Seq(Callstack) /\ Len(objs[t]) = n
  BY TaskFacts
<1>5. /\ PoolInv(t) /\ CommMapInv(t)
      /\ KindInv /\ SplitInv /\ \A u \in Task : /\ OpenSizes(u)
                                                /\ \A q \in DOMAIN callstack_pool[u] : PoolSizes(u, q)
  BY DEF MapsInv, ValuesInv
<1>6. objs'[t][k] = cs /\ \A i \in 1..n : objs'[t][i] = objs[t][i]
  BY <1>2, <1>4
<1>7. Fresh(cs)
  <2>1. Len(<<>>) = 0
    OBVIOUS
  <2>2. QED
    BY <1>2, <2>1 DEF Fresh, Indexed, Repetitions
<1>8. Holds(cs, SentBy(t, k))
  <2>1. known <=> SentBy(t, k) # {}
    BY <1>1, <1>4, <1>5 DEF CommMapInv
  <2>2. known => m \in SentBy(t, k)
    BY <1>1, <1>5 DEF CommMapInv
  <2>3. \A i, j \in SentBy(t, k) : i = j
    BY <1>1 DEF MessagesInv
  <2> HIDE DEF known, m, k
  <2>4. CASE known
    <3>1. m \in 1..Len(comms) /\ m \in Nat \ {0} /\ SentBy(t, k) = {m}
      BY <2>2, <2>3, <2>4, TaskFacts DEF SentBy
    <3>2. cs.size = m
      BY <1>2, <1>5, <2>4, <3>1 DEF KindInv
    <3>3. QED
      BY <1>7, <3>1, <3>2, HoldsOne
  <2>5. CASE ~known
    <3>1. cs.size = 0 /\ SentBy(t, k) = {}
      BY <1>2, <2>1, <2>5
    <3>2. 1 \in Nat \ {0}
      OBVIOUS
    <3>3. QED
      BY <1>7, <3>1, <3>2, HoldsOne
  <2>6. QED
    BY <2>4, <2>5
<1>9. OpenSizes(t)'
  <2>1. objs[t]'[Len(calls[t])'] = cs /\ SentBy(t, Len(calls[t]))' = SentBy(t, k)
    BY <1>3, <1>6
  <2> HIDE DEF n, k
  <2>2. QED
    BY <1>7, <1>8, <2>1 DEF OpenSizes
<1>10. ASSUME NEW q \in DOMAIN callstack_pool[t]
       PROVE  PoolSizes(t, q)'
  <2>1. callstack_pool[t][q] \in 1..n
    BY <1>3, <1>5 DEF PoolInv
  <2>2. Pooled(t, q)' = Pooled(t, q)
    <3> HIDE DEF n
    <3>1. QED
      BY <1>1, <1>6, <2>1 DEF Pooled
  <2>3. Messages(t, q)' = Messages(t, q)
    <3>1. \A i \in 1..Len(comms) : /\ comms[i].si <= n => comms[i].si \in 1..n
                                   /\ comms[i].di <= n => comms[i].di \in 1..n
      BY <1>4, MessageTypes
    <3> HIDE DEF n
    <3>2. QED
      BY <1>1, <1>3, <3>1 DEF Messages, Sends, Recvs
  <2>4. PoolSizes(t, q)
    BY <1>5
  <2>5. Single(t, q)'
    <3> HIDE DEF n
    <3>1. QED
      BY <1>1, <1>3, <2>2, <2>4 DEF PoolSizes, Single
  <2>6. QED
    BY <2>2, <2>3, <2>4, <2>5 DEF PoolSizes
<1>11. ASSUME NEW u \in Task, u # t
       PROVE  OpenSizes(u)' /\ \A q \in DOMAIN callstack_pool'[u] : PoolSizes(u, q)'
  BY <1>1, <1>5, <1>11, OthersKeepValues DEF SameOf
<1>12. KindInv' /\ SplitInv'
  BY <1>5, KindEntry
<1>13. QED
  BY <1>1, <1>9, <1>10, <1>11, <1>12 DEF ValuesInv

(* A call that ends adds its messages to those of its signature.             *)
LEMMA ExitMessages ==
  ASSUME Types, NEW t \in Task, PoolInv(t), NEW hwc \in BOOLEAN, Exit(t, hwc), NEW q
  PROVE  LET n == Len(calls[t])
         IN  Messages(t, q)' = IF q = calls[t][n]
                               THEN (Messages(t, q) \cup SentBy(t, n)) \cup ReceivedBy(t, n)
                               ELSE Messages(t, q)
<1> DEFINE n == Len(calls[t])
           p == calls[t][n]
<1>1. n \in Nat /\ n # 0 /\ Over(t) = n - 1 /\ Over(t)' = n /\ UNCHANGED <<calls, comms>>
  BY ExitCalls
<1>2. \A i \in 1..Len(comms) : /\ comms[i].si <= n <=> comms[i].si <= n - 1 \/ comms[i].si = n
                               /\ comms[i].di <= n <=> comms[i].di <= n - 1 \/ comms[i].di = n
  BY <1>1, MessageTypes
<1> HIDE DEF n
<1>3. calls[t][n] = p
  OBVIOUS
<1> HIDE DEF p
<1>4. /\ Sends(t, q)' = IF q = p THEN Sends(t, p) \cup SentBy(t, n) ELSE Sends(t, q)
      /\ Recvs(t, q)' = IF q = p THEN Recvs(t, p) \cup ReceivedBy(t, n) ELSE Recvs(t, q)
  BY <1>1, <1>2, <1>3 DEF Sends, Recvs, SentBy, ReceivedBy
<1>5. QED
  BY <1>4 DEF Messages, p, n

LEMMA ValuesExit ==
  ASSUME Types, MapsInv, MessagesInv, ValuesInv,
         NEW t \in Task, NEW hwc \in BOOLEAN, Exit(t, hwc), ~failed'
  PROVE  ValuesInv'
<1> DEFINE n     == Len(calls[t])
           p     == calls[t][n]
           had   == p \in DOMAIN callstack_pool[t]
           o     == IF had THEN callstack_pool[t][p] ELSE n
           known == ExitTime(n) \in DOMAIN comm_hashmap[t]
           m     == comm_hashmap[t][ExitTime(n)]
<1>1. /\ n \in Call /\ mpi_opened[t] /\ mpi_opened'[t] = FALSE
      /\ \A u \in Task : u # t => SameOf(u)
      /\ UNCHANGED <<calls, comms, finished>>
  BY ExitOfTask
<1>2. PICK cs \in Callstack, new \in Callstack :
        /\ IF had THEN Merged(cs, objs[t][o], objs[t][n]) ELSE cs = objs[t][n]
        /\ failed' = (known /\ ~CanTakeSize(cs))
        /\ IF known /\ ~failed' THEN TookMessage(new, cs, comms[m].src, comms[m].size) ELSE new = cs
        /\ objs'[t] = [objs[t] EXCEPT ![o] = new]
  BY ExitOfTask
<1>3. /\ PoolInv(t) /\ CommMapInv(t)
      /\ KindInv /\ SplitInv /\ \A u \in Task : /\ OpenSizes(u)
                                                /\ \A q \in DOMAIN callstack_pool[u] : PoolSizes(u, q)
  BY DEF MapsInv, ValuesInv
<1>4. /\ n \in Nat /\ n # 0 /\ Over(t) = n - 1 /\ Over(t)' = n /\ n > Over(t)
      /\ \A i \in 1..n : i \in 1..(n - 1) \/ i = n
      /\ o \in 1..n /\ calls[t][o] = p
      /\ callstack_pool'[t] = Put(callstack_pool[t], p, o)
  <2>1. /\ n \in Nat /\ n # 0 /\ Over(t) = n - 1 /\ Over(t)' = n
        /\ o \in 1..n /\ calls[t][o] = p
        /\ callstack_pool'[t] = Put(callstack_pool[t], p, o)
    BY <1>3, ExitCalls
  <2>2. n > Over(t) /\ \A i \in 1..n : i \in 1..(n - 1) \/ i = n
    BY <2>1
  <2>3. QED
    BY <2>1, <2>2
<1>5. /\ objs[t] \in Seq(Callstack) /\ Len(objs[t]) = n
      /\ \A i \in 1..n : objs[t][i] \in Callstack
  BY TaskFacts
<1>6. /\ DOMAIN callstack_pool[t] = {calls[t][i] : i \in 1..(n - 1)}
      /\ \A q \in DOMAIN callstack_pool[t] : /\ callstack_pool[t][q] \in 1..(n - 1)
                                             /\ calls[t][callstack_pool[t][q]] = q
  BY <1>3, <1>4 DEF PoolInv
<1>7. objs'[t][o] = new /\ \A i \in 1..n : i # o => objs'[t][i] = objs[t][i]
  <2> HIDE DEF o
  <2>1. QED
    BY <1>2, <1>4, <1>5
<1>8. /\ DOMAIN callstack_pool'[t] = DOMAIN callstack_pool[t] \cup {p}
      /\ callstack_pool'[t][p] = o
      /\ \A q \in DOMAIN callstack_pool[t] : q # p => callstack_pool'[t][q] = callstack_pool[t][q]
  BY <1>4 DEF Put
<1> DEFINE ms == Messages(t, p)
           es == SentBy(t, n)
           rs == ReceivedBy(t, n)
<1>9. /\ ms \cap es = {} /\ rs \cap (ms \cup es) = {}
      /\ ms \subseteq 1..Len(comms)
  BY <1>4, MessageSets
<1>10. /\ Fresh(objs[t][n]) /\ Holds(objs[t][n], es) /\ objs[t][n] \in Callstack
       /\ objs[t][o] \in Callstack
  BY <1>1, <1>3, <1>4, <1>5 DEF OpenSizes
<1>11. known => /\ m \in Nat \ {0} /\ m \notin ms \cup es /\ comms[m].size = m /\ p \in RecvPath
  <2>1. SUFFICES ASSUME known
                 PROVE  m \in Nat \ {0} /\ m \notin ms \cup es /\ comms[m].size = m /\ p \in RecvPath
    OBVIOUS
  <2>2. m \in rs
    BY <1>1, <1>3, <2>1 DEF CommMapInv
  <2>3. m \in 1..Len(comms) /\ comms[m].dst = t /\ comms[m].di = n
    BY <2>2 DEF ReceivedBy
  <2>4. comms[m].size = m /\ p \in RecvPath
    <3> HIDE DEF m
    <3>1. comms[m].di <= Len(calls[comms[m].dst])
      BY <1>4, <2>3
    <3>2. QED
      BY <1>3, <2>3, <3>1 DEF KindInv
  <2> HIDE DEF m, ms, es, rs
  <2>5. QED
    BY <1>9, <2>2, <2>3, <2>4, TaskFacts
<1>12. rs = IF known THEN {m} ELSE {}
  <2>1. known <=> rs # {}
    BY <1>1, <1>3, <1>4 DEF CommMapInv
  <2>2. known => m \in rs
    BY <1>1, <1>3 DEF CommMapInv
  <2>3. \A i, j \in rs : i = j
    BY <1>1 DEF MessagesInv
  <2> HIDE DEF known, m, rs
  <2>4. QED
    BY <2>1, <2>2, <2>3
<1>13. Split \/ p \in RecvPath => es = {}
  <2>1. Split => comms = <<>>
    BY <1>1, <1>3 DEF SplitInv
  <2>2. Split => es = {}
    BY <2>1 DEF SentBy
  <2>3. ASSUME NEW i \in es
        PROVE  p \in SendPath
    <3>1. i \in 1..Len(comms) /\ comms[i].src = t /\ comms[i].si = n
      BY <2>3 DEF SentBy
    <3>2. comms[i].si <= Len(calls[comms[i].src])
      BY <1>4, <3>1
    <3>3. QED
      BY <1>3, <3>1, <3>2 DEF KindInv
  <2>4. p \in RecvPath => p \notin SendPath
    BY PathAssumption
  <2>5. QED
    BY <2>2, <2>3, <2>4
<1>14. ~had => ms = {}
  <2>1. SUFFICES ASSUME ~had, NEW i \in ms
                 PROVE  FALSE
    OBVIOUS
  <2>2. PICK k \in 1..Over(t) : calls[t][k] = p
    BY MessageSets
  <2>3. QED
    BY <1>4, <1>6, <2>1, <2>2
<1>15. /\ Indexed(cs) /\ Holds(cs, ms \cup es)
       /\ Split \/ p \in RecvPath => Room(cs)
       /\ had => Repetitions(cs) # 1
  <2>1. CASE had
    <3>1. Pooled(t, p) = objs[t][o] /\ PoolSizes(t, p)
      BY <1>3, <2>1 DEF Pooled
    <3>2. /\ Indexed(objs[t][o]) /\ Holds(objs[t][o], ms)
          /\ Split \/ p \in RecvPath => Room(objs[t][o])
      BY <3>1 DEF PoolSizes
    <3>3. Merged(cs, objs[t][o], objs[t][n])
      BY <1>2, <2>1
    <3> HIDE DEF o, n, ms, es, p, had
    <3>4. Indexed(cs)
      BY <1>10, <3>2, <3>3, MergedIndexed
    <3>5. /\ Holds(cs, ms \cup es) /\ Repetitions(cs) # 1
          /\ Room(objs[t][o]) /\ es = {} => Room(cs)
      BY <1>9, <1>10, <3>2, <3>3, MergedHolds
    <3>6. QED
      BY <1>13, <3>2, <3>4, <3>5
  <2>2. CASE ~had
    <3>1. ms \cup es = es /\ cs = objs[t][n]
      BY <1>2, <1>14, <2>2
    <3> HIDE DEF ms, es, n, p, had
    <3>2. 1 \in Nat \ {0}
      OBVIOUS
    <3>3. Room(cs)
      BY <1>10, <3>1, <3>2, HoldsOne
    <3>4. QED
      BY <1>10, <2>2, <3>1, <3>3 DEF Fresh
  <2>3. QED
    BY <2>1, <2>2
<1>16. /\ Indexed(new) /\ Holds(new, (ms \cup es) \cup rs) /\ Repetitions(new) = Repetitions(cs)
       /\ Split \/ p \in RecvPath => Room(new)
  <2> HIDE DEF known, m, ms, es, rs, had, p, o, n
  <2>1. CASE known
    <3>1. CanTakeSize(cs) /\ TookMessage(new, cs, comms[m].src, m)
      BY <1>2, <1>11, <2>1
    <3>2. Repetitions(cs) = 1 => ms \cup es = {}
      BY <1>11, <1>13, <1>14, <1>15, <2>1
    <3>3. Indexed(new)
      BY <1>15, <3>1, TookIndexed
    <3>4. Holds(new, (ms \cup es) \cup {m}) /\ Room(new)
      BY <1>11, <1>15, <2>1, <3>1, <3>2, TookHolds
    <3>5. Repetitions(new) = Repetitions(cs)
      BY <3>1 DEF TookMessage, Repetitions
    <3>6. QED
      BY <1>12, <2>1, <3>3, <3>4, <3>5
  <2>2. CASE ~known
    <3>1. new = cs /\ (ms \cup es) \cup rs = ms \cup es
      BY <1>2, <1>12, <2>2
    <3>2. QED
      BY <1>15, <3>1
  <2>3. QED
    BY <2>1, <2>2
<1>17. ASSUME NEW q \in DOMAIN callstack_pool'[t]
       PROVE  PoolSizes(t, q)'
  <2>1. CASE q = p
    <3>1. Pooled(t, q)' = new
      <4> HIDE DEF o, p, n
      <4>1. QED
        BY <1>7, <1>8, <2>1 DEF Pooled
    <3>2. Messages(t, q)' = (ms \cup es) \cup rs
      BY <1>3, <2>1, ExitMessages
    <3>3. Single(t, q)'
      <4>1. SUFFICES ASSUME Repetitions(new) = 1
                     PROVE  \A k \in 1..n : calls[t][k] = p => k = o
        <5> HIDE DEF o, p, n
        <5>1. QED
          BY <1>1, <1>4, <1>8, <2>1, <3>1, <4>1 DEF Single
      <4>2. ~had
        BY <1>15, <1>16, <4>1
      <4>3. QED
        BY <1>4, <1>6, <4>2
    <3> HIDE DEF p, ms, es, rs
    <3>4. QED
      BY <1>16, <2>1, <3>1, <3>2, <3>3 DEF PoolSizes
  <2>2. CASE q # p
    <3>1. q \in DOMAIN callstack_pool[t] /\ callstack_pool'[t][q] = callstack_pool[t][q]
      BY <1>8, <2>2
    <3>2. callstack_pool[t][q] \in 1..n /\ callstack_pool[t][q] # o
      <4>1. callstack_pool[t][q] \in 1..(n - 1) /\ calls[t][callstack_pool[t][q]] = q
        BY <1>6, <3>1
      <4> HIDE DEF o, p, n
      <4>2. QED
        BY <1>4, <2>2, <4>1
    <3>3. Messages(t, q)' = Messages(t, q)
      BY <1>3, <2>2, ExitMessages
    <3>4. PoolSizes(t, q)
      BY <1>3, <3>1
    <3>5. calls[t][n] = p
      OBVIOUS
    <3> HIDE DEF o, p, n
    <3>6. Pooled(t, q)' = Pooled(t, q)
      BY <1>7, <3>1, <3>2 DEF Pooled
    <3>7. Single(t, q)'
      BY <1>1, <1>4, <2>2, <3>1, <3>4, <3>5, <3>6 DEF PoolSizes, Single
    <3>8. QED
      BY <3>3, <3>4, <3>6, <3>7 DEF PoolSizes
  <2>3. QED
    BY <2>1, <2>2
<1>18. OpenSizes(t)'
  BY <1>1 DEF OpenSizes
<1>19. ASSUME NEW u \in Task, u # t
       PROVE  OpenSizes(u)' /\ \A q \in DOMAIN callstack_pool'[u] : PoolSizes(u, q)'
  BY <1>1, <1>3, <1>19, OthersKeepValues DEF SameOf
<1>20. KindInv'
  BY <1>1, <1>3 DEF KindInv
<1>21. SplitInv'
  BY <1>1, <1>3 DEF SplitInv
<1>22. QED
  BY <1>17, <1>18, <1>19, <1>20, <1>21 DEF ValuesInv

(* The objects that a communication record finds, among those of the pool    *)
(* and of the open calls.                                                    *)
LEMMA CommObjects ==
  ASSUME Types, MapsInv, NEW src \in Task, NEW dst \in Task, NEW si \in Call, NEW di \in Call,
         Comm(src, si, dst, di)
  PROVE  LET sOpen == si \in DOMAIN mpi_init_hashmap[src]
             so    == mpi_init_hashmap[src][si]
             rOpen == di \in DOMAIN mpi_fini_hashmap[dst]
             ro    == mpi_fini_hashmap[dst][di]
         IN /\ \A p \in DOMAIN callstack_pool[src] :
                 sOpen /\ callstack_pool[src][p] = so <=> si <= Over(src) /\ calls[src][si] = p
            /\ \A p \in DOMAIN callstack_pool[dst] :
                 rOpen /\ callstack_pool[dst][p] = ro <=> di <= Over(dst) /\ calls[dst][di] = p
            /\ mpi_opened[src] => (sOpen /\ so = Len(calls[src]) <=> si = Len(calls[src]))
            /\ mpi_opened[dst] => ~(rOpen /\ ro = Len(calls[dst]))
<1> DEFINE sOpen == si \in DOMAIN mpi_init_hashmap[src]
           so    == mpi_init_hashmap[src][si]
           rOpen == di \in DOMAIN mpi_fini_hashmap[dst]
           ro    == mpi_fini_hashmap[dst][di]
<1>1. /\ Len(calls[src]) \in Nat /\ Over(src) \in Nat /\ Over(src) <= Len(calls[src])
      /\ Len(calls[dst]) \in Nat /\ Over(dst) \in Nat /\ Over(dst) <= Len(calls[dst])
      /\ mpi_opened[dst] => Over(dst) = Len(calls[dst]) - 1
      /\ mpi_opened[src] => Len(calls[src]) # 0
      /\ si \in Nat /\ si # 0 /\ di \in Nat /\ di # 0
      /\ PoolInv(src) /\ PoolInv(dst)
  BY TaskFacts DEF Call, MapsInv
<1>2. /\ sOpen <=> si <= Len(calls[src])
      /\ sOpen => so = ObjectOf(src, si)
      /\ rOpen <=> di <= Over(dst)
      /\ rOpen => ro = ObjectOf(dst, di)
  <2>1. /\ DOMAIN mpi_init_hashmap[src] = {i \in 1..Len(calls[src]) : SentBy(src, i) = {}}
        /\ \A i \in DOMAIN mpi_init_hashmap[src] : mpi_init_hashmap[src][i] = ObjectOf(src, i)
        /\ DOMAIN mpi_fini_hashmap[dst] = {i \in 1..Over(dst) : ReceivedBy(dst, i) = {}}
        /\ \A i \in DOMAIN mpi_fini_hashmap[dst] : mpi_fini_hashmap[dst][i] = ObjectOf(dst, i)
    BY DEF MapsInv, InitMapInv, FiniMapInv
  <2>2. SentBy(src, si) = {} /\ ReceivedBy(dst, di) = {}
    BY CommSets
  <2>3. QED
    BY <1>1, <2>1, <2>2
<1> HIDE DEF sOpen, so, rOpen, ro
<1>3. ASSUME NEW p \in DOMAIN callstack_pool[src]
      PROVE  sOpen /\ callstack_pool[src][p] = so <=> si <= Over(src) /\ calls[src][si] = p
  <2>1. CASE sOpen
    <3>1. callstack_pool[src][p] = ObjectOf(src, si) <=> si <= Over(src) /\ calls[src][si] = p
      BY <1>1, <1>2, <2>1, ObjectFound
    <3>2. QED
      BY <1>2, <2>1, <3>1
  <2>2. CASE ~sOpen
    BY <1>1, <1>2, <2>2
  <2>3. QED
    BY <2>1, <2>2
<1>4. ASSUME NEW p \in DOMAIN callstack_pool[dst]
      PROVE  rOpen /\ callstack_pool[dst][p] = ro <=> di <= Over(dst) /\ calls[dst][di] = p
  <2>1. CASE rOpen
    <3>1. di <= Len(calls[dst])
      BY <1>1, <1>2, <2>1
    <3>2. callstack_pool[dst][p] = ObjectOf(dst, di) <=> di <= Over(dst) /\ calls[dst][di] = p
      BY <1>1, <3>1, ObjectFound
    <3>3. QED
      BY <1>2, <2>1, <3>2
  <2>2. CASE ~rOpen
    BY <1>1, <1>2, <2>2
  <2>3. QED
    BY <2>1, <2>2
<1>5. mpi_opened[src] => (sOpen /\ so = Len(calls[src]) <=> si = Len(calls[src]))
  <2>1. CASE sOpen
    <3>1. mpi_opened[src] => (ObjectOf(src, si) = Len(calls[src]) <=> si = Len(calls[src]))
      BY <1>1, <1>2, <2>1, ObjectFound
    <3>2. QED
      BY <1>2, <2>1, <3>1
  <2>2. CASE ~sOpen
    BY <1>1, <1>2, <2>2
  <2>3. QED
    BY <2>1, <2>2
<1>6. mpi_opened[dst] => ~(rOpen /\ ro = Len(calls[dst]))
  <2>1. SUFFICES ASSUME mpi_opened[dst], rOpen
                 PROVE  ro # Len(calls[dst])
    OBVIOUS
  <2>2. di <= Len(calls[dst]) /\ di # Len(calls[dst])
    BY <1>1, <1>2, <2>1
  <2>3. ObjectOf(dst, di) = Len(calls[dst]) <=> di = Len(calls[dst])
    BY <1>1, <2>1, <2>2, ObjectFound
  <2>4. QED
    BY <1>2, <2>1, <2>2, <2>3
<1>7. QED
  BY <1>3, <1>4, <1>5, <1>6 DEF sOpen, so, rOpen, ro

LEMMA KindComm ==
  ASSUME Types, KindInv, SplitInv,
         NEW src \in Task, NEW dst \in Task, NEW si \in Call, NEW di \in Call,
         Comm(src, si, dst, di)
  PROVE  KindInv' /\ SplitInv'
<1> DEFINE n == Len(comms) + 1
<1>1. MayBe(src, si, SendPath) /\ MayBe(dst, di, RecvPath)
  BY DEF Comm
<1>2. /\ Len(comms') = n /\ \A m \in 1..n : m # n => m \in 1..Len(comms)
      /\ \A m \in 1..Len(comms) : m # n /\ m \in 1..n /\ comms'[m] = comms[m]
      /\ comms'[n].src = src /\ comms'[n].si = si
      /\ comms'[n].dst = dst /\ comms'[n].di = di /\ comms'[n].size = n
  BY CommSets
<1>3. /\ UNCHANGED <<calls, mpi_opened>>
      /\ Split => AfterAllEvents(Communication(src, si, dst, di))
  BY CommEffect
<1> HIDE DEF n
<1>4. KindInv'
  BY <1>1, <1>2, <1>3 DEF KindInv, MayBe
<1>5. SplitInv'
  BY <1>3 DEF SplitInv, AfterAllEvents
<1>6. QED
  BY <1>4, <1>5

(* A callstack of the pool takes the message of one of its calls.            *)
LEMMA PooledTakes ==
  ASSUME Types, MessagesInv, NEW t \in Task, NEW p \in DOMAIN callstack_pool[t], PoolSizes(t, p),
         NEW k \in 1..Over(t), calls[t][k] = p, SentBy(t, k) = {}, ReceivedBy(t, k) = {},
         Split \/ p \in RecvPath, Pooled(t, p) \in Callstack, CanTakeSize(Pooled(t, p)),
         NEW new, NEW q, TookMessage(new, Pooled(t, p), q, Len(comms) + 1)
  PROVE  /\ Indexed(new) /\ Holds(new, Messages(t, p) \cup {Len(comms) + 1}) /\ Room(new)
         /\ Repetitions(new) = Repetitions(Pooled(t, p))
<1> DEFINE cs == Pooled(t, p)
           ms == Messages(t, p)
           n  == Len(comms) + 1
<1>1. Indexed(cs) /\ Holds(cs, ms) /\ Room(cs) /\ Single(t, p)
  BY DEF PoolSizes
<1>2. n \in Nat \ {0} /\ n \notin ms
  <2>1. ms \subseteq 1..Len(comms) /\ Len(comms) \in Nat
    BY MessageSets, TaskFacts
  <2> HIDE DEF ms
  <2>2. QED
    BY <2>1
<1>3. Repetitions(cs) = 1 => ms = {}
  <2>1. SUFFICES ASSUME Repetitions(cs) = 1, NEW m \in ms
                 PROVE  FALSE
    OBVIOUS
  <2>2. PICK i \in 1..Over(t) : calls[t][i] = p /\ m \in SentBy(t, i) \cup ReceivedBy(t, i)
    BY MessageSets
  <2>3. i = k
    BY <1>1, <2>1, <2>2 DEF Single
  <2>4. QED
    BY <2>2, <2>3
<1> HIDE DEF cs, ms, n
<1>4. cs \in Callstack /\ CanTakeSize(cs) /\ TookMessage(new, cs, q, n)
  BY DEF cs, n
<1>5. Indexed(new) /\ Repetitions(new) = Repetitions(cs)
  BY <1>1, <1>4, TookIndexed DEF TookMessage, Repetitions
<1>6. Holds(new, ms \cup {n}) /\ Room(new)
  BY <1>1, <1>2, <1>3, <1>4, TookHolds
<1>7. QED
  BY <1>5, <1>6 DEF cs, ms, n

LEMMA ValuesComm ==
  ASSUME Types, MapsInv, MessagesInv, ValuesInv,
         NEW src \in Task, NEW dst \in Task, NEW si \in Call, NEW di \in Call,
         Comm(src, si, dst, di), ~failed'
  PROVE  ValuesInv'
<1> DEFINE n     == Len(comms) + 1
           sOpen == si \in DOMAIN mpi_init_hashmap[src]
           so    == mpi_init_hashmap[src][si]
           rOpen == di \in DOMAIN mpi_fini_hashmap[dst]
           ro    == mpi_fini_hashmap[dst][di]
<1>1. /\ UNCHANGED <<calls, mpi_opened, callstack_pool>>
      /\ \A t \in Task : Len(objs'[t]) = Len(objs[t])
      /\ failed' = (\/ sOpen /\ ~CanTakeSize(objs[src][so])
                    \/ rOpen /\ ~CanTakeSize(objs[dst][ro]))
      /\ IF Split THEN AfterAllEvents(Communication(src, si, dst, di))
         ELSE InTimeOrder(Communication(src, si, dst, di))
      /\ MessageIsTaken(src, dst, si, di)
  BY CommEffect
<1>2. \A t \in Task : \A j \in 1..Len(objs[t]) :
        IF t = src /\ sOpen /\ j = so THEN TookMessage(objs'[t][j], objs[t][j], dst, n)
        ELSE IF t = dst /\ rOpen /\ j = ro THEN TookMessage(objs'[t][j], objs[t][j], src, n)
        ELSE objs'[t][j] = objs[t][j]
  BY <1>1 DEF MessageIsTaken
<1>3. /\ src # dst /\ n \in Nat /\ n \in 1..n
      /\ SentBy(src, si) = {} /\ ReceivedBy(src, si) = {}
      /\ SentBy(dst, di) = {} /\ ReceivedBy(dst, di) = {}
      /\ Len(comms') = n /\ \A m \in 1..n : m # n => m \in 1..Len(comms)
      /\ \A m \in 1..Len(comms) : m # n /\ m \in 1..n /\ comms'[m] = comms[m]
      /\ comms'[n].src = src /\ comms'[n].si = si
      /\ comms'[n].dst = dst /\ comms'[n].di = di
      /\ \A t, k : SentBy(t, k)' = IF t = src /\ k = si THEN {n} ELSE SentBy(t, k)
  BY CommSets
<1>4. /\ \A p \in DOMAIN callstack_pool[src] :
           sOpen /\ callstack_pool[src][p] = so <=> si <= Over(src) /\ calls[src][si] = p
      /\ \A p \in DOMAIN callstack_pool[dst] :
           rOpen /\ callstack_pool[dst][p] = ro <=> di <= Over(dst) /\ calls[dst][di] = p
      /\ mpi_opened[src] => (sOpen /\ so = Len(calls[src]) <=> si = Len(calls[src]))
      /\ mpi_opened[dst] => ~(rOpen /\ ro = Len(calls[dst]))
  BY CommObjects
<1>5. /\ KindInv /\ SplitInv /\ \A t \in Task : /\ OpenSizes(t)
                                                /\ \A p \in DOMAIN callstack_pool[t] : PoolSizes(t, p)
  BY DEF ValuesInv
<1>6. \A t \in Task : Over(t)' = Over(t)
  BY <1>1 DEF Over
<1>7. /\ Over(src) \in Nat /\ Over(src) <= Len(calls[src]) /\ Len(calls[src]) \in Nat
      /\ Over(dst) \in Nat /\ Over(dst) <= Len(calls[dst]) /\ Len(calls[dst]) \in Nat
      /\ si \in Nat \ {0} /\ di \in Nat \ {0}
      /\ mpi_opened[src] => Over(src) = Len(calls[src]) - 1
      /\ ~mpi_opened[src] => Over(src) = Len(calls[src])
  BY TaskFacts, BoundAssumption DEF Call
(* Only in a trace in several files is a message sent by a call that is over. *)
<1>8. si <= Over(src) => Split
  <2>1. ~Split => IF mpi_opened[src] THEN si = Len(calls[src]) ELSE si = Len(calls[src]) + 1
    BY <1>1 DEF InTimeOrder, Communication
  <2>2. QED
    BY <1>7, <2>1
<1>9. di <= Over(dst) => calls[dst][di] \in RecvPath
  BY <1>7 DEF Comm, MayBe
<1> HIDE DEF n, sOpen, so, rOpen, ro
<1>10. ASSUME NEW t \in Task, NEW p
       PROVE  Messages(t, p)' = Messages(t, p)
                \cup (IF t = src /\ si <= Over(src) /\ calls[src][si] = p THEN {n} ELSE {})
                \cup (IF t = dst /\ di <= Over(dst) /\ calls[dst][di] = p THEN {n} ELSE {})
  <2>1. Sends(t, p)' = Sends(t, p)
          \cup (IF t = src /\ si <= Over(src) /\ calls[src][si] = p THEN {n} ELSE {})
    BY <1>1, <1>3, <1>6 DEF Sends
  <2>2. Recvs(t, p)' = Recvs(t, p)
          \cup (IF t = dst /\ di <= Over(dst) /\ calls[dst][di] = p THEN {n} ELSE {})
    BY <1>1, <1>3, <1>6 DEF Recvs
  <2>3. QED
    BY <2>1, <2>2 DEF Messages
<1>11. ASSUME NEW t \in Task, NEW p \in DOMAIN callstack_pool[t]
       PROVE  PoolSizes(t, p)'
  <2> DEFINE j == callstack_pool[t][p]
  <2>1. /\ j \in 1..Len(objs[t]) /\ objs[t][j] \in Callstack
        /\ Pooled(t, p) = objs[t][j] /\ Pooled(t, p)' = objs'[t][j]
    BY <1>1, TaskFacts, SMTT(30) DEF MapsInv, PoolInv, Pooled
  <2>2. PoolSizes(t, p)
    BY <1>5
  <2>3. SUFFICES /\ Indexed(objs'[t][j]) /\ Holds(objs'[t][j], Messages(t, p)')
                 /\ Split \/ p \in RecvPath => Room(objs'[t][j])
                 /\ Repetitions(objs'[t][j]) = Repetitions(objs[t][j])
    <3> HIDE DEF j
    <3>1. Single(t, p)'
      BY <1>1, <1>6, <2>1, <2>2, <2>3 DEF Single, PoolSizes
    <3>2. QED
      BY <2>1, <2>3, <3>1 DEF PoolSizes
  <2>4. CASE t = src /\ si <= Over(src) /\ calls[src][si] = p
    <3>1. sOpen /\ j = so
      BY <1>4, <2>4
    <3>2. TookMessage(objs'[t][j], Pooled(t, p), dst, n) /\ CanTakeSize(Pooled(t, p))
      BY <1>1, <1>2, <2>1, <2>4, <3>1
    <3>3. Messages(t, p)' = Messages(t, p) \cup {n}
      BY <1>3, <1>10, <2>4
    <3>4. Split /\ si \in 1..Over(t) /\ calls[t][si] = p /\ SentBy(t, si) = {} /\ ReceivedBy(t, si) = {}
      BY <1>3, <1>7, <1>8, <2>4
    <3> DEFINE new == objs'[t][j]
    <3> HIDE DEF new, j
    <3>5. TookMessage(new, Pooled(t, p), dst, Len(comms) + 1) /\ Pooled(t, p) \in Callstack
      BY <2>1, <3>2 DEF n, new
    <3>6. /\ Indexed(new) /\ Holds(new, Messages(t, p) \cup {Len(comms) + 1}) /\ Room(new)
          /\ Repetitions(new) = Repetitions(Pooled(t, p))
      BY <2>2, <3>2, <3>4, <3>5, PooledTakes
    <3>7. QED
      BY <2>1, <3>3, <3>6 DEF n, new
  <2>5. CASE t = dst /\ di <= Over(dst) /\ calls[dst][di] = p
    <3>1. rOpen /\ j = ro /\ t # src
      BY <1>3, <1>4, <2>5
    <3>2. TookMessage(objs'[t][j], Pooled(t, p), src, n) /\ CanTakeSize(Pooled(t, p))
      BY <1>1, <1>2, <2>1, <2>5, <3>1
    <3>3. Messages(t, p)' = Messages(t, p) \cup {n}
      BY <1>3, <1>10, <2>5
    <3>4. /\ p \in RecvPath /\ di \in 1..Over(t) /\ calls[t][di] = p
          /\ SentBy(t, di) = {} /\ ReceivedBy(t, di) = {}
      BY <1>3, <1>7, <1>9, <2>5
    <3> DEFINE new == objs'[t][j]
    <3> HIDE DEF new, j
    <3>5. TookMessage(new, Pooled(t, p), src, Len(comms) + 1) /\ Pooled(t, p) \in Callstack
      BY <2>1, <3>2 DEF n, new
    <3>6. /\ Indexed(new) /\ Holds(new, Messages(t, p) \cup {Len(comms) + 1}) /\ Room(new)
          /\ Repetitions(new) = Repetitions(Pooled(t, p))
      BY <2>2, <3>2, <3>4, <3>5, PooledTakes
    <3>7. QED
      BY <2>1, <3>3, <3>6 DEF n, new
  <2>6. CASE /\ ~(t = src /\ si <= Over(src) /\ calls[src][si] = p)
             /\ ~(t = dst /\ di <= Over(dst) /\ calls[dst][di] = p)
    <3>1. ~(t = src /\ sOpen /\ j = so) /\ ~(t = dst /\ rOpen /\ j = ro)
      BY <1>4, <2>6
    <3>2. objs'[t][j] = Pooled(t, p)
      BY <1>2, <2>1, <3>1
    <3>3. Messages(t, p)' = Messages(t, p)
      BY <1>10, <2>6
    <3> HIDE DEF j
    <3>4. QED
      BY <2>1, <2>2, <3>2, <3>3 DEF PoolSizes
  <2>7. QED
    BY <2>4, <2>5, <2>6
<1>12. ASSUME NEW t \in Task
       PROVE  OpenSizes(t)'
  <2> DEFINE k == Len(calls[t])
  <2>1. SUFFICES ASSUME mpi_opened[t]
                 PROVE  /\ Fresh(objs'[t][k])
                        /\ Holds(objs'[t][k], IF t = src /\ k = si THEN {n} ELSE SentBy(t, k))
    BY <1>1, <1>3 DEF OpenSizes
  <2>2. /\ k \in 1..Len(objs[t]) /\ objs[t][k] \in Callstack
    BY <2>1, TaskFacts
  <2>3. Fresh(objs[t][k]) /\ Holds(objs[t][k], SentBy(t, k))
    BY <1>5, <2>1 DEF OpenSizes
  <2>4. ~(t = dst /\ rOpen /\ k = ro) /\ (t = src => (sOpen /\ k = so <=> k = si))
    BY <1>4, <2>1
  <2> HIDE DEF k
  <2>5. CASE t = src /\ k = si
    <3>1. TookMessage(objs'[t][k], objs[t][k], dst, n)
      BY <1>2, <2>2, <2>4, <2>5
    <3>2. (IF t = src /\ k = si THEN {n} ELSE SentBy(t, k)) = {n}
      BY <2>5
    <3>3. CanTakeSize(objs[t][k]) /\ Indexed(objs[t][k])
      BY <2>3, FreshCanTake DEF Fresh
    <3>4. Fresh(objs'[t][k])
      BY <2>2, <2>3, <3>1, <3>3, TookIndexed
    <3>5. n \in Nat \ {0} /\ objs'[t][k] \in Callstack /\ objs'[t][k].size = n
      BY <1>3, <2>3, <3>1 DEF TookMessage, TookSize, Fresh
    <3>6. QED
      BY <3>2, <3>4, <3>5, HoldsOne
  <2>6. CASE ~(t = src /\ k = si)
    <3>1. objs'[t][k] = objs[t][k]
      BY <1>2, <2>2, <2>4, <2>6
    <3>2. QED
      BY <2>3, <2>6, <3>1
  <2>7. QED
    BY <2>5, <2>6
<1>13. KindInv' /\ SplitInv'
  BY <1>5, KindComm
<1>14. QED
  BY <1>1, <1>11, <1>12, <1>13 DEF ValuesInv


(* calc_reduce_info: what is left of the sizes is their sum.                 *)
LEMMA ReducedHolds ==
  ASSUME NEW cs \in Callstack, NEW ms, Indexed(cs), Holds(cs, ms)
  PROVE  Reduced(cs).size = SumSet(ms)
<1> DEFINE l == SizesOf(cs)
<1>1. /\ l \in Seq(Nat) /\ cs.size \in Nat
      /\ l = IF Repetitions(cs) = 1 THEN <<cs.size>> ELSE cs.sizes
  BY SizesOfFacts
<1>2. ToSet(l) \ {0} = ms /\ Injective(l)
  BY DEF Holds
<1> HIDE DEF l
<1>3. Total(l) = SumSet(ms)
  <2>1. ToSet(l) = {l[i] : i \in 1..Len(l)}
    BY <1>1, ToSetIs
  <2>2. QED
    BY <1>1, <1>2, <2>1, TotalIsSum
<1>4. CASE Repetitions(cs) = 1
  <2>1. {cs.size} \ {0} = ms
    <3>1. ToSet(<<cs.size>>) = {cs.size}
      BY DEF ToSet
    <3>2. QED
      BY <1>1, <1>2, <1>4, <3>1
  <2>2. IsFiniteSet({}) /\ IsFiniteSet({cs.size}) /\ {cs.size} \subseteq Nat
    BY <1>1, FS_EmptySet, FS_Singleton
  <2>3. cs.size \in {cs.size} /\ {cs.size} \ {cs.size} = {}
    OBVIOUS
  <2>4. SumSet({cs.size}) = SumSet({}) + cs.size
    BY <2>2, <2>3, SumSetRemove
  <2>5. SumSet(ms) = cs.size
    <3>1. CASE cs.size = 0
      BY <2>1, <3>1, SumSetEmpty
    <3>2. CASE cs.size # 0
      <4>1. ms = {cs.size}
        BY <2>1, <3>2
      <4>2. QED
        BY <1>1, <2>4, <4>1, SumSetEmpty
    <3>3. QED
      BY <3>1, <3>2
  <2>6. QED
    BY <1>4, <2>5 DEF Reduced
<1>5. CASE Repetitions(cs) # 1
  <2>1. Reduced(cs).size = Total(cs.sizes)
    BY <1>5 DEF Reduced, Callstack
  <2>2. QED
    BY <1>1, <1>3, <1>5, <2>1
<1>6. QED
  BY <1>4, <1>5

LEMMA ValuesFinish ==
  ASSUME Types, MapsInv, ValuesInv, Finish
  PROVE  SizesExact'
<1>1. /\ UNCHANGED <<calls, comms, mpi_opened, callstack_pool>> /\ finished'
      /\ \A t \in Task : \A j \in 1..Len(objs[t]) :
           (\E p \in DOMAIN callstack_pool[t] : callstack_pool[t][p] = j)
             => objs'[t][j] = Reduced(objs[t][j])
  BY FinishEffect
<1>2. ASSUME NEW t \in Task, NEW p \in DOMAIN callstack_pool[t]
      PROVE  Pooled(t, p)'.size = SumSet((Sends(t, p) \cup Recvs(t, p))')
  <2> DEFINE j == callstack_pool[t][p]
  <2>1. j \in 1..Len(objs[t]) /\ objs[t][j] \in Callstack /\ Pooled(t, p) = objs[t][j]
    BY TaskFacts DEF MapsInv, PoolInv, Pooled
  <2>2. Pooled(t, p)' = Reduced(Pooled(t, p))
    BY <1>1, <2>1 DEF Pooled
  <2>3. Over(t)' = Over(t)
    BY <1>1 DEF Over
  <2>4. (Sends(t, p) \cup Recvs(t, p))' = Messages(t, p)
    BY <1>1, <2>3 DEF Messages, Sends, Recvs
  <2>5. Indexed(Pooled(t, p)) /\ Holds(Pooled(t, p), Messages(t, p))
    BY DEF ValuesInv, PoolSizes
  <2>6. QED
    BY <2>1, <2>2, <2>4, <2>5, ReducedHolds
<1>3. QED
  BY <1>1, <1>2 DEF SizesExact

LEMMA ValuesStart ==
  ASSUME Types, ValuesInv, NEW t \in Task, Start(t)
  PROVE  ValuesInv' /\ UNCHANGED finished
<1>1. UNCHANGED <<calls, comms, mpi_opened, finished>> /\ \A u : SameCalls(u)
  BY StartEffect DEF SameCalls
<1>2. KindInv' /\ SplitInv'
  BY <1>1 DEF ValuesInv, KindInv, SplitInv
<1>3. \A u \in Task : OpenSizes(u)' /\ \A p \in DOMAIN callstack_pool'[u] : PoolSizes(u, p)'
  BY <1>1, OthersKeepValues DEF ValuesInv
<1>4. QED
  BY <1>1, <1>2, <1>3 DEF ValuesInv

LEMMA ValuesExact == ValuesInv /\ ~finished => SizesExact
<1>1. SUFFICES ASSUME ValuesInv, ~finished, NEW t \in Task, NEW p \in DOMAIN callstack_pool[t]
               PROVE  LET cs == Pooled(t, p)
                      IN /\ Len(SizesOf(cs)) = Repetitions(cs)
                         /\ ToSet(SizesOf(cs)) \ {0} = Sends(t, p) \cup Recvs(t, p)
                         /\ \A i, j \in 1..Repetitions(cs) :
                              i # j /\ SizesOf(cs)[i] # 0 => SizesOf(cs)[i] # SizesOf(cs)[j]
  BY DEF SizesExact
<1>2. Holds(Pooled(t, p), Messages(t, p))
  BY <1>1 DEF ValuesInv, PoolSizes
<1>3. QED
  BY <1>2 DEF Holds, Injective, Messages

(* The invariant: while the trace is read, the sizes are those of the        *)
(* messages; afterwards, nothing happens to their sums.                      *)
ExactInv == /\ PartInv
            /\ ~failed /\ ~finished => ValuesInv
            /\ SizesExact

LEMMA ExactInit ==
  ASSUME Init
  PROVE  ExactInv
<1>1. PartInv /\ comms = <<>> /\ Len(<<>>) = 0
  BY PartInit DEF Init
<1>2. ASSUME NEW t \in Task
      PROVE  ~mpi_opened[t] /\ DOMAIN callstack_pool[t] = {}
  <2>1. mpi_opened[t] = FALSE /\ callstack_pool[t] = <<>> /\ DOMAIN <<>> = {}
    BY DEF Init
  <2>2. QED
    BY <2>1
<1>3. ValuesInv
  BY <1>1, <1>2 DEF ValuesInv, KindInv, SplitInv, OpenSizes
<1>4. SizesExact
  BY <1>2 DEF SizesExact
<1>5. QED
  BY <1>1, <1>3, <1>4 DEF ExactInv

LEMMA ExactStep ==
  ASSUME ExactInv, [Next]_vars
  PROVE  ExactInv'
<1>1. PartInv' /\ Types /\ Types'
  BY PartStep DEF ExactInv, PartInv
<1>2. ASSUME Next
      PROVE  ExactInv'
  <2>1. ~failed /\ ~finished
    BY <1>2 DEF Next, Start, Entry, Exit, Comm, Finish, Reading
  <2>2. MapsInv /\ MessagesInv /\ ValuesInv
    BY <2>1 DEF ExactInv, PartInv
  <2>3. CASE failed'
    BY <1>1, <2>3 DEF ExactInv, SizesExact
  <2>4. CASE ~failed' /\ Finish
    <3>1. SizesExact' /\ finished'
      BY <1>1, <2>2, <2>4, ValuesFinish, FinishEffect
    <3>2. QED
      BY <1>1, <3>1 DEF ExactInv
  <2>5. CASE ~failed' /\ ~Finish
    <3>1. ASSUME NEW t \in Task, NEW p \in Path, NEW hwc \in BOOLEAN, Entry(t, p, hwc)
          PROVE  ValuesInv' /\ UNCHANGED finished
      BY <1>1, <2>2, <2>5, <3>1, ValuesEntry, EntryOfTask, ZenonT(60)
    <3>2. ASSUME NEW t \in Task, NEW hwc \in BOOLEAN, Exit(t, hwc)
          PROVE  ValuesInv' /\ UNCHANGED finished
      BY <1>1, <2>2, <2>5, <3>2, ValuesExit, ExitOfTask
    <3>3. ASSUME NEW src \in Task, NEW dst \in Task, NEW si \in Call, NEW di \in Call,
                 Comm(src, si, dst, di)
          PROVE  ValuesInv' /\ UNCHANGED finished
      BY <1>1, <2>2, <2>5, <3>3, ValuesComm DEF Comm, CommRecord
    <3>4. ASSUME NEW t \in Task, Start(t)
          PROVE  ValuesInv' /\ UNCHANGED finished
      BY <1>1, <2>2, <3>4, ValuesStart
    <3>5. ValuesInv' /\ ~finished'
      BY <1>2, <2>1, <2>5, <3>1, <3>2, <3>3, <3>4 DEF Next
    <3>6. SizesExact'
      BY <3>5, ValuesExact, PTL
    <3>7. QED
      BY <1>1, <3>5, <3>6 DEF ExactInv
  <2>6. QED
    BY <2>3, <2>4, <2>5
<1>3. ASSUME UNCHANGED vars
      PROVE  ExactInv'
  <2>1. /\ UNCHANGED <<calls, comms, mpi_opened, objs, callstack_pool, failed, finished>>
        /\ \A t : SameOf(t)
    BY <1>3 DEF vars, SameOf, SameCalls
  <2>2. SizesExact'
    <3>1. \A t : Over(t)' = Over(t)
      BY <2>1 DEF Over
    <3>2. \A t, p : /\ Pooled(t, p)' = Pooled(t, p)
                    /\ Sends(t, p)' = Sends(t, p) /\ Recvs(t, p)' = Recvs(t, p)
      BY <2>1, <3>1 DEF Pooled, Sends, Recvs
    <3>3. SizesExact
      BY DEF ExactInv
    <3>4. QED
      BY <2>1, <3>2, <3>3 DEF SizesExact
  <2>3. ASSUME ValuesInv
        PROVE  ValuesInv'
    <3>1. KindInv' /\ SplitInv'
      BY <2>1, <2>3 DEF ValuesInv, KindInv, SplitInv
    <3>2. \A t \in Task : OpenSizes(t)' /\ \A p \in DOMAIN callstack_pool'[t] : PoolSizes(t, p)'
      BY <2>1, <2>3, OthersKeepValues DEF ValuesInv, SameOf
    <3>3. QED
      BY <2>1, <3>1, <3>2 DEF ValuesInv
  <2>4. QED
    BY <1>1, <2>1, <2>2, <2>3 DEF ExactInv
<1>4. QED
  BY <1>2, <1>3

(* SizesExact of CallstacksParser: in whatever order a communication and the *)
(* two calls it joins are read, and however many repetitions were merged in  *)
(* between, a callstack of the pool has the size of each message of its      *)
(* repetitions once, and no other (add_mpi_msg_size, merge and the           *)
(* dictionaries of __comms_handler); the reduction makes their sum of them   *)
(* (calc_reduce_info).                                                       *)
THEOREM SizesCorrect == Spec => []SizesExact
<1>1. Init => ExactInv
  BY ExactInit
<1>2. ExactInv /\ [Next]_vars => ExactInv'
  BY ExactStep
<1>3. ExactInv => SizesExact
  BY DEF ExactInv
<1>4. QED
  BY <1>1, <1>2, <1>3, PTL DEF Spec

-----------------------------------------------------------------------------
(* Counters. *)

(* The sum of the first values of an injective function.                     *)
LEMMA SumSetNext ==
  ASSUME NEW w \in [Nat -> Nat], \A i, j \in Nat : i # j => w[i] # w[j],
         NEW l \in Nat, NEW n \in Nat, l <= n
  PROVE  /\ SumSet({w[i] : i \in (l + 1)..n}) \in Nat
         /\ SumSet({w[i] : i \in (l + 1)..(n + 1)}) = SumSet({w[i] : i \in (l + 1)..n}) + w[n + 1]
         /\ SumSet({w[i] : i \in (n + 1)..n}) = 0
<1> DEFINE E(m) == {w[i] : i \in (l + 1)..m}
           T == {m \in Nat : IsFiniteSet(E(m))}
<1>1. \A m \in Nat : IsFiniteSet(E(m)) /\ E(m) \subseteq Nat
  <2>1. 0 \in T
    <3>1. E(0) = {}
      OBVIOUS
    <3>2. QED
      BY <3>1, FS_EmptySet
  <2>2. ASSUME NEW m \in Nat, m \in T
        PROVE  m + 1 \in T
    <3>1. E(m + 1) \subseteq E(m) \cup {w[m + 1]}
      OBVIOUS
    <3> HIDE DEF E
    <3>2. IsFiniteSet(E(m) \cup {w[m + 1]})
      BY <2>2, FS_AddElement
    <3>3. QED
      BY <3>1, <3>2, FS_Subset
  <2>3. \A m \in Nat : m \in T
    <3> HIDE DEF T
    <3>1. QED
      BY <2>1, <2>2, SetInduction
  <2>4. \A m \in Nat : E(m) \subseteq Nat
    OBVIOUS
  <2>5. QED
    BY <2>3, <2>4
<1>2. w[n + 1] \in E(n + 1) /\ E(n + 1) \ {w[n + 1]} = E(n)
  <2>1. (l + 1)..(n + 1) = ((l + 1)..n) \cup {n + 1} /\ n + 1 \notin (l + 1)..n
    OBVIOUS
  <2>2. \A i \in (l + 1)..n : w[i] # w[n + 1]
    OBVIOUS
  <2>3. QED
    BY <2>1, <2>2
<1>3. {w[i] : i \in (n + 1)..n} = {}
  OBVIOUS
<1> HIDE DEF E
<1>4. SumSet(E(n)) \in Nat
  BY <1>1, SumSetNat
<1>5. SumSet(E(n + 1)) = SumSet(E(n)) + w[n + 1]
  BY <1>1, <1>2, SumSetRemove
<1>6. QED
  BY <1>3, <1>4, <1>5, SumSetEmpty DEF E

(* The counters between a call l and the end of call m and of burst n, and   *)
(* what a repetition k that follows l says of the iteration.                 *)
Since(l, m, n) == SumSet({CallWork(i) : i \in (l + 1)..m}) + SumSet({BurstWork(i) : i \in (l + 1)..n})
Period(l, k)   == CallWork(l) + WorkBetween(l, k) - BurstWork(k)

LEMMA WorkFacts ==
  /\ \A k \in Nat : CallWork(k) \in Nat \ {0} /\ BurstWork(k) \in Nat /\ (k # 0 => BurstWork(k) # 0)
  /\ \A i, j \in Nat : i < j => BurstWork(i) < BurstWork(j)
BY DEF CallWork, BurstWork

LEMMA SinceSteps ==
  ASSUME NEW l \in Nat, NEW n \in Nat, l <= n
  PROVE  /\ Since(l, n, n) \in Nat
         /\ Since(l, n, n + 1) = Since(l, n, n) + BurstWork(n + 1)
         /\ Since(l, n + 1, n + 1) = Since(l, n, n + 1) + CallWork(n + 1)
         /\ Since(n, n, n) = 0
         /\ Period(l, n + 1) = CallWork(l) + Since(l, n, n)
<1> DEFINE C(m) == SumSet({CallWork(i) : i \in (l + 1)..m})
           B(m) == SumSet({BurstWork(i) : i \in (l + 1)..m})
<1>1. C(n) \in Nat /\ C(n + 1) = C(n) + CallWork(n + 1)
      /\ SumSet({CallWork(i) : i \in (n + 1)..n}) = 0
  <2> DEFINE w == [i \in Nat |-> 2 * i + 1]
  <2>1. w \in [Nat -> Nat] /\ \A i, j \in Nat : i # j => w[i] # w[j]
    OBVIOUS
  <2>2. \A i \in Nat : w[i] = CallWork(i)
    BY DEF CallWork
  <2> HIDE DEF w
  <2>3. /\ {CallWork(i) : i \in (l + 1)..n} = {w[i] : i \in (l + 1)..n}
        /\ {CallWork(i) : i \in (l + 1)..(n + 1)} = {w[i] : i \in (l + 1)..(n + 1)}
        /\ {CallWork(i) : i \in (n + 1)..n} = {w[i] : i \in (n + 1)..n}
        /\ CallWork(n + 1) = w[n + 1]
    BY <2>2
  <2>4. /\ SumSet({w[i] : i \in (l + 1)..n}) \in Nat
        /\ SumSet({w[i] : i \in (l + 1)..(n + 1)}) = SumSet({w[i] : i \in (l + 1)..n}) + w[n + 1]
        /\ SumSet({w[i] : i \in (n + 1)..n}) = 0
    BY <2>1, SumSetNext
  <2>5. QED
    BY <2>3, <2>4
<1>2. B(n) \in Nat /\ B(n + 1) = B(n) + BurstWork(n + 1)
      /\ SumSet({BurstWork(i) : i \in (n + 1)..n}) = 0
  <2> DEFINE w == [i \in Nat |-> 2 * i]
  <2>1. w \in [Nat -> Nat] /\ \A i, j \in Nat : i # j => w[i] # w[j]
    OBVIOUS
  <2>2. \A i \in Nat : w[i] = BurstWork(i)
    BY DEF BurstWork
  <2> HIDE DEF w
  <2>3. /\ {BurstWork(i) : i \in (l + 1)..n} = {w[i] : i \in (l + 1)..n}
        /\ {BurstWork(i) : i \in (l + 1)..(n + 1)} = {w[i] : i \in (l + 1)..(n + 1)}
        /\ {BurstWork(i) : i \in (n + 1)..n} = {w[i] : i \in (n + 1)..n}
        /\ BurstWork(n + 1) = w[n + 1]
    BY <2>2
  <2>4. /\ SumSet({w[i] : i \in (l + 1)..n}) \in Nat
        /\ SumSet({w[i] : i \in (l + 1)..(n + 1)}) = SumSet({w[i] : i \in (l + 1)..n}) + w[n + 1]
        /\ SumSet({w[i] : i \in (n + 1)..n}) = 0
    BY <2>1, SumSetNext
  <2>5. QED
    BY <2>3, <2>4
<1>3. \A m, k : Since(l, m, k) = C(m) + B(k)
  BY DEF Since
<1>4. Since(n, n, n) = 0
  BY <1>1, <1>2 DEF Since
<1>5. WorkBetween(l, n + 1) = C(n) + B(n + 1)
  <2>1. n + 1 - 1 = n
    OBVIOUS
  <2>2. QED
    BY <2>1 DEF WorkBetween
<1>6. CallWork(l) \in Nat /\ CallWork(n + 1) \in Nat /\ BurstWork(n + 1) \in Nat
  BY WorkFacts
<1> HIDE DEF C, B
<1>7. QED
  BY <1>1, <1>2, <1>3, <1>4, <1>5, <1>6 DEF Period

LEMMA AppendToOne ==
  ASSUME NEW a, NEW b, NEW l, l = <<a>>, NEW m, m = <<a, b>>
  PROVE  m = Append(l, b)
OBVIOUS

LEMMA AppendAt ==
  ASSUME NEW l \in Seq(Nat), NEW b \in Nat, NEW n, Len(l) = n, NEW m, m = Append(l, b)
  PROVE  /\ DOMAIN m = 1..(n + 1) /\ m[n + 1] = b
         /\ \A i \in 1..n : m[i] = l[i]
         /\ \A i \in 1..(n + 1) : i = n + 1 \/ i \in 1..n
<1>1. m \in Seq(Nat) /\ Len(m) = n + 1 /\ n \in Nat /\ DOMAIN m = 1..(n + 1)
  OBVIOUS
<1>2. m[n + 1] = b /\ \A i \in 1..n : m[i] = l[i]
  OBVIOUS
<1>3. \A i \in 1..(n + 1) : i = n + 1 \/ i \in 1..n
  BY <1>1
<1>4. QED
  BY <1>1, <1>2, <1>3

LEMMA ValuesFacts ==
  ASSUME NEW first \in Nat, NEW merged \in Seq(Nat), NEW next \in Nat
  PROVE  /\ Values(first, merged) \in Seq(Nat)
         /\ Values(first, Extended(merged, first, next)) = Append(Values(first, merged), next)
<1>1. CASE merged = <<>>
  <2>1. Extended(merged, first, next) = <<first, next>> /\ Values(first, merged) = <<first>>
    BY <1>1 DEF Extended, Values
  <2>2. Values(first, <<first, next>>) = <<first, next>>
    BY DEF Values
  <2>3. <<first>> \in Seq(Nat)
    OBVIOUS
  <2>4. Append(<<first>>, next) = <<first, next>>
    BY AppendToOne
  <2>5. QED
    BY <2>1, <2>2, <2>3, <2>4
<1>2. CASE merged # <<>>
  <2>1. Extended(merged, first, next) = Append(merged, next) /\ Values(first, merged) = merged
    BY <1>2 DEF Extended, Values
  <2>2. Append(merged, next) # <<>>
    OBVIOUS
  <2>3. Values(first, Append(merged, next)) = Append(merged, next)
    BY <2>2 DEF Values
  <2>4. QED
    BY <2>1, <2>3
<1>3. QED
  BY <1>1, <1>2

(* A list in order that a greater number is appended to.                     *)
LEMMA IncreasingAppend ==
  ASSUME NEW list \in Seq(Nat), Increasing(list), NEW k \in Nat, \A x \in ToSet(list) : x < k
  PROVE  /\ Increasing(Append(list, k)) /\ ToSet(Append(list, k)) = ToSet(list) \cup {k}
         /\ Append(list, k) \in Seq(Nat)
<1> DEFINE n   == Len(list)
           new == Append(list, k)
<1>1. new \in Seq(Nat) /\ Len(new) = n + 1 /\ n \in Nat
  OBVIOUS
<1>2. /\ \A j \in 1..(n + 1) : j \in 1..n \/ j = n + 1
      /\ \A j \in 1..n : j \in 1..(n + 1) /\ j # n + 1 /\ new[j] = list[j]
      /\ new[n + 1] = k /\ n + 1 \in 1..(n + 1)
  OBVIOUS
<1>3. ToSet(new) = {new[j] : j \in 1..(n + 1)} /\ ToSet(list) = {list[j] : j \in 1..n}
  BY <1>1, ToSetIs
<1>4. \A i, j \in 1..n : i < j => list[i] < list[j]
  BY DEF Increasing
<1>5. \A j \in 1..n : list[j] < k
  BY <1>3
<1> HIDE DEF n, new
<1>6. ToSet(new) = ToSet(list) \cup {k}
  BY <1>2, <1>3
<1>7. Increasing(new)
  <2>1. SUFFICES ASSUME NEW i \in 1..(n + 1), NEW j \in 1..(n + 1), i < j
                 PROVE  new[i] < new[j]
    BY <1>1 DEF Increasing
  <2>2. i \in 1..n
    BY <1>1, <2>1
  <2>3. QED
    BY <1>2, <1>4, <1>5, <2>1, <2>2
<1>8. QED
  BY <1>1, <1>6, <1>7 DEF new

(* What a callstack of the pool holds: the counters of its repetitions with  *)
(* counters; those of the bursts; what is known of a collective operation;   *)
(* and the counters of the iterations, if none were lost.                    *)
LateHwcs(cs, with) ==
  IF cs.hwc = 0 THEN cs.instants[1] \notin with /\ cs.hwcs = <<>>
  ELSE /\ cs.hwc = BurstWork(cs.instants[1])
       /\ Increasing(Values(cs.hwc, cs.hwcs))
       /\ ToSet(Values(cs.hwc, cs.hwcs)) = {BurstWork(l) : l \in with}

LateBursts(cs) ==
  Values(cs.burst, cs.bursts) = [i \in 1..Repetitions(cs) |-> CallWork(cs.instants[i] - 1)]

LateGlops(cs, p) == p \in CollPath => cs.glop # 0 /\ Values(cs.glop, cs.glops) = cs.instants

LateCycles(cs, lost) ==
  /\ Len(cs.cycles) = Repetitions(cs) - 1
  /\ lost = {} => \A i \in 1..(Repetitions(cs) - 1) :
       cs.cycles[i] = Period(cs.instants[i], cs.instants[i + 1])

Late(cs, p, with, lost) ==
  LateHwcs(cs, with) /\ LateBursts(cs) /\ LateGlops(cs, p) /\ LateCycles(cs, lost)

(* The callstack of call k, which has no other repetition.                   *)
LateOne(cs, p, k, with) ==
  /\ cs.instants = <<k>>
  /\ cs.hwc = IF k \in with THEN BurstWork(k) ELSE 0
  /\ cs.burst = CallWork(k - 1)
  /\ p \in CollPath => cs.glop = k
  /\ cs.hwcs = <<>> /\ cs.bursts = <<>> /\ cs.glops = <<>>

LEMMA CounterTypes ==
  ASSUME NEW cs \in Callstack
  PROVE  /\ cs.instants \in Seq(Call) /\ cs.instants \in Seq(Nat) /\ Repetitions(cs) \in Nat
         /\ \A i \in 1..Repetitions(cs) : cs.instants[i] \in Nat \ {0}
         /\ cs.cycles \in Seq(Nat) /\ cs.hwc \in Nat /\ cs.hwcs \in Seq(Nat)
         /\ cs.burst \in Nat /\ cs.bursts \in Seq(Nat) /\ cs.glop \in Nat /\ cs.glops \in Seq(Nat)
<1>1. /\ cs.instants \in Seq(Call)
      /\ cs.cycles \in Seq(Nat) /\ cs.hwc \in Nat /\ cs.hwcs \in Seq(Nat)
      /\ cs.burst \in Nat /\ cs.bursts \in Seq(Nat) /\ cs.glop \in Nat /\ cs.glops \in Seq(Nat)
  BY DEF Callstack
<1>2. \A x \in Call : x \in Nat /\ x \in Nat \ {0}
  BY BoundAssumption DEF Call
<1> DEFINE list == cs.instants
<1>3. Len(list) \in Nat /\ list = [i \in 1..Len(list) |-> list[i]] /\ \A i \in 1..Len(list) : list[i] \in Call
  BY <1>1
<1> HIDE DEF list
<1>4. list \in Seq(Nat) /\ \A i \in 1..Len(list) : list[i] \in Nat \ {0}
  BY <1>2, <1>3
<1>5. QED
  BY <1>1, <1>3, <1>4 DEF Repetitions, list

LEMMA SameIsLate ==
  ASSUME NEW cs, NEW new, SameCounters(new, cs)
  PROVE  /\ \A with : LateHwcs(new, with) = LateHwcs(cs, with)
         /\ LateBursts(new) = LateBursts(cs)
         /\ \A p : LateGlops(new, p) = LateGlops(cs, p)
         /\ \A lost : LateCycles(new, lost) = LateCycles(cs, lost)
<1>1. Repetitions(new) = Repetitions(cs)
  BY DEF SameCounters, Repetitions
<1>2. \A with : LateHwcs(new, with) = LateHwcs(cs, with)
  BY DEF SameCounters, LateHwcs
<1>3. LateBursts(new) = LateBursts(cs)
  BY <1>1 DEF SameCounters, LateBursts
<1>4. \A p : LateGlops(new, p) = LateGlops(cs, p)
  BY DEF SameCounters, LateGlops
<1>5. \A lost : LateCycles(new, lost) = LateCycles(cs, lost)
  BY <1>1 DEF SameCounters, LateCycles
<1>6. QED
  BY <1>2, <1>3, <1>4, <1>5

LEMMA OneIsLate ==
  ASSUME NEW cs \in Callstack, NEW p, NEW k \in Nat \ {0}, NEW with \in SUBSET {k},
         LateOne(cs, p, k, with), cs.cycles = <<>>, NEW lost
  PROVE  /\ Late(cs, p, with, lost)
         /\ Increasing(cs.instants) /\ ToSet(cs.instants) = {k}
<1>1. /\ cs.instants = <<k>> /\ Repetitions(cs) = 1 /\ cs.instants[1] = k
      /\ k - 1 \in Nat
  BY DEF LateOne, Repetitions
<1>2. LateHwcs(cs, with)
  <2>1. CASE k \in with
    <3>1. cs.hwc = BurstWork(k) /\ cs.hwc # 0 /\ cs.hwc \in Nat /\ Values(cs.hwc, cs.hwcs) = <<cs.hwc>>
      BY <2>1, WorkFacts DEF LateOne, Values
    <3>2. Increasing(<<cs.hwc>>) /\ ToSet(<<cs.hwc>>) = {cs.hwc}
      BY DEF Increasing, ToSet
    <3>3. with = {k}
      BY <2>1
    <3>4. QED
      BY <1>1, <3>1, <3>2, <3>3 DEF LateHwcs
  <2>2. CASE k \notin with
    BY <1>1, <2>2 DEF LateOne, LateHwcs
  <2>3. QED
    BY <2>1, <2>2
<1>3. LateBursts(cs)
  <2>1. Values(cs.burst, cs.bursts) = <<CallWork(k - 1)>>
    BY DEF LateOne, Values
  <2>2. <<CallWork(k - 1)>> = [i \in 1..1 |-> CallWork(cs.instants[i] - 1)]
    BY <1>1
  <2>3. QED
    BY <1>1, <2>1, <2>2 DEF LateBursts
<1>4. LateGlops(cs, p)
  BY DEF LateOne, LateGlops, Values
<1>5. LateCycles(cs, lost)
  BY <1>1 DEF LateCycles
<1>6. Increasing(<<k>>) /\ ToSet(<<k>>) = {k}
  BY DEF Increasing, ToSet
<1>7. QED
  BY <1>1, <1>2, <1>3, <1>4, <1>5, <1>6 DEF Late

LastOf(cs) == cs.instants[Repetitions(cs)]

(* A callstack of the pool stands for the calls S, of which those in W have  *)
(* counters; an open one for call k, which knows the iteration that it ends. *)
PooledIs(cs, p, S, W, lost) ==
  Increasing(cs.instants) /\ ToSet(cs.instants) = S /\ Late(cs, p, W, lost)

EndsIteration(ended, cs, k, lost) ==
  Len(ended.cycles) = 1 /\ (lost = {} => ended.cycles[1] = Period(LastOf(cs), k))

(* The callstack of call k is merged into that of the calls S before it, of  *)
(* which those in W had counters; with is {k} if call k had them.            *)
TakesCall(new, cs, ended, p, S, W, k, with, lost) ==
  /\ cs \in Callstack /\ ended \in Callstack /\ new \in Callstack
  /\ CountersMerged(new, cs, ended) /\ Repetitions(cs) # 0
  /\ PooledIs(cs, p, S, W, lost) /\ W \subseteq S
  /\ k \in Nat /\ k # 0 /\ \A x \in S : x < k
  /\ with \subseteq {k} /\ LateOne(ended, p, k, with) /\ EndsIteration(ended, cs, k, lost)

LEMMA PooledMerged ==
  ASSUME NEW cs, NEW ended, NEW new, NEW p, NEW S, NEW W, NEW k, NEW with, NEW lost,
         TakesCall(new, cs, ended, p, S, W, k, with, lost)
  PROVE  PooledIs(new, p, S \cup {k}, W \cup with, lost) /\ LastOf(new) = k
<1> /\ cs \in Callstack /\ ended \in Callstack /\ new \in Callstack
    /\ CountersMerged(new, cs, ended) /\ Repetitions(cs) # 0
    /\ PooledIs(cs, p, S, W, lost) /\ W \subseteq S
    /\ k \in Nat /\ k # 0 /\ \A x \in S : x < k
    /\ with \subseteq {k} /\ LateOne(ended, p, k, with) /\ EndsIteration(ended, cs, k, lost)
  BY DEF TakesCall
<1> DEFINE n == Repetitions(cs)
           list == cs.instants
<1>0. /\ Increasing(cs.instants) /\ ToSet(cs.instants) = S /\ Late(cs, p, W, lost)
      /\ Len(ended.cycles) = 1
      /\ lost = {} => ended.cycles[1] = Period(cs.instants[Repetitions(cs)], k)
  BY DEF PooledIs, EndsIteration, LastOf
<1>1. /\ list \in Seq(Nat) /\ Len(list) = n /\ n \in Nat \ {0}
      /\ \A i \in 1..n : list[i] \in Nat \ {0}
      /\ cs.cycles \in Seq(Nat) /\ cs.hwc \in Nat /\ cs.hwcs \in Seq(Nat)
      /\ cs.burst \in Nat /\ cs.bursts \in Seq(Nat) /\ cs.glop \in Nat /\ cs.glops \in Seq(Nat)
  BY CounterTypes DEF Repetitions
<1>2. ended.cycles \in Seq(Nat) /\ k \in Nat /\ k - 1 \in Nat
  BY CounterTypes
<1>3. new.instants = Append(list, k)
  BY <1>1 DEF CountersMerged, LateOne
<1>4. /\ Increasing(new.instants) /\ ToSet(new.instants) = S \cup {k}
      /\ Len(new.instants) = n + 1 /\ Repetitions(new) = n + 1
      /\ new.instants[n + 1] = k /\ \A i \in 1..n : new.instants[i] = list[i]
  <2>1. Increasing(new.instants) /\ ToSet(new.instants) = S \cup {k}
    BY <1>0, <1>1, <1>3, IncreasingAppend
  <2>2. Len(new.instants) = n + 1 /\ new.instants[n + 1] = k /\ \A i \in 1..n : new.instants[i] = list[i]
    <3> HIDE DEF n, list
    <3>1. QED
      BY <1>1, <1>3
  <2>3. QED
    BY <2>1, <2>2 DEF Repetitions
<1>5. \A x \in S : x \in Nat /\ x # k
  <2>1. S = {list[i] : i \in 1..n} /\ \A i \in 1..n : list[i] \in Nat
    BY <1>0, <1>1, ToSetIs
  <2>2. ASSUME NEW x \in S
        PROVE  x \in Nat /\ x # k
    <3>1. x < k
      OBVIOUS
    <3>2. x \in Nat
      <4> HIDE DEF n, list
      <4>1. QED
        BY <2>1
    <3>3. QED
      BY <1>2, <3>1, <3>2
  <2>3. QED
    BY <2>2
<1>6. list[1] \in S /\ new.instants[1] = list[1]
  <2>1. 1 \in 1..n
    BY <1>1
  <2> HIDE DEF n, list
  <2>2. QED
    BY <1>0, <1>1, <1>4, <2>1, ToSetIs DEF list
<1>7. LateHwcs(new, W \cup with)
  <2>1. LateHwcs(cs, W)
    BY <1>0 DEF Late
  <2>2. CASE cs.hwc = 0
    <3>1. new.hwc = 0 /\ new.hwcs = <<>>
      BY <2>1, <2>2 DEF LateHwcs, CountersMerged, IfBoth
    <3>2. new.instants[1] \notin W /\ new.instants[1] # k
      BY <1>5, <1>6, <2>1, <2>2 DEF LateHwcs
    <3>3. QED
      BY <3>1, <3>2 DEF LateHwcs
  <2>3. CASE cs.hwc # 0 /\ k \in with
    <3> DEFINE l == Values(cs.hwc, cs.hwcs)
               b == BurstWork(k)
    <3>1. b \in Nat /\ b # 0 /\ ended.hwc = b
      BY <1>2, <2>3, WorkFacts DEF LateOne
    <3>2. new.hwc = cs.hwc /\ new.hwcs = Extended(cs.hwcs, cs.hwc, b)
      BY <2>3, <3>1 DEF CountersMerged, IfBoth
    <3>3. l \in Seq(Nat) /\ Values(new.hwc, new.hwcs) = Append(l, b)
      <4> HIDE DEF b
      <4>1. cs.hwc \in Nat /\ cs.hwcs \in Seq(Nat) /\ b \in Nat
        BY <1>1, <3>1
      <4>2. /\ Values(cs.hwc, cs.hwcs) \in Seq(Nat)
            /\ Values(cs.hwc, Extended(cs.hwcs, cs.hwc, b)) = Append(Values(cs.hwc, cs.hwcs), b)
        BY <4>1, ValuesFacts
      <4>3. QED
        BY <3>2, <4>2
    <3>4. Increasing(l) /\ ToSet(l) = {BurstWork(x) : x \in W}
      BY <2>1, <2>3 DEF LateHwcs
    <3>5. \A x \in W : BurstWork(x) < b
      BY <1>2, <1>5, WorkFacts
    <3> HIDE DEF l, b
    <3>6. Increasing(Append(l, b)) /\ ToSet(Append(l, b)) = ToSet(l) \cup {b}
      BY <3>1, <3>3, <3>4, <3>5, IncreasingAppend
    <3>7. ToSet(l) \cup {b} = {BurstWork(x) : x \in W \cup with}
      <4>1. with = {k}
        BY <2>3
      <4>2. QED
        BY <3>4, <4>1 DEF b
    <3>8. new.hwc = BurstWork(new.instants[1])
      BY <1>6, <2>1, <2>3, <3>2 DEF LateHwcs
    <3>9. QED
      BY <2>3, <3>2, <3>3, <3>6, <3>7, <3>8 DEF LateHwcs
  <2>4. CASE cs.hwc # 0 /\ k \notin with
    <3>1. new.hwc = cs.hwc /\ new.hwcs = cs.hwcs
      BY <2>4 DEF CountersMerged, IfBoth, LateOne
    <3>2. W \cup with = W
      BY <2>4
    <3>3. QED
      BY <1>6, <2>1, <2>4, <3>1, <3>2 DEF LateHwcs
  <2>5. QED
    BY <2>2, <2>3, <2>4
<1>8. LateBursts(new)
  <2> DEFINE l == Values(cs.burst, cs.bursts)
             b == CallWork(k - 1)
             m == Values(new.burst, new.bursts)
  <2>1. b \in Nat
    BY <1>2, WorkFacts
  <2>2. l \in Seq(Nat) /\ m = Append(l, b)
    <3>1. new.burst = cs.burst /\ new.bursts = Extended(cs.bursts, cs.burst, b)
      BY DEF CountersMerged, LateOne
    <3> HIDE DEF b
    <3>2. /\ Values(cs.burst, cs.bursts) \in Seq(Nat)
          /\ Values(cs.burst, Extended(cs.bursts, cs.burst, b)) = Append(Values(cs.burst, cs.bursts), b)
      <4>1. cs.burst \in Nat /\ cs.bursts \in Seq(Nat) /\ b \in Nat
        BY <1>1, <2>1
      <4>2. QED
        BY <4>1, ValuesFacts
    <3>3. Values(new.burst, new.bursts) = Append(Values(cs.burst, cs.bursts), b)
      BY <3>1, <3>2
    <3>4. QED
      BY <3>2, <3>3
  <2>3. l = [i \in 1..n |-> CallWork(list[i] - 1)]
    BY <1>0 DEF Late, LateBursts
  <2> HIDE DEF l, m, b, list, n
  <2>4. Len(l) = n /\ \A i \in 1..n : l[i] = CallWork(list[i] - 1)
    BY <1>1, <2>2, <2>3
  <2>5. /\ DOMAIN m = 1..(n + 1) /\ m[n + 1] = b /\ \A i \in 1..n : m[i] = l[i]
        /\ \A i \in 1..(n + 1) : i = n + 1 \/ i \in 1..n
    BY <2>1, <2>2, <2>4, AppendAt
  <2>6. \A i \in 1..(n + 1) : m[i] = CallWork(new.instants[i] - 1)
    <3>1. m[n + 1] = CallWork(new.instants[n + 1] - 1)
      BY <1>4, <2>5 DEF b
    <3>2. \A i \in 1..n : m[i] = CallWork(new.instants[i] - 1)
      BY <1>4, <2>4, <2>5
    <3>3. QED
      BY <2>5, <3>1, <3>2
  <2>7. m = [i \in 1..(n + 1) |-> CallWork(new.instants[i] - 1)]
    <3>1. m \in Seq(Nat)
      BY <2>1, <2>2
    <3>2. m = [i \in 1..(n + 1) |-> m[i]]
      BY <2>5, <3>1
    <3>3. QED
      BY <2>6, <3>2
  <2>8. QED
    BY <1>4, <2>7 DEF LateBursts, m
<1>9. LateGlops(new, p)
  <2>1. SUFFICES ASSUME p \in CollPath
                 PROVE  new.glop # 0 /\ Values(new.glop, new.glops) = new.instants
    BY DEF LateGlops
  <2>2. cs.glop # 0 /\ Values(cs.glop, cs.glops) = list
    BY <1>0, <2>1 DEF Late, LateGlops
  <2>3. ended.glop = k /\ k # 0
    BY <2>1 DEF LateOne
  <2>4. new.glop = cs.glop /\ new.glops = Extended(cs.glops, cs.glop, k)
    BY <2>2, <2>3 DEF CountersMerged, IfBoth
  <2> DEFINE l == Values(cs.glop, cs.glops)
             m == Values(new.glop, new.glops)
  <2>5. m = Append(l, k)
    <3>1. cs.glop \in Nat /\ cs.glops \in Seq(Nat) /\ k \in Nat
      BY <1>1, <1>2
    <3>2. Values(cs.glop, Extended(cs.glops, cs.glop, k)) = Append(Values(cs.glop, cs.glops), k)
      BY <3>1, ValuesFacts
    <3>3. QED
      BY <2>4, <3>2
  <2>6. QED
    BY <1>3, <2>2, <2>4, <2>5
<1>10. LateCycles(new, lost)
  <2> DEFINE l == cs.cycles
             m == new.cycles
             c == ended.cycles[1]
  <2>1. m = Append(l, c)
    <3>1. m = l \o ended.cycles /\ ended.cycles = <<c>>
      BY <1>0, <1>2 DEF CountersMerged
    <3> HIDE DEF l, m, c
    <3>2. QED
      BY <1>1, <3>1 DEF l
  <2>2. Len(l) = n - 1 /\ (lost = {} => \A i \in 1..(n - 1) : l[i] = Period(list[i], list[i + 1]))
    BY <1>0 DEF Late, LateCycles
  <2>3. lost = {} => c = Period(list[n], k)
    BY <1>0
  <2>4. l \in Seq(Nat)
    BY <1>1
  <2> HIDE DEF l, m, c, list, n
  <2>5. Len(m) = n /\ m[n] = c /\ \A i \in 1..(n - 1) : m[i] = l[i]
    BY <1>1, <2>1, <2>2, <2>4
  <2>6. ASSUME lost = {}, NEW i \in 1..n
        PROVE  m[i] = Period(new.instants[i], new.instants[i + 1])
    <3>1. CASE i = n
      BY <1>1, <1>4, <2>3, <2>5, <2>6, <3>1
    <3>2. CASE i # n
      <4>1. i \in 1..(n - 1) /\ i + 1 \in 1..n
        BY <1>1, <3>2
      <4>2. QED
        BY <1>4, <2>2, <2>5, <2>6, <4>1
    <3>3. QED
      BY <3>1, <3>2
  <2>7. n + 1 - 1 = n
    BY <1>1
  <2>8. QED
    BY <1>4, <2>5, <2>6, <2>7 DEF LateCycles, m
<1>11. QED
  BY <1>4, <1>7, <1>8, <1>9, <1>10 DEF PooledIs, Late, LastOf

LEMMA PooledOne ==
  ASSUME NEW cs \in Callstack, NEW p, NEW k, k \in Nat, k # 0, NEW with, with \subseteq {k},
         LateOne(cs, p, k, with), cs.cycles = <<>>, NEW lost
  PROVE  PooledIs(cs, p, {k}, with, lost) /\ LastOf(cs) = k
<1>1. k \in Nat \ {0} /\ with \in SUBSET {k} /\ LastOf(cs) = k
  BY DEF LateOne, LastOf, Repetitions
<1>2. QED
  BY <1>1, OneIsLate DEF PooledIs

LEMMA PooledStays ==
  ASSUME NEW cs, NEW new, SameCounters(new, cs), NEW p, NEW S, NEW W, NEW before,
         PooledIs(cs, p, S, W, before), NEW lost, lost = {} => before = {}
  PROVE  PooledIs(new, p, S, W, lost) /\ LastOf(new) = LastOf(cs)
<1>1. new.instants = cs.instants /\ Repetitions(new) = Repetitions(cs)
  BY DEF SameCounters, Repetitions
<1>2. LateCycles(cs, lost)
  BY DEF PooledIs, Late, LateCycles
<1>3. Late(new, p, W, lost)
  BY <1>2, SameIsLate DEF PooledIs, Late
<1>4. QED
  BY <1>1, <1>3 DEF PooledIs, LastOf

-----------------------------------------------------------------------------
(* What the counters are while the trace is read. *)

CallsOf(t, p)    == {l \in 1..Over(t) : calls[t][l] = p}
With(lost, t, S) == {l \in S : <<t, EntryTime(l)>> \notin lost}

(* A callstack of the pool has the repetitions of its signature.             *)
PooledLate(t, p) ==
  PooledIs(Pooled(t, p), p, CallsOf(t, p), With(missing, t, CallsOf(t, p)), missing)

PoolLate(t) == \A p \in DOMAIN callstack_pool[t] : PooledLate(t, p)

(* The open call knows the iteration that ends with it, if its signature     *)
(* has been seen.                                                            *)
OpenLate(t) ==
  mpi_opened[t] =>
    LET k  == Len(calls[t])
        p  == calls[t][k]
        cs == objs[t][k]
    IN /\ LateOne(cs, p, k, With(missing, t, {k}))
       /\ IF p \in DOMAIN callstack_pool[t]
          THEN EndsIteration(cs, Pooled(t, p), k, missing) ELSE cs.cycles = <<>>

(* The accumulated counter of a signature is that since its last repetition  *)
(* began, which the entry record of that repetition is not part of.          *)
AccInv(t) ==
  /\ DOMAIN mpi_acumm_cycles[t] =
       DOMAIN callstack_pool[t] \cup (IF mpi_opened[t] THEN {calls[t][Len(calls[t])]} ELSE {})
  /\ missing = {} => \A p \in DOMAIN callstack_pool[t] :
       LET l == LastOf(Pooled(t, p)) IN
       mpi_acumm_cycles[t][p] = CallWork(l) + Since(l, Over(t), Len(calls[t]))

(* The record that began the burst is the last exit record, and entry        *)
(* records to come are not missing.                                          *)
RecordsInv(t) ==
  /\ ~mpi_opened[t] /\ burst_last[t] # 0 => burst_last[t] = CallWork(Len(calls[t]))
  /\ \A l \in Nat : l > Len(calls[t]) => <<t, EntryTime(l)>> \notin missing

LateInv(t) == OpenLate(t) /\ AccInv(t) /\ RecordsInv(t)

(* The invariant: once an exception was raised, only the pool is left.       *)
CountInv == /\ PartInv
            /\ \A t \in Task : PoolLate(t)
            /\ ~failed => \A t \in Task : LateInv(t)

-----------------------------------------------------------------------------
(* What the records do to the counters. *)

(* Every signature accounts for the work, if the record has counters.        *)
Accounts(new, acc, work, hwc) ==
  /\ DOMAIN new = DOMAIN acc
  /\ \A q \in DOMAIN acc : new[q] = IF hwc THEN acc[q] + work ELSE acc[q]

LEMMA AccountsFacts ==
  ASSUME NEW acc, NEW work, NEW hwc \in BOOLEAN
  PROVE  Accounts(IF hwc THEN Accumulated(acc, work) ELSE acc, acc, work, hwc)
BY DEF Accounts, Accumulated

LEMMA NewCallstackCounters ==
  ASSUME NEW p, NEW k
  PROVE  LET new == NewCallstack(p, k)
         IN new.instants = <<k>> /\ new.hwcs = <<>> /\ new.bursts = <<>> /\ new.glops = <<>>
BY DEF NewCallstack

(* The accumulated counters of a task that has seen signature p.             *)
Begun(t, p) == IF p \in DOMAIN mpi_acumm_cycles[t] THEN mpi_acumm_cycles[t]
               ELSE Put(mpi_acumm_cycles[t], p, 0)

(* The records without counters after one more record.                       *)
Missed(lost, record, hwc) == IF hwc THEN lost ELSE lost \cup {record}

LEMMA EntryCounts ==
  ASSUME Types, NEW t \in Task, NEW p \in Path, NEW hwc \in BOOLEAN, Entry(t, p, hwc),
         burst_last[t] # 0 \/ ~failed'
  PROVE  LET k    == Len(calls[t]) + 1
             seen == p \in DOMAIN mpi_acumm_cycles[t]
         IN /\ burst_last[t] # 0
            /\ missing' = Missed(missing, <<t, EntryTime(k)>>, hwc)
            /\ \A u \in Task : u # t => mpi_acumm_cycles'[u] = mpi_acumm_cycles[u]
            /\ Accounts(mpi_acumm_cycles'[t], Begun(t, p), BurstWork(k), hwc)
            /\ \E cs \in Callstack :
                 /\ objs'[t] = Append(objs[t], cs)
                 /\ cs.instants = <<k>> /\ cs.hwcs = <<>> /\ cs.bursts = <<>> /\ cs.glops = <<>>
                 /\ cs.cycles = IF seen THEN <<mpi_acumm_cycles[t][p]>> ELSE <<>>
                 /\ cs.burst = burst_last[t] /\ cs.glop = Glop(t, p, k)
                 /\ cs.hwc = IF hwc THEN BurstWork(k) ELSE 0
<1> DEFINE k     == Len(calls[t]) + 1
           seen  == p \in DOMAIN mpi_acumm_cycles[t]
           cycl  == IF seen THEN <<mpi_acumm_cycles[t][p]>> ELSE <<>>
           fresh == [NewCallstack(p, k) EXCEPT !.cycles = cycl, !.burst = burst_last[t]]
           known == EntryTime(k) \in DOMAIN comm_hashmap[t]
           comm  == comms[comm_hashmap[t][EntryTime(k)]]
           cs    == IF known THEN add_mpi_msg_size(set_partner(fresh, comm.dst), comm.size) ELSE fresh
           hw    == IF hwc THEN BurstWork(k) ELSE 0
           gl    == Glop(t, p, k)
           new   == [cs EXCEPT !.hwc = hw, !.glop = gl]
           begun == IF seen THEN mpi_acumm_cycles[t] ELSE Put(mpi_acumm_cycles[t], p, 0)
           acc   == IF hwc THEN Accumulated(begun, BurstWork(k)) ELSE begun
<1>1. /\ Len(calls[t]) \in Nat /\ k \in Nat /\ k # 0 /\ k \in Call
      /\ burst_last[t] \in Nat /\ burst_last[t] # 0
      /\ mpi_acumm_cycles[t] \in [DOMAIN mpi_acumm_cycles[t] -> Nat]
      /\ failed \in BOOLEAN
      /\ MpiEntry(t, p, hwc)
  <2>1. /\ Len(calls[t]) \in Nat /\ burst_last[t] \in Nat
        /\ mpi_acumm_cycles[t] \in [DOMAIN mpi_acumm_cycles[t] -> Nat]
        /\ failed \in BOOLEAN
    BY DEF Types, TypeOK
  <2>2. k \in Nat /\ k # 0
    BY <2>1
  <2>3. MpiEntry(t, p, hwc) /\ k \in Call
    BY <2>1, BoundAssumption DEF Entry, Reading, Call
  <2>4. burst_last[t] # 0
    BY <2>3, Zenon DEF MpiEntry
  <2>5. QED
    BY <2>1, <2>2, <2>3, <2>4
<1>2. /\ objs' = [objs EXCEPT ![t] = Append(@, new)]
      /\ mpi_acumm_cycles' = [mpi_acumm_cycles EXCEPT ![t] = acc]
      /\ Counted(t, EntryTime(k), hwc)
  BY <1>1, Zenon DEF MpiEntry
<1>3. hw \in Nat /\ gl \in Nat
  BY <1>1 DEF BurstWork, Glop
<1>4. /\ fresh \in Callstack /\ fresh.instants = <<k>> /\ fresh.cycles = cycl
      /\ fresh.burst = burst_last[t] /\ fresh.hwcs = <<>> /\ fresh.bursts = <<>> /\ fresh.glops = <<>>
  <2>1. cycl \in Seq(Nat)
    BY <1>1
  <2>2. /\ NewCallstack(p, k) \in Callstack
        /\ NewCallstack(p, k).instants = <<k>> /\ NewCallstack(p, k).hwcs = <<>>
        /\ NewCallstack(p, k).bursts = <<>> /\ NewCallstack(p, k).glops = <<>>
    BY <1>1, NewCallstackFacts, NewCallstackCounters
  <2> HIDE DEF cycl, k
  <2>3. QED
    BY <1>1, <2>1, <2>2 DEF Callstack
<1> HIDE DEF fresh
<1>5. cs \in Callstack /\ SameCounters(cs, fresh)
  <2>1. CASE known
    <3>1. comm.dst \in Task /\ comm.size \in Nat
      BY <2>1, KnownMessage DEF Message
    <3> HIDE DEF comm, known
    <3>2. TookMessage(add_mpi_msg_size(set_partner(fresh, comm.dst), comm.size), fresh, comm.dst, comm.size)
      BY <1>4, <3>1, TakesMessage
    <3>3. QED
      BY <2>1, <3>2 DEF TookMessage
  <2>2. CASE ~known
    BY <1>4, <2>2 DEF SameCounters
  <2>3. QED
    BY <2>1, <2>2
<1> HIDE DEF cs
<1>6. /\ new \in Callstack /\ new.instants = cs.instants /\ new.cycles = cs.cycles
      /\ new.burst = cs.burst /\ new.hwcs = cs.hwcs /\ new.bursts = cs.bursts /\ new.glops = cs.glops
      /\ new.hwc = hw /\ new.glop = gl
  <2> HIDE DEF hw, gl
  <2>1. QED
    BY <1>3, <1>5 DEF Callstack
<1> HIDE DEF new
<1>7. /\ new.instants = <<k>> /\ new.hwcs = <<>> /\ new.bursts = <<>> /\ new.glops = <<>>
      /\ new.cycles = cycl /\ new.burst = burst_last[t] /\ new.glop = gl /\ new.hwc = hw
  BY <1>4, <1>5, <1>6 DEF SameCounters
<1>8. objs'[t] = Append(objs[t], new)
  BY <1>2 DEF Types, TypeOK
<1>9. mpi_acumm_cycles'[t] = acc /\ \A u \in Task : u # t => mpi_acumm_cycles'[u] = mpi_acumm_cycles[u]
  <2> HIDE DEF acc
  <2>1. Updated(mpi_acumm_cycles', mpi_acumm_cycles, t, acc) /\ PerTask(mpi_acumm_cycles)
    BY <1>2 DEF Updated, Types
  <2>2. QED
    BY <2>1, PerTaskUpdate
<1>10. Accounts(acc, begun, BurstWork(k), hwc)
  <2> HIDE DEF begun
  <2>1. QED
    BY AccountsFacts
<1> HIDE DEF acc
<1>11. QED
  BY <1>1, <1>2, <1>6, <1>7, <1>8, <1>9, <1>10 DEF Counted, Begun, Missed

LEMMA ExitCounts ==
  ASSUME Types, NEW t \in Task, NEW hwc \in BOOLEAN, Exit(t, hwc)
  PROVE  LET k == Len(calls[t])
         IN /\ \A u \in Task : u # t => mpi_acumm_cycles'[u] = mpi_acumm_cycles[u]
            /\ Accounts(mpi_acumm_cycles'[t], Put(mpi_acumm_cycles[t], calls[t][k], 0), CallWork(k), hwc)
<1> DEFINE k     == Len(calls[t])
           begun == Put(mpi_acumm_cycles[t], calls[t][k], 0)
           acc   == IF hwc THEN Accumulated(begun, CallWork(k)) ELSE begun
<1>1. mpi_acumm_cycles' = [mpi_acumm_cycles EXCEPT ![t] = acc]
  BY Zenon DEF Exit, MpiExit
<1>2. Accounts(acc, begun, CallWork(k), hwc)
  <2> HIDE DEF begun
  <2>1. QED
    BY AccountsFacts
<1> HIDE DEF acc
<1>3. Updated(mpi_acumm_cycles', mpi_acumm_cycles, t, acc) /\ PerTask(mpi_acumm_cycles)
  BY <1>1 DEF Updated, Types
<1>4. QED
  BY <1>2, <1>3, PerTaskUpdate

(* The types say what AccInv needs of the accumulated counters.              *)
LEMMA LastOfFacts ==
  ASSUME Types, NEW t \in Task, PoolInv(t), PoolLate(t), NEW p \in DOMAIN callstack_pool[t]
  PROVE  /\ Pooled(t, p) \in Callstack /\ Repetitions(Pooled(t, p)) # 0
         /\ LastOf(Pooled(t, p)) \in CallsOf(t, p)
         /\ LastOf(Pooled(t, p)) \in Nat \ {0} /\ LastOf(Pooled(t, p)) <= Over(t)
<1> DEFINE cs == Pooled(t, p)
           n  == Repetitions(cs)
<1>1. /\ callstack_pool[t][p] \in 1..Over(t) /\ calls[t][callstack_pool[t][p]] = p
      /\ Over(t) \in Nat /\ Over(t) <= Len(calls[t]) /\ Len(calls[t]) \in Nat
      /\ objs[t] \in Seq(Callstack) /\ Len(objs[t]) = Len(calls[t])
  BY TaskFacts DEF PoolInv
<1>2. callstack_pool[t][p] \in CallsOf(t, p)
  BY <1>1 DEF CallsOf
<1>3. cs \in Callstack
  BY <1>1 DEF Pooled
<1>4. ToSet(cs.instants) = CallsOf(t, p)
  BY DEF PoolLate, PooledLate, PooledIs
<1> HIDE DEF cs
<1>5. cs.instants \in Seq(Nat) /\ n = Len(cs.instants) /\ n \in Nat
  BY <1>3, CounterTypes DEF Repetitions
<1>6. ToSet(cs.instants) = {cs.instants[i] : i \in 1..n}
  BY <1>5, ToSetIs
<1>7. n # 0
  <2>1. n = 0 => 1..n = {}
    BY <1>5
  <2> HIDE DEF n
  <2>2. QED
    BY <1>2, <1>4, <1>6, <2>1
<1>8. n \in 1..n
  BY <1>5, <1>7
<1>9. cs.instants[n] \in CallsOf(t, p)
  BY <1>4, <1>6, <1>8
<1>10. \A l \in CallsOf(t, p) : l \in Nat \ {0} /\ l <= Over(t)
  BY <1>1 DEF CallsOf
<1>11. QED
  BY <1>3, <1>7, <1>9, <1>10 DEF LastOf, cs

(* A step that keeps the calls of a task and the counters of its callstacks. *)
SameMissing(t) ==
  missing \subseteq missing' /\ \A S \in SUBSET Nat : With(missing', t, S) = With(missing, t, S)

Keeps(t) ==
  /\ calls'[t] = calls[t] /\ mpi_opened'[t] = mpi_opened[t]
  /\ callstack_pool'[t] = callstack_pool[t] /\ SameMissing(t)
  /\ \A p \in DOMAIN callstack_pool[t] :
       SameCounters(objs'[t][callstack_pool[t][p]], objs[t][callstack_pool[t][p]])

LEMMA PooledKeeps ==
  ASSUME Types, NEW t \in Task, NEW p \in DOMAIN callstack_pool[t], PooledLate(t, p),
         SameMissing(t), CallsOf(t, p)' = CallsOf(t, p),
         callstack_pool'[t][p] = callstack_pool[t][p],
         SameCounters(objs'[t][callstack_pool[t][p]], objs[t][callstack_pool[t][p]])
  PROVE  /\ PooledLate(t, p)'
         /\ LastOf(objs'[t][callstack_pool[t][p]]) = LastOf(objs[t][callstack_pool[t][p]])
<1> DEFINE cs  == objs[t][callstack_pool[t][p]]
           new == objs'[t][callstack_pool[t][p]]
           S   == CallsOf(t, p)
           W   == With(missing, t, S)
<1>1. missing' = {} => missing = {}
  BY DEF SameMissing
<1>2. S \in SUBSET Nat
  BY TaskFacts DEF CallsOf
<1>3. With(missing', t, S) = W
  BY <1>2 DEF SameMissing
<1>4. PooledIs(cs, p, S, W, missing)
  BY DEF PooledLate, Pooled
<1>5. SameCounters(new, cs)
  OBVIOUS
<1>6. Pooled(t, p)' = new /\ CallsOf(t, p)' = S
  BY DEF Pooled
<1> HIDE DEF cs, new, S, W
<1>7. PooledIs(new, p, S, W, missing') /\ LastOf(new) = LastOf(cs)
  BY <1>1, <1>4, <1>5, PooledStays
<1>8. PooledLate(t, p)'
  BY <1>3, <1>6, <1>7 DEF PooledLate
<1>9. QED
  BY <1>7, <1>8 DEF new, cs

LEMMA KeepsPool ==
  ASSUME Types, NEW t \in Task, Keeps(t), PoolLate(t)
  PROVE  /\ PoolLate(t)'
         /\ \A p \in DOMAIN callstack_pool[t] :
              LastOf(objs'[t][callstack_pool[t][p]]) = LastOf(objs[t][callstack_pool[t][p]])
<1>1. Over(t)' = Over(t)
  BY DEF Over, Keeps
<1>2. ASSUME NEW p \in DOMAIN callstack_pool[t]
      PROVE  /\ PooledLate(t, p)'
             /\ LastOf(objs'[t][callstack_pool[t][p]]) = LastOf(objs[t][callstack_pool[t][p]])
  <2>1. CallsOf(t, p)' = CallsOf(t, p)
    BY <1>1 DEF CallsOf, Keeps
  <2>2. PooledLate(t, p) /\ SameMissing(t) /\ callstack_pool'[t][p] = callstack_pool[t][p]
    BY DEF PoolLate, Keeps
  <2>3. SameCounters(objs'[t][callstack_pool[t][p]], objs[t][callstack_pool[t][p]])
    BY DEF Keeps
  <2>4. QED
    BY <2>1, <2>2, <2>3, PooledKeeps
<1>3. PoolLate(t)'
  BY <1>2 DEF PoolLate, Keeps
<1>4. QED
  BY <1>2, <1>3

LEMMA KeepsLate ==
  ASSUME Types, NEW t \in Task, Keeps(t), PoolLate(t), LateInv(t),
         mpi_opened[t] => SameCounters(objs'[t][Len(calls[t])], objs[t][Len(calls[t])]),
         mpi_acumm_cycles'[t] = mpi_acumm_cycles[t], burst_last'[t] = burst_last[t]
  PROVE  PoolLate(t)' /\ LateInv(t)'
<1>1. /\ Over(t)' = Over(t) /\ Len(calls[t]) \in Nat
      /\ calls'[t] = calls[t] /\ mpi_opened'[t] = mpi_opened[t] /\ callstack_pool'[t] = callstack_pool[t]
  BY TaskFacts DEF Over, Keeps
<1>2. missing' = {} => missing = {}
  BY DEF Keeps, SameMissing
<1>3. /\ PoolLate(t)'
      /\ \A p \in DOMAIN callstack_pool[t] :
           LastOf(objs'[t][callstack_pool[t][p]]) = LastOf(objs[t][callstack_pool[t][p]])
  BY KeepsPool
<1>4. \A l \in Nat : With(missing', t, {l}) = With(missing, t, {l})
  BY DEF Keeps, SameMissing
<1>5. OpenLate(t)'
  <2>1. SUFFICES ASSUME mpi_opened[t]
                 PROVE  OpenLate(t)'
    BY <1>1 DEF OpenLate
  <2> DEFINE k   == Len(calls[t])
             p   == calls[t][k]
             cs  == objs[t][k]
             new == objs'[t][k]
             l   == LastOf(objs[t][callstack_pool[t][p]])
             l2  == LastOf(objs'[t][callstack_pool[t][p]])
  <2>2. /\ LateOne(cs, p, k, With(missing, t, {k}))
        /\ IF p \in DOMAIN callstack_pool[t]
           THEN Len(cs.cycles) = 1 /\ (missing = {} => cs.cycles[1] = Period(l, k))
           ELSE cs.cycles = <<>>
    BY <2>1 DEF LateInv, OpenLate, EndsIteration, Pooled
  <2>3. SameCounters(new, cs)
    BY <2>1
  <2>4. With(missing', t, {k}) = With(missing, t, {k})
    BY <1>1, <1>4
  <2>5. p \in DOMAIN callstack_pool[t] => l2 = l
    BY <1>3
  <2> HIDE DEF cs, new
  <2>6. LateOne(new, p, k, With(missing, t, {k})) /\ new.cycles = cs.cycles
    BY <2>2, <2>3 DEF SameCounters, LateOne
  <2>7. /\ LateOne(new, p, k, With(missing', t, {k}))
        /\ IF p \in DOMAIN callstack_pool[t]
           THEN Len(new.cycles) = 1 /\ (missing' = {} => new.cycles[1] = Period(l2, k))
           ELSE new.cycles = <<>>
    BY <1>2, <2>2, <2>4, <2>5, <2>6
  <2>8. Len(calls'[t]) = k /\ calls'[t][k] = p
    BY <1>1
  <2> HIDE DEF k, p, l, l2
  <2>9. QED
    BY <1>1, <2>7, <2>8 DEF OpenLate, EndsIteration, new, Pooled, l2
<1>6. AccInv(t)'
  <2>1. /\ DOMAIN mpi_acumm_cycles[t] =
             DOMAIN callstack_pool[t] \cup (IF mpi_opened[t] THEN {calls[t][Len(calls[t])]} ELSE {})
        /\ missing = {} => \A p \in DOMAIN callstack_pool[t] :
             LET l == LastOf(objs[t][callstack_pool[t][p]]) IN
             mpi_acumm_cycles[t][p] = CallWork(l) + Since(l, Over(t), Len(calls[t]))
    BY DEF LateInv, AccInv, Pooled
  <2>2. QED
    BY <1>1, <1>2, <1>3, <2>1 DEF AccInv, Pooled
<1>7. RecordsInv(t)'
  <2>1. ASSUME NEW l \in Nat, l > Len(calls[t])
        PROVE  <<t, EntryTime(l)>> \notin missing'
    <3>1. <<t, EntryTime(l)>> \notin missing
      BY <2>1 DEF LateInv, RecordsInv
    <3>2. l \in With(missing, t, {l})
      BY <3>1 DEF With
    <3>3. l \in With(missing', t, {l})
      BY <1>4, <3>2
    <3>4. QED
      BY <3>3 DEF With
  <2>2. QED
    BY <1>1, <2>1 DEF LateInv, RecordsInv
<1>8. QED
  BY <1>3, <1>5, <1>6, <1>7 DEF LateInv

LEMMA SameCountersItself == \A cs : SameCounters(cs, cs)
BY DEF SameCounters

LEMMA SameMissingItself ==
  ASSUME UNCHANGED missing, NEW t
  PROVE  SameMissing(t)
BY DEF SameMissing, With

LEMMA CommKeeps ==
  ASSUME Types, MapsInv, NEW src \in Task, NEW dst \in Task, NEW si \in Call, NEW di \in Call,
         Comm(src, si, dst, di), NEW t \in Task
  PROVE  /\ Keeps(t)
         /\ mpi_opened[t] => SameCounters(objs'[t][Len(calls[t])], objs[t][Len(calls[t])])
         /\ mpi_acumm_cycles'[t] = mpi_acumm_cycles[t] /\ burst_last'[t] = burst_last[t]
<1>1. /\ failed' => objs' = objs
      /\ ~failed' => MessageIsTaken(src, dst, si, di)
      /\ UNCHANGED <<calls, missing, mpi_opened, callstack_pool, mpi_acumm_cycles, burst_last>>
  BY CommEffect, ZenonT(60)
<1>2. \A j \in 1..Len(objs[t]) : SameCounters(objs'[t][j], objs[t][j])
  <2>1. CASE failed'
    BY <1>1, <2>1, SameCountersItself
  <2>2. CASE ~failed'
    BY <1>1, <2>2, SameCountersItself DEF MessageIsTaken, TookMessage
  <2>3. QED
    BY <2>1, <2>2
<1>3. /\ \A p \in DOMAIN callstack_pool[t] : callstack_pool[t][p] \in 1..Len(objs[t])
      /\ mpi_opened[t] => Len(calls[t]) \in 1..Len(objs[t])
  BY TaskFacts DEF MapsInv, PoolInv
<1>4. Keeps(t)
  BY <1>1, <1>2, <1>3, SameMissingItself DEF Keeps
<1>5. QED
  BY <1>1, <1>2, <1>3, <1>4

LEMMA ReducedCounters ==
  ASSUME NEW cs \in Callstack
  PROVE  SameCounters(Reduced(cs), cs)
<1>1. CASE Repetitions(cs) = 1
  BY <1>1, SameCountersItself DEF Reduced
<1>2. CASE Repetitions(cs) # 1
  <2> DEFINE total == Total(cs.sizes)
  <2>1. Reduced(cs) = [cs EXCEPT !.sizes = <<>>, !.size = total]
    BY <1>2 DEF Reduced
  <2> HIDE DEF total
  <2>2. QED
    BY <2>1 DEF SameCounters, Callstack
<1>3. QED
  BY <1>1, <1>2

LEMMA FinishKeeps ==
  ASSUME Types, MapsInv, Finish, NEW t \in Task
  PROVE  /\ Keeps(t) /\ ~mpi_opened[t]
         /\ mpi_acumm_cycles'[t] = mpi_acumm_cycles[t] /\ burst_last'[t] = burst_last[t]
<1>1. /\ \A j \in 1..Len(objs[t]) :
           (\E p \in DOMAIN callstack_pool[t] : callstack_pool[t][p] = j)
             => objs'[t][j] = Reduced(objs[t][j])
      /\ UNCHANGED <<calls, missing, mpi_opened, callstack_pool, mpi_acumm_cycles, burst_last>>
  BY FinishEffect
<1>2. ~mpi_opened[t]
  BY DEF Finish
<1>3. ASSUME NEW p \in DOMAIN callstack_pool[t]
      PROVE  SameCounters(objs'[t][callstack_pool[t][p]], objs[t][callstack_pool[t][p]])
  <2>1. callstack_pool[t][p] \in 1..Len(objs[t]) /\ objs[t][callstack_pool[t][p]] \in Callstack
    BY TaskFacts DEF MapsInv, PoolInv
  <2>2. objs'[t][callstack_pool[t][p]] = Reduced(objs[t][callstack_pool[t][p]])
    BY <1>1, <2>1
  <2>3. QED
    BY <2>1, <2>2, ReducedCounters
<1>4. Keeps(t)
  BY <1>1, <1>3, SameMissingItself DEF Keeps
<1>5. QED
  BY <1>1, <1>2, <1>4

(* The entry record of a call.                                               *)
LEMMA EntryLate ==
  ASSUME Types, MapsInv, \A u \in Task : PoolLate(u) /\ LateInv(u),
         NEW t \in Task, NEW p \in Path, NEW hwc \in BOOLEAN, Entry(t, p, hwc), ~failed'
  PROVE  \A u \in Task : PoolLate(u)' /\ LateInv(u)'
<1> DEFINE n == Len(calls[t])
           k == n + 1
<1>1. /\ ~mpi_opened[t] /\ mpi_opened'[t] = TRUE
      /\ \A u \in Task : u # t => SameOf(u)
      /\ calls'[t] = Append(calls[t], p)
      /\ UNCHANGED <<comms, callstack_pool, burst_last>>
  BY EntryOfTask, ZenonT(60)
<1>2. /\ burst_last[t] # 0
      /\ missing' = Missed(missing, <<t, EntryTime(k)>>, hwc)
      /\ \A u \in Task : u # t => mpi_acumm_cycles'[u] = mpi_acumm_cycles[u]
      /\ Accounts(mpi_acumm_cycles'[t], Begun(t, p), BurstWork(k), hwc)
  <2>1. burst_last[t] # 0
    BY EntryCounts, ZenonT(60)
  <2>2. missing' = Missed(missing, <<t, EntryTime(k)>>, hwc)
    BY EntryCounts, ZenonT(60)
  <2>3. \A u \in Task : u # t => mpi_acumm_cycles'[u] = mpi_acumm_cycles[u]
    BY EntryCounts, ZenonT(60)
  <2>4. Accounts(mpi_acumm_cycles'[t], Begun(t, p), BurstWork(k), hwc)
    BY EntryCounts, ZenonT(60)
  <2>5. QED
    BY <2>1, <2>2, <2>3, <2>4
<1>3. PICK cs \in Callstack :
        /\ objs'[t] = Append(objs[t], cs)
        /\ cs.instants = <<k>> /\ cs.hwcs = <<>> /\ cs.bursts = <<>> /\ cs.glops = <<>>
        /\ cs.cycles = IF p \in DOMAIN mpi_acumm_cycles[t] THEN <<mpi_acumm_cycles[t][p]>> ELSE <<>>
        /\ cs.burst = burst_last[t] /\ cs.glop = Glop(t, p, k)
        /\ cs.hwc = IF hwc THEN BurstWork(k) ELSE 0
  BY EntryCounts, ZenonT(60)
<1>4. /\ n \in Nat /\ Over(t) = n /\ Over(t)' = n /\ Len(calls'[t]) = k
      /\ calls'[t][k] = p /\ \A i \in 1..n : calls'[t][i] = calls[t][i]
      /\ objs[t] \in Seq(Callstack) /\ Len(objs[t]) = n
  BY EntryCalls, TaskFacts
<1>5. objs'[t][k] = cs /\ \A i \in 1..n : objs'[t][i] = objs[t][i]
  BY <1>3, <1>4
<1>6. /\ PoolInv(t) /\ PoolLate(t) /\ LateInv(t)
      /\ \A q \in DOMAIN callstack_pool[t] : callstack_pool[t][q] \in 1..n
      /\ DOMAIN mpi_acumm_cycles[t] = DOMAIN callstack_pool[t]
  BY <1>1, <1>4 DEF MapsInv, PoolInv, LateInv, AccInv
<1>7. <<t, EntryTime(k)>> \notin missing
  BY <1>4, <1>6 DEF LateInv, RecordsInv
<1>8. ASSUME NEW u \in Task, NEW l, u # t \/ l # k
      PROVE  <<u, EntryTime(l)>> \in missing' <=> <<u, EntryTime(l)>> \in missing
  <2>1. <<u, EntryTime(l)>> # <<t, EntryTime(k)>>
    BY <1>8, EntryAndExitTimesDiffer
  <2>2. QED
    BY <1>2, <2>1 DEF Missed
<1>9. missing \subseteq missing' /\ (missing' = {} => missing = {} /\ hwc)
  BY <1>2 DEF Missed
<1>10. ASSUME NEW q \in DOMAIN callstack_pool[t]
       PROVE  /\ PooledLate(t, q)'
              /\ LastOf(objs'[t][callstack_pool[t][q]]) = LastOf(objs[t][callstack_pool[t][q]])
  <2> DEFINE cs1 == objs[t][callstack_pool[t][q]]
             S   == CallsOf(t, q)
             W   == With(missing, t, S)
  <2>1. objs'[t][callstack_pool[t][q]] = cs1
    BY <1>5, <1>6
  <2>2. CallsOf(t, q)' = S /\ S \in SUBSET (1..n)
    BY <1>4 DEF CallsOf
  <2>3. With(missing', t, S) = W
    <3>1. k \notin 1..n
      BY <1>4
    <3> HIDE DEF S, k, n
    <3>2. \A l \in S : <<t, EntryTime(l)>> \in missing' <=> <<t, EntryTime(l)>> \in missing
      BY <1>8, <2>2, <3>1
    <3>3. QED
      BY <3>2 DEF With, W
  <2>4. PooledIs(cs1, q, S, W, missing)
    BY <1>6 DEF PoolLate, PooledLate, Pooled
  <2>5. Pooled(t, q)' = cs1
    BY <1>1, <2>1 DEF Pooled
  <2>6. SameCounters(cs1, cs1)
    BY SameCountersItself
  <2> HIDE DEF cs1, S, W
  <2>7. PooledIs(cs1, q, S, W, missing')
    BY <1>9, <2>4, <2>6, PooledStays
  <2>8. PooledLate(t, q)'
    BY <2>2, <2>3, <2>5, <2>7 DEF PooledLate
  <2>9. QED
    BY <2>1, <2>8 DEF cs1
<1>11. PoolLate(t)'
  BY <1>1, <1>10 DEF PoolLate
<1>12. ASSUME NEW q \in DOMAIN callstack_pool[t]
       PROVE  /\ LastOf(objs[t][callstack_pool[t][q]]) \in Nat
              /\ LastOf(objs[t][callstack_pool[t][q]]) <= n
              /\ missing = {} => mpi_acumm_cycles[t][q] =
                   CallWork(LastOf(objs[t][callstack_pool[t][q]]))
                     + Since(LastOf(objs[t][callstack_pool[t][q]]), n, n)
  <2>1. /\ LastOf(objs[t][callstack_pool[t][q]]) \in Nat
        /\ LastOf(objs[t][callstack_pool[t][q]]) <= n
    BY <1>4, <1>6, LastOfFacts DEF Pooled
  <2>2. missing = {} => mpi_acumm_cycles[t][q] =
          CallWork(LastOf(objs[t][callstack_pool[t][q]]))
            + Since(LastOf(objs[t][callstack_pool[t][q]]), n, n)
    BY <1>4, <1>6 DEF LateInv, AccInv, Pooled
  <2>3. QED
    BY <2>1, <2>2
<1>13. OpenLate(t)'
  <2>1. LateOne(cs, p, k, With(missing', t, {k}))
    <3>1. hwc <=> k \in With(missing', t, {k})
      BY <1>2, <1>7 DEF With, Missed
    <3>2. cs.hwc = IF k \in With(missing', t, {k}) THEN BurstWork(k) ELSE 0
      BY <1>3, <3>1
    <3>3. cs.burst = CallWork(k - 1)
      <4>1. burst_last[t] = CallWork(n) /\ k - 1 = n
        BY <1>1, <1>2, <1>4, <1>6 DEF LateInv, RecordsInv
      <4>2. QED
        BY <1>3, <4>1
    <3>4. p \in CollPath => cs.glop = k
      BY <1>3 DEF Glop
    <3>5. QED
      BY <1>3, <3>2, <3>3, <3>4 DEF LateOne
  <2>2. p \in DOMAIN callstack_pool[t] =>
          /\ Len(cs.cycles) = 1
          /\ missing' = {} => cs.cycles[1] = Period(LastOf(objs'[t][callstack_pool[t][p]]), k)
    <3>1. SUFFICES ASSUME p \in DOMAIN callstack_pool[t]
                   PROVE  /\ Len(cs.cycles) = 1
                          /\ missing' = {} =>
                               cs.cycles[1] = Period(LastOf(objs'[t][callstack_pool[t][p]]), k)
      OBVIOUS
    <3> DEFINE l == LastOf(objs[t][callstack_pool[t][p]])
    <3>2. cs.cycles = <<mpi_acumm_cycles[t][p]>>
      BY <1>3, <1>6, <3>1
    <3>3. l \in Nat /\ l <= n /\ LastOf(objs'[t][callstack_pool[t][p]]) = l
          /\ (missing = {} => mpi_acumm_cycles[t][p] = CallWork(l) + Since(l, n, n))
      BY <1>10, <1>12, <3>1
    <3> HIDE DEF l
    <3>4. Period(l, k) = CallWork(l) + Since(l, n, n)
      BY <1>4, <3>3, SinceSteps
    <3>5. QED
      BY <1>9, <3>2, <3>3, <3>4
  <2>3. p \notin DOMAIN callstack_pool[t] => cs.cycles = <<>>
    BY <1>3, <1>6
  <2> HIDE DEF k, n
  <2>4. QED
    BY <1>1, <1>4, <1>5, <2>1, <2>2, <2>3 DEF OpenLate, EndsIteration, Pooled
<1>14. AccInv(t)'
  <2> DEFINE begun == Begun(t, p)
  <2>1. /\ DOMAIN begun = DOMAIN callstack_pool[t] \cup {p}
        /\ \A q \in DOMAIN callstack_pool[t] : begun[q] = mpi_acumm_cycles[t][q]
    BY <1>6 DEF Put, Begun
  <2> HIDE DEF begun
  <2>2. /\ DOMAIN mpi_acumm_cycles'[t] = DOMAIN callstack_pool[t] \cup {p}
        /\ \A q \in DOMAIN callstack_pool[t] :
             mpi_acumm_cycles'[t][q] = IF hwc THEN mpi_acumm_cycles[t][q] + BurstWork(k)
                                       ELSE mpi_acumm_cycles[t][q]
    BY <1>2, <2>1 DEF Accounts, begun
  <2>3. ASSUME NEW q \in DOMAIN callstack_pool[t], missing' = {}
        PROVE  mpi_acumm_cycles'[t][q] = CallWork(LastOf(objs'[t][callstack_pool[t][q]]))
                                           + Since(LastOf(objs'[t][callstack_pool[t][q]]), n, k)
    <3> DEFINE l == LastOf(objs[t][callstack_pool[t][q]])
    <3>1. l \in Nat /\ l <= n /\ LastOf(objs'[t][callstack_pool[t][q]]) = l
          /\ mpi_acumm_cycles[t][q] = CallWork(l) + Since(l, n, n)
      BY <1>9, <1>10, <1>12, <2>3
    <3>2. mpi_acumm_cycles'[t][q] = mpi_acumm_cycles[t][q] + BurstWork(k)
      BY <1>9, <2>2, <2>3
    <3> HIDE DEF l
    <3>3. Since(l, n, n) \in Nat /\ Since(l, n, k) = Since(l, n, n) + BurstWork(k)
      BY <1>4, <3>1, SinceSteps
    <3>4. CallWork(l) \in Nat /\ BurstWork(k) \in Nat
      <4>1. k \in Nat
        BY <1>4
      <4> HIDE DEF k
      <4>2. QED
        BY <3>1, <4>1, WorkFacts
    <3>5. QED
      BY <3>1, <3>2, <3>3, <3>4
  <2> HIDE DEF k, n
  <2>4. QED
    BY <1>1, <1>4, <2>2, <2>3 DEF AccInv, Pooled
<1>15. RecordsInv(t)'
  <2>1. \A l \in Nat : l > k => l > n /\ l # k
    BY <1>4
  <2> HIDE DEF k, n
  <2>2. QED
    BY <1>1, <1>4, <1>6, <1>8, <2>1 DEF RecordsInv, LateInv, n
<1>16. ASSUME NEW u \in Task, u # t
       PROVE  PoolLate(u)' /\ LateInv(u)'
  <2>1. SameMissing(u)
    BY <1>8, <1>9, <1>16 DEF SameMissing, With
  <2>2. Keeps(u)
    BY <1>1, <1>16, <2>1, SameCountersItself DEF Keeps, SameOf, SameCalls
  <2>3. /\ SameCounters(objs'[u][Len(calls[u])], objs[u][Len(calls[u])])
        /\ mpi_acumm_cycles'[u] = mpi_acumm_cycles[u] /\ burst_last'[u] = burst_last[u]
    BY <1>1, <1>2, <1>16, SameCountersItself DEF SameOf, SameCalls
  <2>4. QED
    BY <2>2, <2>3, KeepsLate
<1>17. QED
  BY <1>11, <1>13, <1>14, <1>15, <1>16 DEF LateInv

(* The exit record of a call, also if it raises an exception.                *)
LEMMA ExitLate ==
  ASSUME Types, MapsInv, \A u \in Task : PoolLate(u) /\ LateInv(u),
         NEW t \in Task, NEW hwc \in BOOLEAN, Exit(t, hwc)
  PROVE  \A u \in Task : PoolLate(u)' /\ LateInv(u)'
<1> DEFINE n     == Len(calls[t])
           p     == calls[t][n]
           had   == p \in DOMAIN callstack_pool[t]
           o     == IF had THEN callstack_pool[t][p] ELSE n
           known == ExitTime(n) \in DOMAIN comm_hashmap[t]
           m     == comm_hashmap[t][ExitTime(n)]
           ended == objs[t][n]
           S     == CallsOf(t, p)
           with  == With(missing, t, {n})
<1>1. /\ n \in Call /\ mpi_opened[t] /\ mpi_opened'[t] = FALSE
      /\ \A u \in Task : u # t => SameOf(u)
      /\ burst_last'[t] = IF hwc THEN CallWork(n) ELSE 0
      /\ missing' = IF hwc THEN missing ELSE missing \cup {<<t, ExitTime(n)>>}
      /\ UNCHANGED <<calls, comms, finished>>
  BY ExitOfTask
<1>2. PICK cs \in Callstack, new \in Callstack :
        /\ IF had THEN Merged(cs, objs[t][o], objs[t][n]) ELSE cs = objs[t][n]
        /\ failed' = (known /\ ~CanTakeSize(cs))
        /\ IF known /\ ~failed' THEN TookMessage(new, cs, comms[m].src, comms[m].size) ELSE new = cs
        /\ objs'[t] = [objs[t] EXCEPT ![o] = new]
  BY ExitOfTask
<1>3. /\ \A u \in Task : u # t => mpi_acumm_cycles'[u] = mpi_acumm_cycles[u]
      /\ Accounts(mpi_acumm_cycles'[t], Put(mpi_acumm_cycles[t], p, 0), CallWork(n), hwc)
  BY ExitCounts
<1>4. PoolInv(t) /\ PoolLate(t) /\ LateInv(t)
  BY DEF MapsInv
<1>5. /\ n \in Nat /\ n # 0 /\ Over(t) = n - 1 /\ Over(t)' = n /\ n - 1 \in Nat
      /\ o \in 1..n /\ calls[t][o] = p
      /\ callstack_pool'[t] = Put(callstack_pool[t], p, o)
      /\ objs[t] \in Seq(Callstack) /\ Len(objs[t]) = n /\ ended \in Callstack
  <2>1. /\ n \in Nat /\ n # 0 /\ Over(t) = n - 1 /\ Over(t)' = n
        /\ o \in 1..n /\ calls[t][o] = p
        /\ callstack_pool'[t] = Put(callstack_pool[t], p, o)
    BY <1>4, ExitCalls
  <2>2. objs[t] \in Seq(Callstack) /\ Len(objs[t]) = n
    BY TaskFacts
  <2> HIDE DEF o
  <2>3. QED
    BY <2>1, <2>2
<1>6. /\ DOMAIN callstack_pool'[t] = DOMAIN callstack_pool[t] \cup {p}
      /\ callstack_pool'[t][p] = o
      /\ \A q \in DOMAIN callstack_pool[t] : q # p => callstack_pool'[t][q] = callstack_pool[t][q]
  BY <1>5 DEF Put
<1>7. objs'[t][o] = new /\ \A i \in 1..n : i # o => objs'[t][i] = objs[t][i]
  <2> HIDE DEF o
  <2>1. QED
    BY <1>2, <1>5
<1>8. SameCounters(new, cs)
  <2> HIDE DEF known, m
  <2>1. QED
    BY <1>2, SameCountersItself DEF TookMessage
<1>9. \A u \in Task : SameMissing(u)
  <2>1. \A u, l : <<u, EntryTime(l)>> # <<t, ExitTime(n)>>
    BY EntryAndExitTimesDiffer
  <2>2. missing \subseteq missing'
    BY <1>1
  <2>3. \A u, l : <<u, EntryTime(l)>> \in missing' <=> <<u, EntryTime(l)>> \in missing
    BY <1>1, <2>1
  <2>4. QED
    BY <2>2, <2>3 DEF SameMissing, With
<1>10. missing' = {} => missing = {} /\ hwc
  BY <1>1
<1>11. /\ LateOne(ended, p, n, with) /\ with \in SUBSET {n}
       /\ IF had THEN EndsIteration(ended, objs[t][o], n, missing) ELSE ended.cycles = <<>>
  <2>1. with \in SUBSET {n}
    BY DEF With
  <2>2. OpenLate(t)
    BY <1>4 DEF LateInv
  <2>3. QED
    BY <1>1, <2>1, <2>2 DEF OpenLate, Pooled
<1>12. \A q : CallsOf(t, q)' = IF q = p THEN S \cup {n} ELSE CallsOf(t, q)
  <2>1. 1..n = (1..(n - 1)) \cup {n}
    BY <1>5
  <2>2. \A q : CallsOf(t, q)' = {l \in 1..n : calls[t][l] = q}
    BY <1>1, <1>5 DEF CallsOf
  <2>3. \A q : CallsOf(t, q) = {l \in 1..(n - 1) : calls[t][l] = q}
    BY <1>5 DEF CallsOf
  <2>4. calls[t][n] = p
    OBVIOUS
  <2> HIDE DEF n, p
  <2>5. QED
    BY <2>1, <2>2, <2>3, <2>4
<1>13. \A x \in S : x \in Nat /\ x < n
  BY <1>5 DEF CallsOf
<1>14. With(missing', t, S \cup {n}) = With(missing, t, S) \cup with
  <2>1. With(missing', t, S \cup {n}) = With(missing, t, S \cup {n})
    <3>1. S \cup {n} \in SUBSET Nat
      BY <1>5, <1>13
    <3>2. QED
      BY <1>9, <3>1 DEF SameMissing
  <2>2. With(missing, t, S \cup {n}) = With(missing, t, S) \cup with
    BY DEF With
  <2>3. QED
    BY <2>1, <2>2
<1>15. PooledIs(new, p, S \cup {n}, With(missing', t, S \cup {n}), missing') /\ LastOf(new) = n
  <2> DEFINE T == S \cup {n}
             V == With(missing, t, S) \cup with
  <2>1. ASSUME had
        PROVE  PooledIs(cs, p, T, V, missing) /\ LastOf(cs) = n
    <3> DEFINE old == objs[t][o]
               W   == With(missing, t, S)
    <3>1. o = callstack_pool[t][p]
      BY <2>1
    <3>2. old \in Callstack /\ Repetitions(old) # 0
      <4>1. Pooled(t, p) \in Callstack /\ Repetitions(Pooled(t, p)) # 0
        BY <1>4, <2>1, LastOfFacts
      <4>2. QED
        BY <3>1, <4>1 DEF Pooled
    <3>3. PooledIs(old, p, S, W, missing)
      BY <1>4, <2>1, <3>1 DEF PoolLate, PooledLate, Pooled
    <3>4. CountersMerged(cs, old, ended)
      BY <1>2, <2>1 DEF Merged
    <3>5. W \subseteq S /\ with \subseteq {n}
      BY DEF With
    <3>6. n \in Nat \ {0} /\ \A x \in S : x < n
      BY <1>5, <1>13
    <3>7. EndsIteration(ended, old, n, missing) /\ LateOne(ended, p, n, with)
      BY <1>11, <2>1
    <3>8. cs \in Callstack /\ ended \in Callstack
      BY <1>2, <1>5
    <3> HIDE DEF had, o, old, ended, S, W, with, n, p
    <3>9. TakesCall(cs, old, ended, p, S, W, n, with, missing)
      BY <3>2, <3>3, <3>4, <3>5, <3>6, <3>7, <3>8 DEF TakesCall
    <3>10. PooledIs(cs, p, S \cup {n}, W \cup with, missing) /\ LastOf(cs) = n
      BY <3>9, PooledMerged
    <3>11. QED
      BY <3>10 DEF W
  <2>2. ASSUME ~had
        PROVE  PooledIs(cs, p, T, V, missing) /\ LastOf(cs) = n
    <3>1. S = {}
      <4>1. DOMAIN callstack_pool[t] = {calls[t][l] : l \in 1..(n - 1)}
        BY <1>4, <1>5 DEF PoolInv
      <4>2. QED
        BY <1>5, <2>2, <4>1 DEF CallsOf
    <3>2. cs = ended /\ ended.cycles = <<>> /\ LateOne(cs, p, n, with) /\ cs.cycles = <<>>
      BY <1>2, <1>11, <2>2
    <3>3. V = with /\ T = {n}
      BY <3>1 DEF With
    <3>4. with \subseteq {n} /\ n \in Nat /\ n # 0
      BY <1>5 DEF With
    <3> HIDE DEF had, o, ended, S, with, n, p, T, V
    <3>5. PooledIs(cs, p, {n}, with, missing) /\ LastOf(cs) = n
      BY <3>2, <3>4, PooledOne
    <3>6. QED
      BY <3>3, <3>5 DEF T, V
  <2>3. PooledIs(cs, p, T, V, missing) /\ LastOf(cs) = n
    BY <2>1, <2>2
  <2>4. missing' = {} => missing = {}
    BY <1>10
  <2>5. With(missing', t, T) = V
    BY <1>14
  <2> HIDE DEF T, V, p, n
  <2>6. PooledIs(new, p, T, V, missing') /\ LastOf(new) = LastOf(cs)
    BY <1>8, <2>3, <2>4, PooledStays
  <2>7. QED
    BY <2>3, <2>5, <2>6 DEF T
<1>16. ASSUME NEW q \in DOMAIN callstack_pool'[t]
       PROVE  PooledLate(t, q)' /\ LastOf(objs'[t][callstack_pool'[t][q]]) =
                IF q = p THEN n ELSE LastOf(objs[t][callstack_pool[t][q]])
  <2>1. CASE q = p
    <3>1. Pooled(t, q)' = new /\ callstack_pool'[t][q] = o
      BY <1>6, <1>7, <2>1 DEF Pooled
    <3>2. CallsOf(t, q)' = S \cup {n}
      BY <1>12, <2>1
    <3> HIDE DEF had, o, ended, S, with, n, p
    <3>3. QED
      BY <1>7, <1>15, <2>1, <3>1, <3>2 DEF PooledLate
  <2>2. CASE q # p
    <3>1. /\ q \in DOMAIN callstack_pool[t] /\ callstack_pool'[t][q] = callstack_pool[t][q]
          /\ CallsOf(t, q)' = CallsOf(t, q)
      BY <1>6, <1>12, <2>2
    <3>2. callstack_pool[t][q] \in 1..(n - 1) /\ calls[t][callstack_pool[t][q]] = q
      BY <1>4, <1>5, <3>1 DEF PoolInv
    <3>3. callstack_pool[t][q] \in 1..n /\ callstack_pool[t][q] # o
      <4> HIDE DEF o, p, n
      <4>1. QED
        BY <1>5, <2>2, <3>2
    <3>4. objs'[t][callstack_pool[t][q]] = objs[t][callstack_pool[t][q]]
      BY <1>7, <3>3
    <3>5. SameCounters(objs'[t][callstack_pool[t][q]], objs[t][callstack_pool[t][q]])
      BY <3>4, SameCountersItself
    <3>6. PooledLate(t, q) /\ SameMissing(t)
      BY <1>4, <1>9, <3>1 DEF PoolLate
    <3>7. PooledLate(t, q)'
      BY <3>1, <3>5, <3>6, PooledKeeps
    <3>8. QED
      BY <2>2, <3>1, <3>4, <3>7
  <2>3. QED
    BY <2>1, <2>2
<1>17. PoolLate(t)' /\ OpenLate(t)'
  BY <1>1, <1>16 DEF PoolLate, OpenLate
<1>18. AccInv(t)'
  <2> DEFINE begun == Put(mpi_acumm_cycles[t], p, 0)
  <2>1. /\ DOMAIN mpi_acumm_cycles[t] = DOMAIN callstack_pool[t] \cup {p}
        /\ missing = {} => \A q \in DOMAIN callstack_pool[t] :
             LET l == LastOf(objs[t][callstack_pool[t][q]]) IN
             mpi_acumm_cycles[t][q] = CallWork(l) + Since(l, n - 1, n)
    BY <1>1, <1>4, <1>5 DEF LateInv, AccInv, Pooled
  <2>2. /\ DOMAIN begun = DOMAIN callstack_pool[t] \cup {p} /\ begun[p] = 0
        /\ \A q \in DOMAIN callstack_pool[t] : q # p => begun[q] = mpi_acumm_cycles[t][q]
    BY <2>1 DEF Put
  <2> HIDE DEF begun
  <2>3. /\ DOMAIN mpi_acumm_cycles'[t] = DOMAIN callstack_pool[t] \cup {p}
        /\ hwc => \A q \in DOMAIN callstack_pool[t] \cup {p} :
             mpi_acumm_cycles'[t][q] = begun[q] + CallWork(n)
    BY <1>3, <2>2 DEF Accounts, begun
  <2>4. CallWork(n) \in Nat
    <3> HIDE DEF n
    <3>1. QED
      BY <1>5, WorkFacts
  <2>5. ASSUME NEW q \in DOMAIN callstack_pool'[t], missing' = {}
        PROVE  LET l == LastOf(objs'[t][callstack_pool'[t][q]]) IN
               mpi_acumm_cycles'[t][q] = CallWork(l) + Since(l, n, n)
    <3>1. CASE q = p
      <4>1. mpi_acumm_cycles'[t][q] = 0 + CallWork(n) /\ LastOf(objs'[t][callstack_pool'[t][q]]) = n
        BY <1>10, <1>16, <2>2, <2>3, <2>5, <3>1
      <4> HIDE DEF n
      <4>2. Since(n, n, n) = 0
        BY <1>5, SinceSteps
      <4>3. QED
        BY <2>4, <4>1, <4>2
    <3>2. CASE q # p
      <4> DEFINE l == LastOf(objs[t][callstack_pool[t][q]])
      <4>1. /\ q \in DOMAIN callstack_pool[t]
            /\ mpi_acumm_cycles'[t][q] = mpi_acumm_cycles[t][q] + CallWork(n)
            /\ mpi_acumm_cycles[t][q] = CallWork(l) + Since(l, n - 1, n)
            /\ LastOf(objs'[t][callstack_pool'[t][q]]) = l
        BY <1>6, <1>10, <1>16, <2>1, <2>2, <2>3, <2>5, <3>2
      <4>2. l \in Nat /\ l <= n - 1
        BY <1>4, <1>5, <4>1, LastOfFacts DEF Pooled
      <4> HIDE DEF l
      <4>3. CallWork(l) \in Nat
        BY <4>2, WorkFacts
      <4>4. Since(l, n - 1, n) \in Nat /\ Since(l, n, n) = Since(l, n - 1, n) + CallWork(n)
        <5> DEFINE j == n - 1
        <5>1. j \in Nat /\ j + 1 = n /\ l <= j
          BY <1>5, <4>2
        <5> HIDE DEF n, j
        <5>2. /\ Since(l, j, j) \in Nat
              /\ Since(l, j, j + 1) = Since(l, j, j) + BurstWork(j + 1)
              /\ Since(l, j + 1, j + 1) = Since(l, j, j + 1) + CallWork(j + 1)
          BY <4>2, <5>1, SinceSteps
        <5>3. BurstWork(n) \in Nat
          BY <1>5, WorkFacts
        <5>4. QED
          BY <5>1, <5>2, <5>3 DEF j
      <4> HIDE DEF n
      <4>5. QED
        BY <2>4, <4>1, <4>3, <4>4
    <3>3. QED
      BY <3>1, <3>2
  <2>6. Len(calls'[t]) = n
    BY <1>1
  <2> HIDE DEF n, p, o
  <2>7. QED
    BY <1>1, <1>5, <1>6, <2>3, <2>5, <2>6 DEF AccInv, Pooled
<1>19. RecordsInv(t)'
  <2>1. ASSUME NEW l \in Nat, l > n
        PROVE  <<t, EntryTime(l)>> \notin missing'
    <3>1. <<t, EntryTime(l)>> \notin missing
      BY <1>4, <2>1 DEF LateInv, RecordsInv
    <3>2. <<t, EntryTime(l)>> # <<t, ExitTime(n)>>
      BY EntryAndExitTimesDiffer
    <3>3. QED
      BY <1>1, <3>1, <3>2
  <2>2. burst_last'[t] # 0 => burst_last'[t] = CallWork(n)
    BY <1>1
  <2>3. Len(calls'[t]) = n
    BY <1>1
  <2> HIDE DEF n
  <2>4. QED
    BY <2>1, <2>2, <2>3 DEF RecordsInv
<1>20. ASSUME NEW u \in Task, u # t
       PROVE  PoolLate(u)' /\ LateInv(u)'
  <2>1. Keeps(u)
    BY <1>1, <1>9, <1>20, SameCountersItself DEF Keeps, SameOf, SameCalls
  <2>2. /\ SameCounters(objs'[u][Len(calls[u])], objs[u][Len(calls[u])])
        /\ mpi_acumm_cycles'[u] = mpi_acumm_cycles[u] /\ burst_last'[u] = burst_last[u]
    BY <1>1, <1>3, <1>20, SameCountersItself DEF SameOf, SameCalls
  <2>3. QED
    BY <2>1, <2>2, KeepsLate
<1>21. QED
  BY <1>17, <1>18, <1>19, <1>20 DEF LateInv

LEMMA LateInit ==
  ASSUME Init
  PROVE  CountInv
<1>1. PartInv /\ missing = {}
  BY PartInit DEF Init
<1>2. ASSUME NEW t \in Task
      PROVE  PoolLate(t) /\ LateInv(t)
  <2>1. /\ calls[t] = <<>> /\ mpi_opened[t] = FALSE /\ callstack_pool[t] = <<>>
        /\ mpi_acumm_cycles[t] = <<>> /\ burst_last[t] = 0
    BY DEF Init
  <2>2. DOMAIN <<>> = {} /\ Len(<<>>) = 0
    OBVIOUS
  <2>3. DOMAIN callstack_pool[t] = {} /\ DOMAIN mpi_acumm_cycles[t] = {} /\ Len(calls[t]) = 0
    BY <2>1, <2>2
  <2>4. PoolLate(t) /\ OpenLate(t)
    BY <2>1, <2>3 DEF PoolLate, OpenLate
  <2>5. AccInv(t)
    BY <2>1, <2>3 DEF AccInv
  <2>6. RecordsInv(t)
    BY <1>1, <2>1, <2>3 DEF RecordsInv
  <2>7. QED
    BY <2>4, <2>5, <2>6 DEF LateInv
<1>3. QED
  BY <1>1, <1>2 DEF CountInv

(* The record before the first call of a task: no signature accounts for it. *)
LEMMA StartLate ==
  ASSUME Types, MapsInv, \A u \in Task : PoolLate(u) /\ LateInv(u), NEW t \in Task, Start(t)
  PROVE  \A u \in Task : PoolLate(u)' /\ LateInv(u)'
<1> DEFINE acc == Accumulated(mpi_acumm_cycles[t], CallWork(0))
<1>1. /\ calls[t] = <<>> /\ ~mpi_opened[t]
      /\ Updated(burst_last', burst_last, t, CallWork(0))
      /\ Updated(mpi_acumm_cycles', mpi_acumm_cycles, t, acc)
      /\ UNCHANGED <<calls, missing, mpi_opened, objs, callstack_pool>>
  BY StartEffect
<1>2. /\ burst_last'[t] = CallWork(0) /\ mpi_acumm_cycles'[t] = acc
      /\ \A u \in Task : u # t => /\ burst_last'[u] = burst_last[u]
                                  /\ mpi_acumm_cycles'[u] = mpi_acumm_cycles[u]
  <2>1. PerTask(burst_last) /\ PerTask(mpi_acumm_cycles)
    BY DEF Types, PerTask
  <2> HIDE DEF acc
  <2>2. QED
    BY <1>1, <2>1, PerTaskUpdate
<1>3. \A u \in Task : Keeps(u)
  BY <1>1, SameCountersItself, SameMissingItself DEF Keeps
<1>4. ASSUME NEW u \in Task, u # t
      PROVE  PoolLate(u)' /\ LateInv(u)'
  BY <1>1, <1>2, <1>3, <1>4, SameCountersItself, KeepsLate
<1>5. PoolLate(t)'
  BY <1>3, KeepsPool
<1>6. Len(calls[t]) = 0 /\ Over(t) = 0
  <2>1. Len(<<>>) = 0
    OBVIOUS
  <2>2. QED
    BY <1>1, <2>1 DEF Over
<1>7. DOMAIN callstack_pool[t] = {} /\ DOMAIN mpi_acumm_cycles[t] = {}
  <2>1. DOMAIN callstack_pool[t] = {}
    BY <1>6 DEF MapsInv, PoolInv
  <2>2. QED
    BY <1>1, <2>1 DEF LateInv, AccInv
<1>8. DOMAIN acc = {}
  BY <1>7 DEF Accumulated
<1> HIDE DEF acc
<1>9. LateInv(t)'
  <2>1. OpenLate(t)'
    BY <1>1 DEF OpenLate
  <2>2. AccInv(t)'
    BY <1>1, <1>2, <1>7, <1>8 DEF AccInv
  <2>3. RecordsInv(t)'
    BY <1>1, <1>2, <1>6 DEF LateInv, RecordsInv
  <2>4. QED
    BY <2>1, <2>2, <2>3 DEF LateInv
<1>10. QED
  BY <1>4, <1>5, <1>9

(* A step that keeps the counters of every task.                             *)
LEMMA StepKeeps ==
  ASSUME Types, \A t \in Task : PoolLate(t),
         ~failed => \A t \in Task : LateInv(t),
         \A t \in Task :
           /\ Keeps(t)
           /\ ~failed' => /\ ~failed
                          /\ mpi_opened[t] => SameCounters(objs'[t][Len(calls[t])], objs[t][Len(calls[t])])
                          /\ mpi_acumm_cycles'[t] = mpi_acumm_cycles[t] /\ burst_last'[t] = burst_last[t]
  PROVE  /\ \A t \in Task : PoolLate(t)'
         /\ ~failed' => \A t \in Task : LateInv(t)'
<1>1. ASSUME NEW t \in Task
      PROVE  PoolLate(t)'
  BY KeepsPool
<1>2. ASSUME ~failed', NEW t \in Task
      PROVE  LateInv(t)'
  BY <1>2, KeepsLate
<1>3. QED
  BY <1>1, <1>2

LEMMA CountStep ==
  ASSUME CountInv, [Next]_vars
  PROVE  CountInv'
<1>1. PartInv' /\ Types /\ \A t \in Task : PoolLate(t)
  BY PartStep DEF CountInv, PartInv
<1>2. ASSUME Next
      PROVE  /\ \A t \in Task : PoolLate(t)'
             /\ ~failed' => \A t \in Task : LateInv(t)'
  <2>1. ~failed
    BY <1>2 DEF Next, Start, Entry, Exit, Comm, Finish, Reading
  <2>2. MapsInv /\ \A u \in Task : PoolLate(u) /\ LateInv(u)
    BY <2>1 DEF CountInv, PartInv
  <2>3. ASSUME NEW t \in Task, NEW p \in Path, NEW hwc \in BOOLEAN, Entry(t, p, hwc)
        PROVE  /\ \A u \in Task : PoolLate(u)'
               /\ ~failed' => \A u \in Task : LateInv(u)'
    <3>1. CASE ~failed'
      BY <1>1, <2>2, <2>3, <3>1, EntryLate
    <3>2. CASE failed' /\ burst_last[t] # 0
      <4>1. failed' = failed
        BY <1>1, <2>3, <3>2, EntryOfTask, ZenonT(60)
      <4>2. QED
        BY <2>1, <3>2, <4>1
    <3>3. CASE failed' /\ burst_last[t] = 0
      <4>1. UNCHANGED <<calls, missing, mpi_opened, objs, callstack_pool>>
        BY <1>1, <2>3, <3>3, EntryFails, ZenonT(60)
      <4>2. \A u \in Task : Keeps(u)
        BY <4>1, SameCountersItself, SameMissingItself DEF Keeps
      <4>3. QED
        BY <1>1, <2>2, <3>3, <4>2, StepKeeps
    <3>4. QED
      BY <3>1, <3>2, <3>3
  <2>4. ASSUME NEW t \in Task, NEW hwc \in BOOLEAN, Exit(t, hwc)
        PROVE  \A u \in Task : PoolLate(u)' /\ LateInv(u)'
    BY <1>1, <2>2, <2>4, ExitLate
  <2>5. ASSUME NEW src \in Task, NEW dst \in Task, NEW si \in Call, NEW di \in Call,
               Comm(src, si, dst, di)
        PROVE  /\ \A u \in Task : PoolLate(u)'
               /\ ~failed' => \A u \in Task : LateInv(u)'
    <3>1. ASSUME NEW u \in Task
          PROVE  /\ Keeps(u)
                 /\ mpi_opened[u] => SameCounters(objs'[u][Len(calls[u])], objs[u][Len(calls[u])])
                 /\ mpi_acumm_cycles'[u] = mpi_acumm_cycles[u] /\ burst_last'[u] = burst_last[u]
      BY <1>1, <2>2, <2>5, CommKeeps
    <3>2. QED
      BY <1>1, <2>1, <2>2, <3>1, StepKeeps
  <2>6. ASSUME Finish
        PROVE  /\ \A u \in Task : PoolLate(u)'
               /\ ~failed' => \A u \in Task : LateInv(u)'
    <3>1. ASSUME NEW u \in Task
          PROVE  /\ Keeps(u) /\ ~mpi_opened[u]
                 /\ mpi_acumm_cycles'[u] = mpi_acumm_cycles[u] /\ burst_last'[u] = burst_last[u]
      BY <1>1, <2>2, <2>6, FinishKeeps
    <3>2. QED
      BY <1>1, <2>1, <2>2, <3>1, StepKeeps
  <2>7. ASSUME NEW t \in Task, Start(t)
        PROVE  \A u \in Task : PoolLate(u)' /\ LateInv(u)'
    BY <1>1, <2>2, <2>7, StartLate
  <2>8. QED
    BY <1>2, <2>3, <2>4, <2>5, <2>6, <2>7 DEF Next
<1>3. ASSUME UNCHANGED vars
      PROVE  /\ \A t \in Task : PoolLate(t)'
             /\ ~failed' => \A t \in Task : LateInv(t)'
  <2>1. UNCHANGED <<calls, missing, mpi_opened, objs, callstack_pool, mpi_acumm_cycles, burst_last, failed>>
    BY <1>3 DEF vars
  <2>2. \A t \in Task : Keeps(t)
    BY <2>1, SameCountersItself, SameMissingItself DEF Keeps
  <2>3. ~failed => \A t \in Task : LateInv(t)
    BY DEF CountInv
  <2>4. QED
    BY <1>1, <2>1, <2>2, <2>3, SameCountersItself, StepKeeps
<1>4. QED
  BY <1>1, <1>2, <1>3 DEF CountInv

LEMMA LateCounters ==
  ASSUME \A t \in Task : PoolLate(t)
  PROVE  CountersAreOneRecordLate
<1>1. SUFFICES ASSUME NEW t \in Task, NEW p \in DOMAIN callstack_pool[t]
               PROVE  LET cs   == Pooled(t, p)
                          n    == Repetitions(cs)
                          k(i) == cs.instants[i]
                          with == {l \in ToSet(cs.instants) : <<t, EntryTime(l)>> \notin missing}
                          hwcs == Values(cs.hwc, cs.hwcs)
                      IN /\ Increasing(cs.instants)
                         /\ ToSet(cs.instants) = {l \in 1..Over(t) : calls[t][l] = p}
                         /\ IF cs.hwc = 0 THEN k(1) \notin with /\ cs.hwcs = <<>>
                            ELSE /\ cs.hwc = BurstWork(k(1)) /\ Increasing(hwcs)
                                 /\ ToSet(hwcs) = {BurstWork(l) : l \in with}
                         /\ Values(cs.burst, cs.bursts) = [i \in 1..n |-> CallWork(k(i) - 1)]
                         /\ p \in CollPath => Values(cs.glop, cs.glops) = cs.instants
                         /\ Len(cs.cycles) = n - 1
                         /\ missing = {} => \A i \in 1..(n - 1) :
                              cs.cycles[i] = CallWork(k(i)) + WorkBetween(k(i), k(i + 1))
                                               - BurstWork(k(i + 1))
  BY DEF CountersAreOneRecordLate
<1> DEFINE cs   == Pooled(t, p)
           S    == CallsOf(t, p)
           with == {l \in ToSet(cs.instants) : <<t, EntryTime(l)>> \notin missing}
<1>2. PooledIs(cs, p, S, With(missing, t, S), missing)
  BY DEF PoolLate, PooledLate
<1>3. S = {l \in 1..Over(t) : calls[t][l] = p}
  BY DEF CallsOf
<1>4. With(missing, t, S) = with
  BY <1>2 DEF PooledIs, With
<1> HIDE DEF cs, S, with
<1>5. /\ Increasing(cs.instants) /\ ToSet(cs.instants) = S
      /\ LateHwcs(cs, with) /\ LateBursts(cs) /\ LateGlops(cs, p) /\ LateCycles(cs, missing)
  BY <1>2, <1>4 DEF PooledIs, Late
<1>6. /\ p \in CollPath => Values(cs.glop, cs.glops) = cs.instants
      /\ Len(cs.cycles) = Repetitions(cs) - 1
      /\ Values(cs.burst, cs.bursts) = [i \in 1..Repetitions(cs) |-> CallWork(cs.instants[i] - 1)]
  BY <1>5 DEF LateGlops, LateBursts, LateCycles
<1>7. missing = {} => \A i \in 1..(Repetitions(cs) - 1) :
        cs.cycles[i] = CallWork(cs.instants[i]) + WorkBetween(cs.instants[i], cs.instants[i + 1])
                         - BurstWork(cs.instants[i + 1])
  BY <1>5 DEF LateCycles, Period
<1>8. IF cs.hwc = 0 THEN cs.instants[1] \notin with /\ cs.hwcs = <<>>
      ELSE /\ cs.hwc = BurstWork(cs.instants[1]) /\ Increasing(Values(cs.hwc, cs.hwcs))
           /\ ToSet(Values(cs.hwc, cs.hwcs)) = {BurstWork(l) : l \in with}
  BY <1>5 DEF LateHwcs
<1>9. QED
  BY <1>3, <1>5, <1>6, <1>7, <1>8 DEF cs, with

(* CountersAreOneRecordLate of CallstacksParser: what __mpi_handler,         *)
(* __hwc_handler and __glop_handler leave in a callstack of the pool, after  *)
(* any merges and also when a record without counters has ended the reading: *)
(* each repetition has the counters of the burst before it, its bursts those *)
(* of the previous call, and its iterations run from the entry record of one *)
(* repetition to the exit record before the next.                            *)
THEOREM LateCorrect == Spec => []CountersAreOneRecordLate
<1>1. Init => CountInv
  BY LateInit
<1>2. CountInv /\ [Next]_vars => CountInv'
  BY CountStep
<1>3. CountInv => CountersAreOneRecordLate
  BY LateCounters DEF CountInv
<1>4. QED
  BY <1>1, <1>2, <1>3, PTL DEF Spec
=============================================================================
