--------------------------- MODULE LoopTableProofs ---------------------------
(* What TLAPS proves of LoopTable: the table of loop locations, the labels   *)
(* made of it and the stack the analysis keeps from the events, for any      *)
(* loops, any hash, any number of buckets and any nesting of wrappers.       *)
EXTENDS LoopTable, LoopMonitorProofs, SequenceFacts

Places == {Where[l] : l \in Loop}
Known  == [where : Places, id : Nat]

(* The type of the table. *)
TableOK == loopid_hashmap \in [0..(HASHMAP_SIZE - 1) -> Seq(Known)]

TableInv == TableOK /\ TableSound

-----------------------------------------------------------------------------
(* The bucket of a loop is one of the table's.                               *)
LEMMA BucketType ==
  ASSUME NEW l \in Loop
  PROVE  Bucket(l) \in 0..(HASHMAP_SIZE - 1) /\ Bucket(l) = Hash[l] % HASHMAP_SIZE
<1>1. Hash[l] \in Nat
  BY HashAssumption
<1>2. QED
  BY <1>1, TableAssumption DEF Bucket

(* An element put before a list.                                             *)
LEMMA Prepended ==
  ASSUME NEW S, NEW s \in Seq(S), NEW e \in S
  PROVE  /\ <<e>> \o s \in Seq(S)
         /\ Len(s) \in Nat
         /\ DOMAIN s = 1..Len(s)
         /\ DOMAIN (<<e>> \o s) = 1..(Len(s) + 1)
         /\ (<<e>> \o s)[1] = e
         /\ \A i \in 1..Len(s) : (<<e>> \o s)[i + 1] = s[i]
<1>1. <<e>> \in Seq(S) /\ Len(<<e>>) = 1 /\ <<e>>[1] = e
  OBVIOUS
<1>2. /\ Len(s) \in Nat /\ DOMAIN s = 1..Len(s)
      /\ <<e>> \o s \in Seq(S)
      /\ Len(<<e>> \o s) = 1 + Len(s)
      /\ \A i \in 1..(1 + Len(s)) :
           (<<e>> \o s)[i] = IF i <= 1 THEN <<e>>[i] ELSE s[i - 1]
  BY <1>1, ConcatProperties, LenProperties
<1>3. DOMAIN (<<e>> \o s) = 1..(Len(s) + 1)
  BY <1>2, LenProperties
<1>4. (<<e>> \o s)[1] = e
  BY <1>1, <1>2
<1>5. ASSUME NEW i \in 1..Len(s)
      PROVE  (<<e>> \o s)[i + 1] = s[i]
  <2>1. i + 1 \in 1..(1 + Len(s)) /\ ~(i + 1 <= 1) /\ (i + 1) - 1 = i
    BY <1>2
  <2>2. QED
    BY <1>2, <2>1
<1>6. QED
  BY <1>2, <1>3, <1>4, <1>5

(* A list with every place once keeps it when a new place is put before it.  *)
SoundList(list, b) ==
  \A i, j \in DOMAIN list :
    /\ list[i].id % HASHMAP_SIZE = b
    /\ \E l \in Loop : Where[l] = list[i].where /\ Hash[l] = list[i].id
    /\ list[i].where = list[j].where => i = j

LEMMA SoundTable == TableSound <=> \A b \in DOMAIN loopid_hashmap : SoundList(loopid_hashmap[b], b)
  BY DEF TableSound, SoundList

LEMMA SoundPrepended ==
  ASSUME NEW list \in Seq(Known), NEW l \in Loop, SoundList(list, Bucket(l)),
         \A i \in DOMAIN list : list[i].where # Where[l]
  PROVE  /\ <<[where |-> Where[l], id |-> Hash[l]]>> \o list \in Seq(Known)
         /\ SoundList(<<[where |-> Where[l], id |-> Hash[l]]>> \o list, Bucket(l))
<1> DEFINE e == [where |-> Where[l], id |-> Hash[l]]
           new == <<e>> \o list
           n == Len(list)
<1>1. e \in Known
  BY HashAssumption DEF Known, Places
<1>2. /\ new \in Seq(Known) /\ n \in Nat
      /\ DOMAIN list = 1..n /\ DOMAIN new = 1..(n + 1)
      /\ new[1] = e /\ \A i \in 1..n : new[i + 1] = list[i]
  BY <1>1, Prepended
<1>3. e.id % HASHMAP_SIZE = Bucket(l) /\ e.where = Where[l] /\ e.id = Hash[l]
  BY BucketType
<1> HIDE DEF e, new, n
<1>4. ASSUME NEW i \in 1..(n + 1)
      PROVE  i = 1 \/ (i - 1 \in 1..n /\ new[i] = list[i - 1])
  <2>1. CASE i # 1
    <3>1. i - 1 \in 1..n /\ (i - 1) + 1 = i
      BY <1>2, <2>1
    <3>2. QED
      BY <1>2, <3>1
  <2>2. QED
    BY <2>1
<1>s. /\ \A i \in 1..n : list[i].id % HASHMAP_SIZE = Bucket(l)
      /\ \A i \in 1..n : \E m \in Loop : Where[m] = list[i].where /\ Hash[m] = list[i].id
      /\ \A i, j \in 1..n : list[i].where = list[j].where => i = j
      /\ \A i \in 1..n : list[i].where # Where[l]
  BY <1>2 DEF SoundList
<1>5. ASSUME NEW i \in 1..(n + 1)
      PROVE  /\ new[i].id % HASHMAP_SIZE = Bucket(l)
             /\ \E m \in Loop : Where[m] = new[i].where /\ Hash[m] = new[i].id
  <2>1. CASE i = 1
    BY <1>2, <1>3, <2>1
  <2>2. CASE i # 1
    <3>1. i - 1 \in 1..n /\ new[i] = list[i - 1]
      BY <1>4, <2>2
    <3>2. QED
      BY <1>s, <3>1
  <2>3. QED
    BY <2>1, <2>2
<1>6. ASSUME NEW i \in 1..(n + 1), NEW j \in 1..(n + 1), new[i].where = new[j].where
      PROVE  i = j
  <2>1. CASE i = 1 /\ j = 1
    BY <2>1
  <2>2. CASE i = 1 /\ j # 1
    BY <1>2, <1>3, <1>4, <1>6, <1>s, <2>2
  <2>3. CASE i # 1 /\ j = 1
    BY <1>2, <1>3, <1>4, <1>6, <1>s, <2>3
  <2>4. CASE i # 1 /\ j # 1
    <3>1. /\ i - 1 \in 1..n /\ new[i] = list[i - 1]
          /\ j - 1 \in 1..n /\ new[j] = list[j - 1]
      BY <1>4, <2>4
    <3>2. i - 1 = j - 1
      BY <1>s, <1>6, <3>1
    <3>3. QED
      BY <1>2, <3>2
  <2>5. QED
    BY <2>1, <2>2, <2>3, <2>4
<1>7. SoundList(new, Bucket(l))
  BY <1>2, <1>5, <1>6 DEF SoundList
<1>8. QED
  BY <1>2, <1>7 DEF new, e

-----------------------------------------------------------------------------
(* Looking a loop up keeps the table sound, and the loop is in it then.      *)
InTable(id) == \E b \in DOMAIN loopid_hashmap : \E i \in DOMAIN loopid_hashmap[b] :
                 loopid_hashmap[b][i].id = id

LEMMA LookUpKeeps ==
  ASSUME TableInv, NEW l \in Loop, get_loop_uid(l)
  PROVE  /\ TableInv' /\ InTable(Hash[l])'
         /\ \A id : InTable(id) => InTable(id)'
<1> DEFINE b == Bucket(l)
           list == loopid_hashmap[b]
           e == [where |-> Where[l], id |-> Hash[l]]
<1>1. /\ DOMAIN loopid_hashmap = 0..(HASHMAP_SIZE - 1) /\ b \in 0..(HASHMAP_SIZE - 1)
      /\ list \in Seq(Known) /\ SoundList(list, b)
  BY BucketType, SoundTable DEF TableInv, TableOK
<1>2. CASE /\ \E i \in DOMAIN list : list[i].where = Where[l]
           /\ UNCHANGED loopid_hashmap
  <2>1. PICK i \in DOMAIN list : list[i].where = Where[l]
    BY <1>2
  <2>2. PICK m \in Loop : Where[m] = list[i].where /\ Hash[m] = list[i].id
    BY <1>1, <2>1 DEF SoundList
  <2>3. list[i].id = Hash[l]
    BY <2>1, <2>2, TableAssumption
  <2>4. QED
    BY <1>1, <1>2, <2>1, <2>3 DEF TableInv, TableOK, TableSound, InTable
<1>3. CASE /\ \A i \in DOMAIN list : list[i].where # Where[l]
           /\ loopid_hashmap' = [loopid_hashmap EXCEPT ![b] = <<e>> \o @]
  <2>1. <<e>> \o list \in Seq(Known) /\ SoundList(<<e>> \o list, b)
    BY <1>1, <1>3, SoundPrepended
  <2>2. loopid_hashmap'[b] = <<e>> \o list
    BY <1>1, <1>3
  <2>3. \A c \in 0..(HASHMAP_SIZE - 1) : c # b => loopid_hashmap'[c] = loopid_hashmap[c]
    BY <1>1, <1>3
  <2>4. DOMAIN loopid_hashmap' = 0..(HASHMAP_SIZE - 1)
    BY <1>1, <1>3
  <2>5. TableOK'
    BY <1>1, <1>3, <2>1 DEF TableInv, TableOK
  <2>6. TableSound'
    <3>1. \A c \in 0..(HASHMAP_SIZE - 1) : SoundList(loopid_hashmap'[c], c)
      BY <1>1, <2>1, <2>2, <2>3, SoundTable DEF TableInv
    <3>2. QED
      BY <2>4, <3>1 DEF TableSound, SoundList
  <2>7. /\ DOMAIN list = 1..Len(list) /\ Len(list) \in Nat
        /\ DOMAIN (<<e>> \o list) = 1..(Len(list) + 1)
        /\ (<<e>> \o list)[1] = e
        /\ \A i \in 1..Len(list) : (<<e>> \o list)[i + 1] = list[i]
    <3>1. e \in Known
      BY HashAssumption DEF Known, Places
    <3>2. QED
      BY <1>1, <3>1, Prepended
  <2>8. InTable(Hash[l])'
    <3>1. 1 \in DOMAIN (loopid_hashmap'[b]) /\ loopid_hashmap'[b][1].id = Hash[l]
      BY <2>2, <2>7
    <3>2. QED
      BY <1>1, <2>4, <3>1 DEF InTable
  <2>9. ASSUME NEW id, InTable(id)
        PROVE  InTable(id)'
    <3>1. PICK c \in 0..(HASHMAP_SIZE - 1) : \E i \in DOMAIN loopid_hashmap[c] :
            loopid_hashmap[c][i].id = id
      BY <1>1, <2>9 DEF InTable
    <3>2. PICK i \in DOMAIN loopid_hashmap[c] : loopid_hashmap[c][i].id = id
      BY <3>1
    <3>3. CASE c # b
      BY <2>3, <2>4, <3>2, <3>3 DEF InTable
    <3>4. CASE c = b
      <4>1. i \in 1..Len(list) /\ list[i].id = id
        BY <2>7, <3>2, <3>4
      <4>2. i + 1 \in DOMAIN (loopid_hashmap'[b]) /\ loopid_hashmap'[b][i + 1].id = id
        BY <2>2, <2>7, <4>1
      <4>3. QED
        BY <1>1, <2>4, <4>2 DEF InTable
    <3>5. QED
      BY <3>3, <3>4
  <2>10. QED
    BY <2>5, <2>6, <2>8, <2>9 DEF TableInv
<1>4. QED
  BY <1>2, <1>3 DEF get_loop_uid

LEMMA EmptyTableSound ==
  ASSUME loopid_hashmap' = EmptyTable
  PROVE  TableInv'
<1>1. <<>> \in Seq(Known) /\ DOMAIN <<>> = {}
  OBVIOUS
<1>2. EmptyTable \in [0..(HASHMAP_SIZE - 1) -> Seq(Known)]
  BY <1>1 DEF EmptyTable
<1>3. \A b \in DOMAIN EmptyTable : DOMAIN EmptyTable[b] = {}
  BY <1>1 DEF EmptyTable
<1>4. QED
  BY <1>2, <1>3 DEF TableInv, TableOK, TableSound

-----------------------------------------------------------------------------
(* No step but a look-up and the first helper_init changes the table.        *)
LEMMA TableStep == TableInv /\ [TableNext]_allvars => TableInv'
<1> SUFFICES ASSUME TableInv, [TableNext]_allvars PROVE TableInv'
  OBVIOUS
<1>1. ASSUME UNCHANGED loopid_hashmap PROVE TableInv'
  BY <1>1 DEF TableInv, TableOK, TableSound
<1>2. ASSUME NEW l \in Loop, EnterNewLoop(l) PROVE TableInv'
  BY <1>2, LookUpKeeps DEF EnterNewLoop
<1>3. ASSUME helper_init PROVE TableInv'
  BY <1>1, <1>3, EmptyTableSound DEF helper_init
<1>4. CASE RunLoop \/ CallMpi \/ CallWrapper \/ LeaveWrapper
  BY <1>1, <1>4 DEF RunLoop, CallMpi, CallWrapper, LeaveWrapper, table
<1>5. CASE MPI_Init \/ MPI_Initialized
  BY <1>3, <1>5 DEF MPI_Init, MPI_Initialized
<1>6. CASE MPI_Finalize \/ MPI_Finalized
  BY <1>1, <1>6 DEF MPI_Finalize, MPI_Finalized, helper_fini
<1>7. CASE UNCHANGED allvars
  BY <1>1, <1>7 DEF allvars, table
<1>8. QED
  BY <1>2, <1>4, <1>5, <1>6, <1>7 DEF TableNext

(* Whatever loops share a bucket, and however often a loop is entered, its   *)
(* location is in the table once, with its hash, in the bucket of its hash.  *)
THEOREM TableCorrect == TableSpec => []TableSound
<1>1. TableInit => TableInv
  <2>1. <<>> \in Seq(Known) /\ DOMAIN <<>> = {}
    OBVIOUS
  <2>2. EmptyTable \in [0..(HASHMAP_SIZE - 1) -> Seq(Known)]
    BY <2>1 DEF EmptyTable
  <2>3. \A b \in DOMAIN EmptyTable : DOMAIN EmptyTable[b] = {}
    BY <2>1 DEF EmptyTable
  <2>4. QED
    BY <2>2, <2>3 DEF TableInit, TableInv, TableOK, TableSound
<1>2. TableInv => TableSound
  BY DEF TableInv
<1>3. QED
  BY <1>1, <1>2, TableStep, PTL DEF TableSpec

-----------------------------------------------------------------------------
(* Events whose values are 0 or identifiers on my_stack.                     *)
OnlyLabels(events) ==
  /\ events \in Seq(EventRecord)
  /\ \A k \in DOMAIN events :
       events[k].value = 0 \/ \E i \in DOMAIN my_stack : events[k].value = my_stack[i]

LEMMA LabelFacts ==
  ASSUME NEW s \in Seq(Nat)
  PROVE  /\ Labels(s) \in Seq(EventRecord)
         /\ Len(s) \in Nat /\ DOMAIN s = 1..Len(s)
         /\ Len(Labels(s)) = 2 * Len(s)
         /\ \A k \in 1..(2 * Len(s)) :
              Labels(s)[k].value = 0 \/ \E i \in 1..Len(s) : Labels(s)[k].value = s[i]
<1> DEFINE n   == Len(s)
           on  == [k \in 1..n |-> Label(k - 1, s[n - k + 1])]
           off == [k \in 1..n |-> Label(k - 1, 0)]
<1>1. n \in Nat /\ DOMAIN s = 1..n
  BY LenProperties
<1>2. \A k \in 1..n : on[k] \in EventRecord /\ off[k] \in EventRecord
  <2>1. ASSUME NEW k \in 1..n
        PROVE  on[k] \in EventRecord /\ off[k] \in EventRecord
    <3>1. n - k + 1 \in 1..n /\ k - 1 \in Nat
      BY <1>1
    <3>2. s[n - k + 1] \in Nat
      BY <3>1, ElementOfSeq
    <3>3. QED
      BY <3>1, <3>2, EventTypes
  <2>2. QED
    BY <2>1
<1>3. \A k \in 1..n : off[k].value = 0 /\ \E i \in 1..n : on[k].value = s[i]
  <2>1. ASSUME NEW k \in 1..n
        PROVE  off[k].value = 0 /\ on[k].value = s[n - k + 1] /\ n - k + 1 \in 1..n
    BY <1>1 DEF Label
  <2>2. QED
    BY <2>1
<1>4. on \in [1..n -> EventRecord] /\ off \in [1..n -> EventRecord]
  BY <1>2
<1>5. Labels(s) = on \o off
  BY DEF Labels
<1> HIDE DEF on, off, n
<1>6. on \in Seq(EventRecord) /\ off \in Seq(EventRecord)
  BY <1>1, <1>4
<1>7. Len(on) = n /\ Len(off) = n
  BY <1>1, <1>4, <1>6, LenProperties
<1>8. /\ Labels(s) \in Seq(EventRecord)
      /\ Len(Labels(s)) = n + n
      /\ \A k \in 1..(n + n) :
           Labels(s)[k] = IF k <= n THEN on[k] ELSE off[k - n]
  <2>1. /\ on \o off \in Seq(EventRecord)
        /\ Len(on \o off) = Len(on) + Len(off)
        /\ \A k \in 1..(Len(on) + Len(off)) :
             (on \o off)[k] = IF k <= Len(on) THEN on[k] ELSE off[k - Len(on)]
    BY <1>6, ConcatProperties
  <2>2. QED
    BY <1>5, <1>7, <2>1
<1>9. ASSUME NEW k \in 1..(n + n)
      PROVE  Labels(s)[k].value = 0 \/ \E i \in 1..n : Labels(s)[k].value = s[i]
  <2>1. CASE k <= n
    <3>1. k \in 1..n
      BY <1>1, <2>1
    <3>2. QED
      BY <1>3, <1>8, <2>1, <3>1
  <2>2. CASE ~(k <= n)
    <3>1. k - n \in 1..n
      BY <1>1, <2>2
    <3>2. QED
      BY <1>3, <1>8, <2>2, <3>1
  <2>3. QED
    BY <2>1, <2>2
<1>10. n + n = 2 * n
  BY <1>1
<1>11. QED
  BY <1>1, <1>8, <1>9, <1>10 DEF n

LEMMA LabelsAreLabels ==
  ASSUME my_stack \in Seq(Nat)
  PROVE  /\ OnlyLabels(<<>>) /\ OnlyLabels(Labels(my_stack))
         /\ OnlyLabels(EntryLabels) /\ OnlyLabels(ExitLabels)
<1> DEFINE n == Len(my_stack)
           all == Labels(my_stack)
<1>1. /\ all \in Seq(EventRecord) /\ n \in Nat /\ DOMAIN my_stack = 1..n
      /\ Len(all) = 2 * n
      /\ \A k \in 1..(2 * n) : all[k].value = 0 \/ \E i \in 1..n : all[k].value = my_stack[i]
  BY LabelFacts
<1>2. DOMAIN all = 1..(2 * n) /\ \A k \in 1..(2 * n) : all[k] \in EventRecord
  BY <1>1, LenProperties, ElementOfSeq
<1> HIDE DEF n, all
<1>3. OnlyLabels(all)
  BY <1>1, <1>2 DEF OnlyLabels
<1>4. OnlyLabels(<<>>)
  BY EmptySeq DEF OnlyLabels
<1>5. ASSUME NEW lo \in Nat, NEW hi \in Nat, 1 <= lo, hi <= 2 * n, lo <= hi + 1
      PROVE  OnlyLabels(SubSeq(all, lo, hi))
  <2>1. \A i \in lo..hi : i \in 1..(2 * n)
    BY <1>1, <1>5
  <2>2. /\ SubSeq(all, lo, hi) \in Seq(EventRecord)
        /\ Len(SubSeq(all, lo, hi)) = hi - lo + 1
        /\ \A i \in 1..(hi - lo + 1) : SubSeq(all, lo, hi)[i] = all[lo + i - 1]
    <3>1. \A i \in lo..hi : all[i] \in EventRecord
      BY <1>2, <2>1
    <3>2. /\ SubSeq(all, lo, hi) \in Seq(EventRecord)
          /\ Len(SubSeq(all, lo, hi)) = IF lo <= hi THEN hi - lo + 1 ELSE 0
          /\ \A i \in 1..(hi - lo + 1) : SubSeq(all, lo, hi)[i] = all[lo + i - 1]
      BY <3>1, SubSeqProperties
    <3>3. QED
      BY <1>5, <3>2
  <2>3. DOMAIN SubSeq(all, lo, hi) = 1..(hi - lo + 1)
    BY <2>2, LenProperties
  <2>4. ASSUME NEW i \in 1..(hi - lo + 1)
        PROVE  \/ SubSeq(all, lo, hi)[i].value = 0
               \/ \E j \in DOMAIN my_stack : SubSeq(all, lo, hi)[i].value = my_stack[j]
    <3>1. lo + i - 1 \in 1..(2 * n)
      BY <1>1, <1>5
    <3>2. QED
      BY <1>1, <2>2, <3>1
  <2>5. QED
    BY <2>2, <2>3, <2>4 DEF OnlyLabels
<1>6. OnlyLabels(SubSeq(all, 1, n)) /\ OnlyLabels(SubSeq(all, n + 1, 2 * n))
  BY <1>1, <1>5
<1>7. QED
  BY <1>3, <1>4, <1>6 DEF EntryLabels, ExitLabels, all, n

(* The stack of the library stays that of the open loops in every step of    *)
(* this program: those of LoopMonitor, and those that leave both alone.      *)
LEMMA StackKept ==
  ASSUME LabelsInv, UNCHANGED <<program, library, trace_loops, trace_iters>>,
         emitted' \in Seq(EventRecord)
  PROVE  LabelsInv'
  BY DEF LabelsInv, TypeOK, ProgramOK, LibraryOK, LabelsAvailableAtAnyInstant, program, library

LEMMA StackStep == LabelsInv /\ [TableNext]_allvars => LabelsInv'
<1> SUFFICES ASSUME LabelsInv, [TableNext]_allvars PROVE LabelsInv'
  OBVIOUS
<1>0. my_stack \in Seq(Nat)
  BY DEF LabelsInv, TypeOK, LibraryOK
<1>1. ASSUME [Next]_vars PROVE LabelsInv'
  BY <1>1, LabelsStep, ProgramAssumption
<1>2. ASSUME NEW l \in Loop, EnterNewLoop(l) PROVE LabelsInv'
  BY <1>1, <1>2 DEF EnterNewLoop, Next, StructuredStep
<1>3. CASE RunLoop
  BY <1>1, <1>3 DEF RunLoop, Next, StructuredStep, JumpStep
<1>4. CASE CallMpi
  BY <1>1, <1>4 DEF CallMpi, Next, StructuredStep
<1>5. ASSUME NEW events, Emit(events), OnlyLabels(events) PROVE LabelsInv'
  <2>1. emitted' = events /\ UNCHANGED <<program, library, trace_loops, trace_iters>>
    BY <1>5 DEF Emit
  <2>2. QED
    BY <1>5, <2>1, StackKept DEF OnlyLabels
<1>6. CASE CallWrapper \/ LeaveWrapper
  BY <1>0, <1>5, <1>6, LabelsAreLabels DEF CallWrapper, LeaveWrapper
<1>7. CASE MPI_Init \/ MPI_Initialized \/ MPI_Finalize \/ MPI_Finalized
  BY <1>0, <1>5, <1>7, LabelsAreLabels DEF MPI_Init, MPI_Initialized, MPI_Finalize, MPI_Finalized
<1>8. CASE UNCHANGED allvars
  BY <1>1, <1>8 DEF allvars
<1>9. QED
  BY <1>2, <1>3, <1>4, <1>6, <1>7, <1>8 DEF TableNext

-----------------------------------------------------------------------------
(* Every loop that is open, and every loop of the trace, is in the table     *)
(* while MPI is on, or was dropped from it.                                  *)
Located(id) == InTable(id) \/ id \in dropped

OpenLocated   == \A i \in DOMAIN loops : Located(Hash[loops[i].loop])
TracedLocated == mpi = "on" => \A id \in traced : Located(id)

(* The table is cleared before there is a trace, and never again.            *)
InitializedInTime ==
  /\ mpi \in {"off", "on", "over"}
  /\ mpi # "off" => helper_initialized
  /\ mpi = "off" => traced = {}

LocationInv ==
  /\ LabelsInv
  /\ TableInv
  /\ OpenLocated
  /\ TracedLocated
  /\ InitializedInTime
  /\ LabelsComplete

(* What a step traces is a loop that is open.                                *)
LEMMA TracesOpenLoops ==
  ASSUME LabelsInv, NEW events, OnlyLabels(events), Parse(events)
  PROVE  /\ mpi # "on" => traced' = traced
         /\ \A id \in traced' : id \in traced \/ \E i \in DOMAIN loops : id = Hash[loops[i].loop]
<1>1. /\ my_stack = [i \in 1..Len(loops) |-> Hash[loops[i].loop]]
      /\ DOMAIN loops = 1..Len(loops)
  BY ProgramAssumption, LenProperties
     DEF LabelsInv, LabelsAvailableAtAnyInstant, TypeOK, ProgramOK
<1>2. CASE mpi = "on"
  <2>1. traced' = traced \cup ({events[k].value : k \in DOMAIN events} \ {0})
    BY <1>2 DEF Parse
  <2>2. ASSUME NEW id \in traced', id \notin traced
        PROVE  \E i \in DOMAIN loops : id = Hash[loops[i].loop]
    <3>1. PICK k \in DOMAIN events : id = events[k].value /\ id # 0
      BY <2>1, <2>2
    <3>2. PICK i \in DOMAIN my_stack : events[k].value = my_stack[i]
      BY <3>1 DEF OnlyLabels
    <3>3. QED
      BY <1>1, <3>1, <3>2
  <2>3. QED
    BY <1>2, <2>2
<1>3. CASE mpi # "on"
  BY <1>3 DEF Parse
<1>4. QED
  BY <1>2, <1>3

(* A step that only hands labels to Extrae.                                  *)
LEMMA LabelStep ==
  ASSUME LocationInv, LabelsInv', TableInv', UNCHANGED <<loops, mpi, table>>,
         NEW events, OnlyLabels(events), Parse(events)
  PROVE  LocationInv'
<1>1. /\ mpi # "on" => traced' = traced
      /\ \A id \in traced' : id \in traced \/ \E i \in DOMAIN loops : id = Hash[loops[i].loop]
  BY TracesOpenLoops DEF LocationInv
<1>2. \A id : Located(id) <=> Located(id)'
  BY DEF Located, InTable, table
<1>3. OpenLocated'
  BY <1>2 DEF LocationInv, OpenLocated
<1>4. TracedLocated'
  BY <1>1, <1>2 DEF LocationInv, OpenLocated, TracedLocated
<1>5. InitializedInTime' /\ LabelsComplete'
  BY <1>1 DEF LocationInv, InitializedInTime, LabelsComplete, table
<1>6. QED
  BY <1>3, <1>4, <1>5 DEF LocationInv

LEMMA EnterNewLoopStep ==
  ASSUME LocationInv, LabelsInv', NEW l \in Loop, EnterNewLoop(l)
  PROVE  LocationInv'
<1> DEFINE r == [loop |-> l, n |-> 0]
<1>1. /\ loops' = Append(loops, r)
      /\ get_loop_uid(l)
      /\ dropped' = IF mpi = "over" THEN dropped ELSE dropped \ {Hash[l]}
      /\ UNCHANGED <<mpi, helper_initialized, labels, traced>>
  BY DEF EnterNewLoop, EnterLoop, analysis
<1>2. /\ TableInv' /\ InTable(Hash[l])'
      /\ \A id : InTable(id) => InTable(id)'
  BY <1>1, LookUpKeeps DEF LocationInv
<1>3. \A id : Located(id) => Located(id)'
  BY <1>1, <1>2 DEF Located
<1>4. OpenLocated'
  <2>1. /\ loops \in Seq([loop : Loop, n : Nat]) /\ r \in [loop : Loop, n : Nat]
        /\ Len(loops) \in Nat
    BY LenProperties DEF LocationInv, LabelsInv, TypeOK, ProgramOK
  <2>2. /\ DOMAIN loops = 1..Len(loops) /\ DOMAIN loops' = 1..(Len(loops) + 1)
        /\ \A i \in 1..Len(loops) : loops'[i] = loops[i]
        /\ loops'[Len(loops) + 1].loop = l
    BY <1>1, <2>1, AppendProperties, LenProperties
  <2>3. ASSUME NEW i \in DOMAIN loops', NEW id, id = Hash[loops'[i].loop]
        PROVE  Located(id)'
    <3>1. CASE i = Len(loops) + 1
      <4>1. id = Hash[l]
        BY <2>2, <2>3, <3>1
      <4>2. QED
        BY <1>2, <4>1 DEF Located
    <3>2. CASE i \in 1..Len(loops)
      <4>1. id = Hash[loops[i].loop] /\ i \in DOMAIN loops
        BY <2>2, <2>3, <3>2
      <4>2. Located(id)
        BY <4>1 DEF LocationInv, OpenLocated
      <4>3. QED
        BY <1>3, <4>2
    <3>3. QED
      BY <2>1, <2>2, <3>1, <3>2
  <2>4. QED
    BY <2>3 DEF OpenLocated, Located, InTable
<1>5. TracedLocated'
  BY <1>1, <1>3 DEF LocationInv, TracedLocated
<1>6. InitializedInTime' /\ LabelsComplete'
  BY <1>1 DEF LocationInv, InitializedInTime, LabelsComplete
<1>7. QED
  BY <1>2, <1>4, <1>5, <1>6 DEF LocationInv

(* Counting an iteration changes no loop.                                    *)
LEMMA NextIteration ==
  ASSUME NEW s \in Seq([loop : Loop, n : Nat]), s # <<>>,
         NEW e \in [loop : Loop, n : Nat], e.loop = Last(s).loop
  PROVE  \A i \in DOMAIN Append(Front(s), e) :
           i \in DOMAIN s /\ Append(Front(s), e)[i].loop = s[i].loop
<1> DEFINE Open == [loop : Loop, n : Nat]
           t == Append(Front(s), e)
<1>1. s \in Seq(Open) /\ e \in Open
  OBVIOUS
<1> HIDE DEF Open
<1>2. /\ Len(s) \in Nat \ {0} /\ DOMAIN s = 1..Len(s) /\ Last(s) = s[Len(s)]
  BY <1>1, FrontProperties, LenProperties
<1>3. /\ t \in Seq(Open) /\ Len(t) = Len(s) /\ t[Len(s)] = e
      /\ \A i \in 1..(Len(s) - 1) : t[i] = s[i]
  BY <1>1, ReplaceLast
<1>4. DOMAIN t = 1..Len(s)
  BY <1>3, LenProperties
<1> HIDE DEF t
<1>5. ASSUME NEW i \in 1..Len(s)
      PROVE  t[i].loop = s[i].loop
  <2>1. CASE i = Len(s)
    BY <1>2, <1>3, <2>1
  <2>2. CASE i # Len(s)
    <3>1. \A n \in Nat : i \in 1..n /\ i # n => i \in 1..(n - 1)
      BY SMT
    <3>2. i \in 1..(Len(s) - 1)
      BY <1>2, <2>2, <3>1
    <3>3. QED
      BY <1>3, <3>2
  <2>3. QED
    BY <2>1, <2>2
<1>6. QED
  BY <1>2, <1>4, <1>5 DEF t

(* The loops that are open after the program left or repeated one were open  *)
(* before.                                                                   *)
LEMMA RunLoopStep ==
  ASSUME LocationInv, LabelsInv', TableInv', RunLoop
  PROVE  LocationInv'
<1>1. /\ UNCHANGED <<mpi, table, traced>>
      /\ loops \in Seq([loop : Loop, n : Nat])
      /\ Len(loops) \in Nat /\ DOMAIN loops = 1..Len(loops)
      /\ CallerLoops < Len(loops)
  BY LenProperties DEF RunLoop, analysis, LocationInv, LabelsInv, TypeOK, ProgramOK
<1>2. \A id : Located(id) <=> Located(id)'
  BY <1>1 DEF Located, InTable, table
<1>3. \A i \in DOMAIN loops' : i \in DOMAIN loops /\ loops'[i].loop = loops[i].loop
  <2>1. CASE BeginIter(1)
    <3>1. loops # <<>> /\ loops' = Append(Front(loops), [Last(loops) EXCEPT !.n = @ + 1])
      BY <2>1 DEF BeginIter, LocationInv, LabelsInv, TypeOK, ProgramOK
    <3>2. /\ [Last(loops) EXCEPT !.n = @ + 1] \in [loop : Loop, n : Nat]
          /\ Last(loops) \in [loop : Loop, n : Nat]
      BY <1>1, <3>1, LoopRecords, FrontProperties
    <3>3. [Last(loops) EXCEPT !.n = @ + 1].loop = Last(loops).loop
      BY <3>2
    <3>4. QED
      BY <1>1, <3>1, <3>2, <3>3, NextIteration
  <2>2. CASE EndIter \/ Continue
    BY <2>2 DEF EndIter, Continue
  <2>3. CASE ExitLoop \/ Break
    <3>1. loops # <<>> /\ loops' = Front(loops)
      BY <2>3 DEF ExitLoop, Break, LocationInv, LabelsInv, TypeOK, ProgramOK
    <3>2. /\ loops' \in Seq([loop : Loop, n : Nat])
          /\ Len(loops') = Len(loops) - 1
          /\ \A i \in 1..(Len(loops) - 1) : loops'[i] = loops[i]
      BY <1>1, <3>1, FrontProperties
    <3>3. DOMAIN loops' = 1..Len(loops')
      BY <3>2, LenProperties
    <3>4. ASSUME NEW i \in DOMAIN loops'
          PROVE  i \in DOMAIN loops /\ i \in 1..(Len(loops) - 1)
      BY <1>1, <3>2, <3>3
    <3>5. QED
      BY <3>2, <3>4
  <2>4. QED
    BY <2>1, <2>2, <2>3 DEF RunLoop
<1>4. OpenLocated'
  BY <1>2, <1>3 DEF LocationInv, OpenLocated
<1>5. TracedLocated' /\ InitializedInTime' /\ LabelsComplete'
  BY <1>1, <1>2
     DEF LocationInv, TracedLocated, InitializedInTime, LabelsComplete, table
<1>6. QED
  BY <1>4, <1>5 DEF LocationInv

(* Clearing the table drops every open loop; nothing was traced before.      *)
LEMMA InitStep ==
  ASSUME LocationInv, LabelsInv', TableInv', MPI_Init \/ MPI_Initialized
  PROVE  LocationInv'
<1>1. /\ helper_init /\ UNCHANGED <<loops, labels>>
      /\ mpi' = mpi \/ (mpi = "off" /\ mpi' = "on")
  BY DEF MPI_Init, MPI_Initialized, Emit, program, helper_init
<1>2. traced' = traced
  <2>1. Parse(<<>>)
    BY DEF MPI_Init, MPI_Initialized, Emit
  <2>2. DOMAIN <<>> = {}
    OBVIOUS
  <2>3. QED
    BY <2>1, <2>2 DEF Parse
<1>3. helper_initialized' = TRUE
  BY <1>1 DEF helper_init
<1>4. InitializedInTime'
  BY <1>1, <1>2, <1>3 DEF LocationInv, InitializedInTime
<1>5. CASE helper_initialized
  <2>1. UNCHANGED <<loopid_hashmap, dropped>>
    BY <1>1, <1>5 DEF helper_init
  <2>2. \A id : Located(id) <=> Located(id)'
    BY <2>1 DEF Located, InTable
  <2>3. OpenLocated' /\ TracedLocated' /\ LabelsComplete'
    BY <1>1, <1>2, <2>1, <2>2
       DEF LocationInv, OpenLocated, TracedLocated, InitializedInTime, LabelsComplete
  <2>4. QED
    BY <1>4, <2>3 DEF LocationInv
<1>6. CASE ~helper_initialized
  <2>1. mpi = "off" /\ traced = {}
    BY <1>6 DEF LocationInv, InitializedInTime
  <2>2. dropped' = OpenIds
    BY <1>1, <1>6 DEF helper_init
  <2>3. OpenLocated'
    BY <1>1, <2>2 DEF OpenLocated, Located, OpenIds
  <2>4. TracedLocated' /\ LabelsComplete'
    BY <1>1, <1>2, <2>1 DEF TracedLocated, LabelsComplete
  <2>5. QED
    BY <1>4, <2>3, <2>4 DEF LocationInv
<1>7. QED
  BY <1>5, <1>6

(* helper_fini names everything that is in the table.                        *)
LEMMA FiniStep ==
  ASSUME LocationInv, LabelsInv', TableInv', MPI_Finalize \/ MPI_Finalized
  PROVE  LocationInv'
<1>1. /\ labels' = labels \cup UNION {ToSet(loopid_hashmap[b]) : b \in DOMAIN loopid_hashmap}
      /\ UNCHANGED <<helper_initialized, loopid_hashmap, dropped, loops>>
      /\ mpi' = mpi \/ (mpi = "on" /\ mpi' = "over")
  BY DEF MPI_Finalize, MPI_Finalized, helper_fini, Emit, program
<1>2. traced' = traced
  <2>1. Parse(<<>>)
    BY DEF MPI_Finalize, MPI_Finalized, Emit
  <2>2. DOMAIN <<>> = {}
    OBVIOUS
  <2>3. QED
    BY <2>1, <2>2 DEF Parse
<1>3. \A id : Located(id) <=> Located(id)'
  BY <1>1 DEF Located, InTable
<1>4. ASSUME NEW id, InTable(id)
      PROVE  \E e \in labels' : e.id = id
  <2>1. PICK b \in DOMAIN loopid_hashmap : \E i \in DOMAIN loopid_hashmap[b] :
          loopid_hashmap[b][i].id = id
    BY <1>4 DEF InTable
  <2>2. PICK i \in DOMAIN loopid_hashmap[b] : loopid_hashmap[b][i].id = id
    BY <2>1
  <2>3. loopid_hashmap[b][i] \in ToSet(loopid_hashmap[b])
    BY DEF ToSet
  <2>4. QED
    BY <1>1, <2>2, <2>3
<1>5. OpenLocated' /\ TracedLocated' /\ InitializedInTime'
  BY <1>1, <1>2, <1>3
     DEF LocationInv, OpenLocated, TracedLocated, InitializedInTime
<1>6. LabelsComplete'
  <2>1. CASE mpi = "on" /\ mpi' = "over"
    BY <1>1, <1>2, <1>4, <2>1 DEF LocationInv, TracedLocated, Located, LabelsComplete
  <2>2. CASE mpi' = mpi
    BY <1>1, <1>2, <2>2 DEF LocationInv, LabelsComplete
  <2>3. QED
    BY <1>1, <2>1, <2>2
<1>7. QED
  BY <1>5, <1>6 DEF LocationInv

LEMMA LocationStep == LocationInv /\ [TableNext]_allvars => LocationInv'
<1> SUFFICES ASSUME LocationInv, [TableNext]_allvars PROVE LocationInv'
  OBVIOUS
<1>1. LabelsInv' /\ TableInv' /\ my_stack \in Seq(Nat)
  BY StackStep, TableStep DEF LocationInv, LabelsInv, TypeOK, LibraryOK
<1>2. ASSUME NEW l \in Loop, EnterNewLoop(l) PROVE LocationInv'
  BY <1>1, <1>2, EnterNewLoopStep
<1>3. CASE RunLoop
  BY <1>1, <1>3, RunLoopStep
<1>4. CASE CallMpi
  <2>1. UNCHANGED <<loops, mpi, table>> /\ Parse(Labels(my_stack))
    BY <1>4 DEF CallMpi, MpiCall, program
  <2>2. QED
    BY <1>1, <2>1, LabelsAreLabels, LabelStep
<1>5. CASE CallWrapper \/ LeaveWrapper
  <2>1. /\ UNCHANGED <<loops, mpi, table>>
        /\ Parse(EntryLabels) \/ Parse(ExitLabels)
    BY <1>5 DEF CallWrapper, LeaveWrapper, Emit, program
  <2>2. QED
    BY <1>1, <2>1, LabelsAreLabels, LabelStep
<1>6. CASE MPI_Init \/ MPI_Initialized
  BY <1>1, <1>6, InitStep
<1>7. CASE MPI_Finalize \/ MPI_Finalized
  BY <1>1, <1>7, FiniStep
<1>8. CASE UNCHANGED allvars
  <2>1. \A id : Located(id) <=> Located(id)'
    BY <1>8 DEF Located, InTable, allvars, table
  <2>2. QED
    BY <1>1, <1>8, <2>1
       DEF LocationInv, OpenLocated, TracedLocated, InitializedInTime, LabelsComplete,
           allvars, vars, table, analysis
<1>9. QED
  BY <1>2, <1>3, <1>4, <1>5, <1>6, <1>7, <1>8 DEF TableNext

(* Whenever MPI is initialized and asked about, and whatever loops are open  *)
(* then: at the end every loop of the trace has its location, but for those  *)
(* that were open when the table was cleared and never entered again.        *)
THEOREM LabelsCompleteCorrect == TableSpec => []LabelsComplete
<1>1. TableInit => LocationInv
  <2> SUFFICES ASSUME TableInit PROVE LocationInv
    OBVIOUS
  <2>1. LabelsInv
    <3>1. <<>> = [i \in 1..Len(<<>>) |-> Hash[<<>>[i].loop]]
      OBVIOUS
    <3>2. QED
      BY <3>1, InitType DEF TableInit, Init, LabelsInv, LabelsAvailableAtAnyInstant
  <2>2. <<>> \in Seq(Known) /\ DOMAIN <<>> = {}
    OBVIOUS
  <2>3. TableInv
    <3>1. EmptyTable \in [0..(HASHMAP_SIZE - 1) -> Seq(Known)]
      BY <2>2 DEF EmptyTable
    <3>2. \A b \in DOMAIN EmptyTable : DOMAIN EmptyTable[b] = {}
      BY <2>2 DEF EmptyTable
    <3>3. QED
      BY <3>1, <3>2 DEF TableInit, TableInv, TableOK, TableSound
  <2>4. OpenLocated /\ TracedLocated /\ InitializedInTime /\ LabelsComplete
    BY <2>2 DEF TableInit, Init, OpenLocated, TracedLocated, InitializedInTime, LabelsComplete
  <2>5. QED
    BY <2>1, <2>3, <2>4 DEF LocationInv
<1>2. LocationInv => LabelsComplete
  BY DEF LocationInv
<1>3. QED
  BY <1>1, <1>2, LocationStep, PTL DEF TableSpec

-----------------------------------------------------------------------------
(* The stacks that events lead to exist, one after the other.                *)
Stacking(f, st, events, last) ==
  f = [k \in 0..last |-> IF k = 0 THEN st ELSE Stacked(f[k - 1], events[k].value)]

LEMMA StackingAt ==
  ASSUME NEW f, NEW st, NEW events, NEW n, Stacking(f, st, events, n), NEW i \in 0..n
  PROVE  f[i] = IF i = 0 THEN st ELSE Stacked(f[i - 1], events[i].value)
<1> DEFINE g == [k \in 0..n |-> IF k = 0 THEN st ELSE Stacked(f[k - 1], events[k].value)]
<1>1. f = g
  BY DEF Stacking
<1>2. g[i] = IF i = 0 THEN st ELSE Stacked(f[i - 1], events[i].value)
  OBVIOUS
<1> HIDE DEF g
<1>3. QED
  BY <1>1, <1>2

LEMMA StackingExists ==
  ASSUME NEW st, NEW events, NEW n \in Nat
  PROVE  \E f : Stacking(f, st, events, n)
<1> DEFINE T == {m \in Nat : \E f : Stacking(f, st, events, m)}
<1>1. 0 \in T
  <2> DEFINE g == [i \in 0..0 |-> st]
  <2>1. g = [i \in 0..0 |-> IF i = 0 THEN st ELSE Stacked(g[i - 1], events[i].value)]
    <3>1. \A i \in 0..0 : i = 0
      OBVIOUS
    <3>2. QED
      BY <3>1
  <2> HIDE DEF g
  <2>2. Stacking(g, st, events, 0)
    BY <2>1 DEF Stacking
  <2>3. QED
    BY <2>2
<1>2. ASSUME NEW m \in Nat, m \in T
      PROVE  m + 1 \in T
  <2>1. PICK f : Stacking(f, st, events, m)
    BY <1>2
  <2> DEFINE new == Stacked(f[m], events[m + 1].value)
             g   == [i \in 0..(m + 1) |-> IF i = m + 1 THEN new ELSE f[i]]
  <2>2. ASSUME NEW i \in 0..(m + 1)
        PROVE  g[i] = IF i = 0 THEN st ELSE Stacked(g[i - 1], events[i].value)
    <3>1. CASE i = m + 1
      <4>1. i # 0 /\ g[i - 1] = f[m] /\ g[i] = new
        BY <3>1
      <4> HIDE DEF g
      <4>2. QED
        BY <3>1, <4>1
    <3>2. CASE i # m + 1
      <4>1. i \in 0..m /\ (i = 0 \/ i - 1 \in 0..m) /\ i - 1 # m + 1
        BY <3>2
      <4>2. f[i] = IF i = 0 THEN st ELSE Stacked(f[i - 1], events[i].value)
        BY <2>1, <4>1, StackingAt
      <4>3. g[i] = f[i] /\ (i = 0 \/ g[i - 1] = f[i - 1])
        BY <4>1
      <4> HIDE DEF g
      <4>4. QED
        BY <4>2, <4>3
    <3>3. QED
      BY <3>1, <3>2
  <2>3. g = [i \in 0..(m + 1) |-> g[i]]
    OBVIOUS
  <2> HIDE DEF g
  <2>4. Stacking(g, st, events, m + 1)
    BY <2>2, <2>3 DEF Stacking
  <2>5. QED
    BY <2>4
<1>3. n \in T
  <2> HIDE DEF T
  <2>1. QED
    BY <1>1, <1>2, SetInduction
<1>4. QED
  BY <1>3

LEMMA StacksAre ==
  ASSUME NEW st, NEW events, Len(events) \in Nat
  PROVE  /\ Stacks(st, events)[0] = st
         /\ \A k \in 1..Len(events) :
              Stacks(st, events)[k] = Stacked(Stacks(st, events)[k - 1], events[k].value)
<1> DEFINE f == CHOOSE g : g = [k \in 0..Len(events) |->
                                  IF k = 0 THEN st ELSE Stacked(g[k - 1], events[k].value)]
<1>1. Stacks(st, events) = f
  BY Zenon DEF Stacks
<1>2. \E g : g = [k \in 0..Len(events) |->
                    IF k = 0 THEN st ELSE Stacked(g[k - 1], events[k].value)]
  <2>1. \E g : Stacking(g, st, events, Len(events))
    BY StackingExists
  <2>2. QED
    BY <2>1, Zenon DEF Stacking
<1>3. Stacking(f, st, events, Len(events))
  BY <1>2, Zenon DEF Stacking
<1> HIDE DEF f
<1>4. f[0] = st
  BY <1>3, StackingAt
<1>5. ASSUME NEW k \in 1..Len(events)
      PROVE  f[k] = Stacked(f[k - 1], events[k].value)
  <2>1. k \in 0..Len(events) /\ k # 0
    OBVIOUS
  <2>2. QED
    BY <1>3, <2>1, StackingAt
<1>6. QED
  BY <1>1, <1>4, <1>5

-----------------------------------------------------------------------------
(* Labels of loops followed by zeros: the labels are appended to the stack,  *)
(* then as many of its elements are removed as there are zeros.              *)
Balanced(events, up, down) ==
  /\ up \in Nat /\ down \in Nat /\ Len(events) = up + down
  /\ \A k \in 1..up : events[k].value \in Nat \ {0}
  /\ \A k \in 1..down : events[up + k].value = 0

LEMMA Pushes ==
  ASSUME NEW s \in Seq(Nat), NEW events, NEW up, NEW down, Balanced(events, up, down)
  PROVE  \A k \in 0..up :
           /\ Stacks(s, events)[k] \in Seq(Nat)
           /\ Len(Stacks(s, events)[k]) = Len(s) + k
           /\ \A i \in 1..k : Stacks(s, events)[k][Len(s) + i] = events[i].value
<1> DEFINE f == Stacks(s, events)
           Pushed(k) == /\ f[k] \in Seq(Nat)
                        /\ Len(f[k]) = Len(s) + k
                        /\ \A i \in 1..k : f[k][Len(s) + i] = events[i].value
           T == {k \in Nat : k \in 0..up => Pushed(k)}
<1>0. Len(s) \in Nat /\ up \in Nat /\ down \in Nat /\ Len(events) = up + down
  BY LenProperties DEF Balanced
<1>a. /\ f[0] = s
      /\ \A k \in 1..Len(events) : f[k] = Stacked(f[k - 1], events[k].value)
  BY <1>0, StacksAre
<1> HIDE DEF f
<1>1. 0 \in T
  BY <1>0, <1>a
<1>2. ASSUME NEW k \in Nat, k \in T
      PROVE  k + 1 \in T
  <2> SUFFICES ASSUME k + 1 \in 0..up
               PROVE  Pushed(k + 1)
    OBVIOUS
  <2>1. k \in 0..up /\ k + 1 \in 1..up /\ k + 1 \in 1..Len(events) /\ (k + 1) - 1 = k
    BY <1>0
  <2>2. Pushed(k)
    BY <1>2, <2>1
  <2> DEFINE v == events[k + 1].value
  <2>3. v \in Nat \ {0}
    BY <2>1 DEF Balanced
  <2>4. f[k + 1] = Stacked(f[k], v)
    <3> DEFINE j == k + 1
    <3>1. j \in 1..Len(events) /\ j - 1 = k
      BY <2>1
    <3> HIDE DEF j
    <3>2. f[j] = Stacked(f[k], events[j].value)
      BY <1>a, <3>1
    <3>3. QED
      BY <3>2 DEF j
  <2> HIDE DEF v
  <2>5. f[k + 1] = Append(f[k], v)
    BY <2>3, <2>4 DEF Stacked
  <2>6. /\ Append(f[k], v) \in Seq(Nat)
        /\ Len(Append(f[k], v)) = Len(s) + k + 1
        /\ \A i \in 1..(Len(s) + k) : Append(f[k], v)[i] = f[k][i]
        /\ Append(f[k], v)[Len(s) + k + 1] = v
    BY <2>2, <2>3, AppendProperties
  <2>7. ASSUME NEW i \in 1..(k + 1)
        PROVE  f[k + 1][Len(s) + i] = events[i].value
    <3>1. CASE i = k + 1
      <4>1. Len(s) + i = Len(s) + k + 1
        BY <1>0, <3>1
      <4>2. QED
        BY <2>5, <2>6, <3>1, <4>1 DEF v
    <3>2. CASE i # k + 1
      <4>1. i \in 1..k /\ Len(s) + i \in 1..(Len(s) + k)
        BY <1>0, <3>2
      <4>2. QED
        BY <2>2, <2>5, <2>6, <4>1
    <3>3. QED
      BY <3>1, <3>2
  <2>8. f[k + 1] \in Seq(Nat) /\ Len(f[k + 1]) = Len(s) + (k + 1)
    BY <1>0, <2>5, <2>6
  <2>9. QED
    BY <2>7, <2>8
<1>3. \A k \in Nat : k \in T
  <2> HIDE DEF T
  <2>1. QED
    BY <1>1, <1>2, SetInduction
<1>4. \A k \in 0..up : Pushed(k)
  BY <1>0, <1>3
<1>5. QED
  BY <1>4 DEF f

LEMMA Pops ==
  ASSUME NEW s \in Seq(Nat), NEW events, NEW up, NEW down, Balanced(events, up, down),
         down <= Len(s) + up
  PROVE  \A k \in 0..down :
           /\ Stacks(s, events)[up + k] \in Seq(Nat)
           /\ Len(Stacks(s, events)[up + k]) = Len(s) + up - k
<1> DEFINE f == Stacks(s, events)
           Removed(k) == f[up + k] \in Seq(Nat) /\ Len(f[up + k]) = Len(s) + up - k
           T == {k \in Nat : k \in 0..down => Removed(k)}
<1>0. Len(s) \in Nat /\ up \in Nat /\ down \in Nat /\ Len(events) = up + down
  BY LenProperties DEF Balanced
<1>a. \A k \in 1..Len(events) : f[k] = Stacked(f[k - 1], events[k].value)
  BY <1>0, StacksAre
<1>b. f[up] \in Seq(Nat) /\ Len(f[up]) = Len(s) + up
  <2>1. up \in 0..up
    BY <1>0
  <2>2. QED
    BY <2>1, Pushes
<1> HIDE DEF f
<1>1. 0 \in T
  BY <1>0, <1>b
<1>2. ASSUME NEW k \in Nat, k \in T
      PROVE  k + 1 \in T
  <2> SUFFICES ASSUME k + 1 \in 0..down
               PROVE  Removed(k + 1)
    OBVIOUS
  <2>1. k \in 0..down /\ k + 1 \in 1..down
    BY <1>0
  <2>2. Removed(k)
    BY <1>2, <2>1
  <2> DEFINE j == up + (k + 1)
  <2>3. j \in 1..Len(events) /\ j - 1 = up + k
    BY <1>0, <2>1
  <2>4. events[j].value = 0
    BY <2>1 DEF Balanced
  <2> HIDE DEF j
  <2>5. f[j] = Rest(f[up + k])
    BY <1>a, <2>3, <2>4 DEF Stacked
  <2>6. f[up + k] # <<>>
    <3>1. Len(f[up + k]) # 0
      BY <1>0, <2>1, <2>2
    <3>2. QED
      BY <3>1, EmptySeq
  <2>7. Rest(f[up + k]) \in Seq(Nat) /\ Len(Rest(f[up + k])) = Len(f[up + k]) - 1
    BY <2>2, <2>6, FrontProperties DEF Rest
  <2>8. f[j] \in Seq(Nat) /\ Len(f[j]) = Len(s) + up - (k + 1)
    BY <1>0, <2>2, <2>5, <2>7
  <2>9. QED
    BY <2>8 DEF j
<1>3. \A k \in Nat : k \in T
  <2> HIDE DEF T
  <2>1. QED
    BY <1>1, <1>2, SetInduction
<1>4. \A k \in 0..down : Removed(k)
  <2> HIDE DEF Removed
  <2>1. \A k \in Nat : k \in 0..down => Removed(k)
    BY <1>3
  <2>2. QED
    BY <1>0, <2>1
<1>5. QED
  BY <1>4 DEF f

(* What the parser makes of such events.                                     *)
LEMMA Handles ==
  ASSUME NEW s \in Seq(Nat), NEW events, NEW up, NEW down, Balanced(events, up, down),
         down <= Len(s) + up
  PROVE  /\ loops_handler(s, events) \in Seq(Nat)
         /\ Len(loops_handler(s, events)) = Len(s) + up - down
         /\ ~PopsNothing(s, events)
<1>0. Len(s) \in Nat /\ up \in Nat /\ down \in Nat /\ Len(events) = up + down
  BY LenProperties DEF Balanced
<1>1. loops_handler(s, events) \in Seq(Nat) /\ Len(loops_handler(s, events)) = Len(s) + up - down
  <2>1. PICK k \in 0..down : k = down
    BY <1>0
  <2>2. /\ Stacks(s, events)[up + k] \in Seq(Nat)
        /\ Len(Stacks(s, events)[up + k]) = Len(s) + up - k
    BY Pops
  <2>3. up + k = Len(events)
    BY <1>0, <2>1
  <2>4. QED
    BY <2>1, <2>2, <2>3 DEF loops_handler
<1>2. ASSUME NEW k \in 1..Len(events), events[k].value = 0
      PROVE  Stacks(s, events)[k - 1] # <<>>
  <2>1. k \notin 1..up
    BY <1>2 DEF Balanced
  <2> DEFINE j == k - 1 - up
  <2>2. j \in 0..down /\ k - 1 = up + j /\ j < down
    BY <1>0, <2>1
  <2> HIDE DEF j
  <2>3. Len(Stacks(s, events)[k - 1]) = Len(s) + up - j
    BY <2>2, Pops
  <2>4. Len(Stacks(s, events)[k - 1]) # 0
    BY <1>0, <2>2, <2>3
  <2>5. QED
    BY <2>4, EmptySeq
<1>3. QED
  BY <1>1, <1>2 DEF PopsNothing

(* The labels of a call, and those of its entry and of its exit.             *)
LEMMA LabelsBalanced ==
  ASSUME NEW s \in Seq(Nat), \A i \in 1..Len(s) : s[i] # 0
  PROVE  /\ Balanced(Labels(s), Len(s), Len(s))
         /\ Balanced(SubSeq(Labels(s), 1, Len(s)), Len(s), 0)
         /\ Balanced(SubSeq(Labels(s), Len(s) + 1, 2 * Len(s)), 0, Len(s))
         /\ \A k \in 1..Len(s) : SubSeq(Labels(s), 1, Len(s))[k].value = s[Len(s) - k + 1]
<1> DEFINE n   == Len(s)
           all == Labels(s)
           on  == [k \in 1..n |-> Label(k - 1, s[n - k + 1])]
           off == [k \in 1..n |-> Label(k - 1, 0)]
<1>1. n \in Nat /\ \A i \in 1..n : s[i] \in Nat \ {0}
  BY LenProperties, ElementOfSeq
<1>2. all \in Seq(EventRecord) /\ Len(all) = n + n
  BY <1>1, LabelFacts
<1>3. /\ \A k \in 1..n : on[k].value = s[n - k + 1] /\ on[k] \in EventRecord
      /\ \A k \in 1..n : off[k].value = 0 /\ off[k] \in EventRecord
  <2>1. ASSUME NEW k \in 1..n
        PROVE  /\ on[k].value = s[n - k + 1] /\ on[k] \in EventRecord
               /\ off[k].value = 0 /\ off[k] \in EventRecord
    <3>1. n - k + 1 \in 1..n /\ k - 1 \in Nat
      BY <1>1
    <3>2. s[n - k + 1] \in Nat
      BY <1>1, <3>1
    <3>3. QED
      BY <3>1, <3>2, EventTypes DEF Label
  <2>2. QED
    BY <2>1
<1>4. /\ on \in Seq(EventRecord) /\ off \in Seq(EventRecord)
      /\ Len(on) = n /\ Len(off) = n
  BY <1>1, <1>3
<1>5. all = on \o off
  BY DEF Labels
<1> HIDE DEF n, all, on, off
<1>6. \A k \in 1..(n + n) : all[k] = IF k <= n THEN on[k] ELSE off[k - n]
  <2>1. \A k \in 1..(Len(on) + Len(off)) :
          (on \o off)[k] = IF k <= Len(on) THEN on[k] ELSE off[k - Len(on)]
    BY <1>4, ConcatProperties
  <2>2. QED
    BY <1>4, <1>5, <2>1
<1>7. /\ \A k \in 1..n : all[k].value = s[n - k + 1]
      /\ \A k \in 1..n : all[n + k].value = 0
  <2>1. ASSUME NEW k \in 1..n
        PROVE  all[k].value = s[n - k + 1] /\ all[n + k].value = 0
    <3>1. k \in 1..(n + n) /\ k <= n
      BY <1>1
    <3>2. n + k \in 1..(n + n) /\ ~(n + k <= n) /\ (n + k) - n = k
      BY <1>1
    <3>3. all[k] = on[k]
      BY <1>6, <3>1
    <3>4. all[n + k] = off[k]
      <4> DEFINE j == n + k
      <4>1. j \in 1..(n + n) /\ ~(j <= n) /\ j - n = k
        BY <3>2
      <4> HIDE DEF j
      <4>2. all[j] = off[k]
        BY <1>6, <4>1
      <4>3. QED
        BY <4>2 DEF j
    <3>5. QED
      BY <1>3, <3>3, <3>4
  <2>2. QED
    BY <2>1
<1>8. \A k \in 1..n : s[n - k + 1] \in Nat \ {0}
  <2>1. \A k \in 1..n : n - k + 1 \in 1..n
    BY <1>1
  <2>2. QED
    BY <1>1, <2>1
<1>9. Balanced(all, n, n)
  BY <1>1, <1>2, <1>7, <1>8 DEF Balanced
<1>10. \A i \in 1..(n + n) : all[i] \in EventRecord
  BY <1>2, ElementOfSeq
<1>11. /\ Len(SubSeq(all, 1, n)) = n
       /\ \A k \in 1..n : SubSeq(all, 1, n)[k] = all[k]
  <2>1. \A i \in 1..n : all[i] \in EventRecord
    BY <1>1, <1>10
  <2>2. /\ Len(SubSeq(all, 1, n)) = IF 1 <= n THEN n - 1 + 1 ELSE 0
        /\ \A k \in 1..(n - 1 + 1) : SubSeq(all, 1, n)[k] = all[1 + k - 1]
    BY <1>1, <2>1, SubSeqProperties
  <2>3. n - 1 + 1 = n /\ (~(1 <= n) => n = 0) /\ \A k \in 1..n : 1 + k - 1 = k
    BY <1>1
  <2>4. QED
    BY <2>2, <2>3
<1>12. /\ Len(SubSeq(all, n + 1, 2 * n)) = n
       /\ \A k \in 1..n : SubSeq(all, n + 1, 2 * n)[k] = all[n + k]
  <2> DEFINE lo == n + 1
             hi == 2 * n
  <2>0. lo \in Int /\ hi \in Int /\ hi - lo + 1 = n /\ (~(lo <= hi) => n = 0)
    BY <1>1
  <2>1. \A i \in lo..hi : all[i] \in EventRecord
    <3>1. \A i \in lo..hi : i \in 1..(n + n)
      BY <1>1
    <3>2. QED
      BY <1>10, <3>1
  <2>2. \A k \in 1..n : lo + k - 1 = n + k
    BY <1>1
  <2> HIDE DEF lo, hi
  <2>3. /\ Len(SubSeq(all, lo, hi)) = IF lo <= hi THEN hi - lo + 1 ELSE 0
        /\ \A k \in 1..(hi - lo + 1) : SubSeq(all, lo, hi)[k] = all[lo + k - 1]
    BY <2>0, <2>1, SubSeqProperties
  <2>4. Len(SubSeq(all, lo, hi)) = n
    BY <2>0, <2>3
  <2>5. \A k \in 1..n : SubSeq(all, lo, hi)[k] = all[n + k]
    BY <2>0, <2>2, <2>3
  <2>6. QED
    BY <2>4, <2>5 DEF lo, hi
<1>13. Balanced(SubSeq(all, 1, n), n, 0)
  <2>1. n + 0 = n /\ 1..0 = {} /\ 0 \in Nat
    BY <1>1
  <2>2. QED
    BY <1>1, <1>7, <1>8, <1>11, <2>1 DEF Balanced
<1>14. Balanced(SubSeq(all, n + 1, 2 * n), 0, n)
  <2> DEFINE t == SubSeq(all, n + 1, 2 * n)
  <2>1. 0 + n = n /\ 1..0 = {} /\ 0 \in Nat /\ \A k \in 1..n : 0 + k = k
    BY <1>1
  <2>2. Len(t) = n /\ \A k \in 1..n : t[k].value = 0
    BY <1>7, <1>12
  <2> HIDE DEF t
  <2>3. Balanced(t, 0, n)
    BY <1>1, <2>1, <2>2 DEF Balanced
  <2>4. QED
    BY <2>3 DEF t
<1>15. QED
  BY <1>7, <1>9, <1>11, <1>13, <1>14 DEF n, all

-----------------------------------------------------------------------------
(* The stack of the parser while MPI is on.  The m outer wrappers were       *)
(* called before MPI_Init: the trace has no entry of them.  Each of the      *)
(* others left the loops that were open at its call on the stack.            *)
InitInALoop == \E j \in DOMAIN init_frames : init_frames[j] > 0

Heights(h, m) ==
  /\ h \in [0..Len(frames) -> Nat]
  /\ \A i \in 0..Len(frames) : h[i] = IF i <= m THEN 0 ELSE h[i - 1] + frames[i]

StackOfFrames ==
  \E m \in 0..Len(frames) :
    /\ \A i \in 1..m : frames[i] # 0 => InitInALoop
    /\ \E h : Heights(h, m) /\ Len(loop_stack) = h[Len(frames)]

BalanceInv ==
  /\ LabelsInv
  /\ frames \in Seq(Nat) /\ failed \in BOOLEAN
  /\ mpi = "off" => ~failed /\ loop_stack = <<>>
  /\ mpi = "on" /\ ~failed => loop_stack \in Seq(Nat) /\ StackOfFrames
  /\ PopsAreBalanced

(* The identifiers on my_stack are those of the open loops, and not 0.       *)
LEMMA OpenLoopsOnStack ==
  ASSUME LabelsInv
  PROVE  /\ my_stack \in Seq(Nat) /\ Len(my_stack) = Len(loops) /\ Len(loops) \in Nat
         /\ DOMAIN loops = 1..Len(loops)
         /\ \A i \in 1..Len(loops) : my_stack[i] = Hash[loops[i].loop] /\ my_stack[i] # 0
<1>1. /\ loops \in Seq([loop : Loop, n : Nat]) /\ my_stack \in Seq(Nat)
      /\ my_stack = [i \in 1..Len(loops) |-> Hash[loops[i].loop]]
  BY ProgramAssumption DEF LabelsInv, LabelsAvailableAtAnyInstant, TypeOK, ProgramOK, LibraryOK
<1>2. Len(loops) \in Nat /\ DOMAIN loops = 1..Len(loops)
  BY <1>1, LenProperties
<1>3. Len(my_stack) = Len(loops)
  <2>1. Len([i \in 1..Len(loops) |-> Hash[loops[i].loop]]) = Len(loops)
    BY <1>2
  <2>2. QED
    BY <1>1, <2>1, Zenon
<1>4. \A i \in 1..Len(loops) : loops[i].loop \in Loop
  <2>1. \A i \in 1..Len(loops) : loops[i] \in [loop : Loop, n : Nat]
    BY <1>1, ElementOfSeq
  <2>2. QED
    BY <2>1
<1>5. \A i \in 1..Len(loops) : Hash[loops[i].loop] # 0
  BY <1>4, HashAssumption
<1>6. QED
  BY <1>1, <1>2, <1>3, <1>5

LEMMA OpenLabels ==
  ASSUME LabelsInv
  PROVE  /\ Balanced(Labels(my_stack), Len(loops), Len(loops))
         /\ Balanced(EntryLabels, Len(loops), 0)
         /\ Balanced(ExitLabels, 0, Len(loops))
         /\ \A k \in 1..Len(loops) : EntryLabels[k].value = Hash[loops[Len(loops) - k + 1].loop]
<1>1. /\ my_stack \in Seq(Nat) /\ Len(my_stack) = Len(loops) /\ Len(loops) \in Nat
      /\ \A i \in 1..Len(loops) : my_stack[i] = Hash[loops[i].loop] /\ my_stack[i] # 0
  BY OpenLoopsOnStack
<1>2. \A k \in 1..Len(loops) : Len(loops) - k + 1 \in 1..Len(loops)
  BY <1>1
<1>3. /\ Balanced(Labels(my_stack), Len(loops), Len(loops))
      /\ Balanced(EntryLabels, Len(loops), 0)
      /\ Balanced(ExitLabels, 0, Len(loops))
      /\ \A k \in 1..Len(loops) : EntryLabels[k].value = my_stack[Len(loops) - k + 1]
  BY <1>1, LabelsBalanced DEF EntryLabels, ExitLabels
<1>4. QED
  BY <1>1, <1>2, <1>3

-----------------------------------------------------------------------------
(* What the parser does with labels followed by zeros, while it has not      *)
(* failed, and what a step has to show that calls no function of MPI.        *)
LEMMA Parsed ==
  ASSUME mpi = "on", failed = FALSE, loop_stack \in Seq(Nat),
         NEW events, NEW up, NEW down, Balanced(events, up, down),
         down <= Len(loop_stack) + up, Parse(events)
  PROVE  /\ loop_stack' \in Seq(Nat)
         /\ Len(loop_stack') = Len(loop_stack) + up - down
         /\ failed' = FALSE
<1>1. /\ loops_handler(loop_stack, events) \in Seq(Nat)
      /\ Len(loops_handler(loop_stack, events)) = Len(loop_stack) + up - down
      /\ ~PopsNothing(loop_stack, events)
  BY Handles
<1>2. /\ loop_stack' = loops_handler(loop_stack, events)
      /\ failed' = (failed \/ PopsNothing(loop_stack, events))
  BY DEF Parse
<1>3. QED
  BY <1>1, <1>2

LEMMA ParsedStep ==
  ASSUME BalanceInv, LabelsInv', UNCHANGED <<mpi, init_frames>>, frames' \in Seq(Nat),
         NEW events, Parse(events),
         mpi = "on" /\ failed = FALSE =>
           \/ failed' = TRUE /\ InitInALoop
           \/ failed' = FALSE /\ loop_stack' \in Seq(Nat) /\ StackOfFrames'
  PROVE  BalanceInv'
<1>1. failed \in BOOLEAN /\ (failed => InitInALoop) /\ (InitInALoop <=> InitInALoop')
  BY DEF BalanceInv, PopsAreBalanced, InitInALoop
<1>2. CASE mpi # "on"
  <2>1. UNCHANGED <<loop_stack, failed>>
    BY <1>2 DEF Parse
  <2>2. QED
    BY <1>1, <1>2, <2>1 DEF BalanceInv, PopsAreBalanced, InitInALoop
<1>3. CASE mpi = "on" /\ failed = TRUE
  <2>1. failed' = TRUE
    BY <1>3 DEF Parse
  <2>2. QED
    BY <1>1, <1>3, <2>1 DEF BalanceInv, PopsAreBalanced, InitInALoop
<1>4. CASE mpi = "on" /\ failed = FALSE
  BY <1>1, <1>4 DEF BalanceInv, PopsAreBalanced, InitInALoop
<1>5. QED
  BY <1>1, <1>2, <1>3, <1>4

LEMMA CallMpiBalance ==
  ASSUME BalanceInv, LabelsInv', CallMpi
  PROVE  BalanceInv'
<1> DEFINE n == Len(loops)
<1>1. /\ mpi = "on" /\ UNCHANGED <<mpi, frames, init_frames>> /\ Parse(Labels(my_stack))
  BY DEF CallMpi, table
<1>2. n \in Nat /\ Balanced(Labels(my_stack), n, n)
  BY OpenLabels, OpenLoopsOnStack DEF BalanceInv
<1> HIDE DEF n
<1>3. ASSUME failed = FALSE
      PROVE  failed' = FALSE /\ loop_stack' \in Seq(Nat) /\ StackOfFrames'
  <2>1. loop_stack \in Seq(Nat) /\ StackOfFrames
    BY <1>1, <1>3 DEF BalanceInv
  <2>2. Len(loop_stack) \in Nat
    BY <2>1, LenProperties
  <2>3. n <= Len(loop_stack) + n
    BY <1>2, <2>2
  <2>4. loop_stack' \in Seq(Nat) /\ Len(loop_stack') = Len(loop_stack) + n - n /\ failed' = FALSE
    BY <1>1, <1>2, <1>3, <2>1, <2>3, Parsed
  <2>5. Len(loop_stack') = Len(loop_stack)
    BY <1>2, <2>2, <2>4
  <2>6. StackOfFrames'
    BY <1>1, <2>1, <2>5 DEF StackOfFrames, Heights, InitInALoop
  <2>7. QED
    BY <2>4, <2>6
<1>4. frames' \in Seq(Nat)
  BY <1>1 DEF BalanceInv
<1>5. QED
  BY <1>1, <1>3, <1>4, ParsedStep

LEMMA CallWrapperBalance ==
  ASSUME BalanceInv, LabelsInv', CallWrapper
  PROVE  BalanceInv'
<1> DEFINE n == Len(frames)
           c == Len(loops)
<1>1. /\ UNCHANGED <<mpi, init_frames>> /\ Parse(EntryLabels)
      /\ frames' = Append(frames, c)
  BY DEF CallWrapper, Emit, table
<1>2. c \in Nat /\ Balanced(EntryLabels, c, 0)
  BY OpenLabels, OpenLoopsOnStack DEF BalanceInv
<1>3. frames \in Seq(Nat) /\ n \in Nat
  BY LenProperties DEF BalanceInv
<1>4. /\ frames' \in Seq(Nat) /\ Len(frames') = n + 1
      /\ \A i \in 1..n : frames'[i] = frames[i]
      /\ frames'[n + 1] = c
  BY <1>1, <1>2, <1>3, AppendProperties
<1> HIDE DEF n, c
<1>5. ASSUME mpi = "on", failed = FALSE
      PROVE  failed' = FALSE /\ loop_stack' \in Seq(Nat) /\ StackOfFrames'
  <2>1. loop_stack \in Seq(Nat) /\ StackOfFrames
    BY <1>5 DEF BalanceInv
  <2>2. Len(loop_stack) \in Nat
    BY <2>1, LenProperties
  <2>3. 0 <= Len(loop_stack) + c
    BY <1>2, <2>2
  <2>4. loop_stack' \in Seq(Nat) /\ Len(loop_stack') = Len(loop_stack) + c - 0 /\ failed' = FALSE
    BY <1>1, <1>2, <1>5, <2>1, <2>3, Parsed
  <2>5. Len(loop_stack') = Len(loop_stack) + c
    BY <1>2, <2>2, <2>4
  <2>6. PICK m \in 0..n : /\ \A i \in 1..m : frames[i] # 0 => InitInALoop
                          /\ \E h : Heights(h, m) /\ Len(loop_stack) = h[n]
    BY <2>1 DEF StackOfFrames, n
  <2>7. PICK h : Heights(h, m) /\ Len(loop_stack) = h[n]
    BY <2>6
  <2>8. /\ h \in [0..n -> Nat]
        /\ \A i \in 0..n : h[i] = IF i <= m THEN 0 ELSE h[i - 1] + frames[i]
    BY <2>7 DEF Heights, n
  <2>9. PICK g : /\ g \in [0..(n + 1) -> Nat]
                 /\ g[n + 1] = h[n] + c
                 /\ \A i \in 0..n : g[i] = h[i]
    <3> DEFINE f == [i \in 0..(n + 1) |-> IF i = n + 1 THEN h[n] + c ELSE h[i]]
    <3>1. \A i \in 0..(n + 1) : i = n + 1 \/ i \in 0..n
      BY <1>3
    <3>2. n \in 0..n /\ h[n] + c \in Nat
      BY <1>2, <1>3, <2>8
    <3>3. \A i \in 0..n : i # n + 1 /\ i \in 0..(n + 1)
      BY <1>3
    <3>4. n + 1 \in 0..(n + 1)
      BY <1>3
    <3>5. f \in [0..(n + 1) -> Nat] /\ f[n + 1] = h[n] + c /\ \A i \in 0..n : f[i] = h[i]
      BY <2>8, <3>1, <3>2, <3>3, <3>4
    <3> HIDE DEF f
    <3>6. QED
      BY <3>5
  <2>10. ASSUME NEW i \in 0..(n + 1)
         PROVE  g[i] = IF i <= m THEN 0 ELSE g[i - 1] + frames'[i]
    <3>1. CASE i = n + 1
      <4>1. ~(i <= m) /\ i - 1 = n /\ n \in 0..n
        BY <1>3, <3>1
      <4>2. QED
        BY <1>4, <2>9, <3>1, <4>1
    <3>2. CASE i # n + 1 /\ i <= m
      <4>1. i \in 0..n
        BY <1>3, <3>2
      <4>2. QED
        BY <2>8, <2>9, <3>2, <4>1
    <3>3. CASE i # n + 1 /\ ~(i <= m)
      <4>1. i \in 0..n /\ i \in 1..n /\ i - 1 \in 0..n
        BY <1>3, <3>3
      <4>2. g[i] = h[i] /\ g[i - 1] = h[i - 1] /\ frames'[i] = frames[i]
        BY <1>4, <2>9, <4>1
      <4>3. h[i] = h[i - 1] + frames[i]
        BY <2>8, <3>3, <4>1
      <4>4. QED
        BY <3>3, <4>2, <4>3
    <3>4. QED
      BY <3>1, <3>2, <3>3
  <2>11. Heights(g, m)'
    BY <1>4, <2>9, <2>10 DEF Heights
  <2>12. m \in 0..(n + 1) /\ \A i \in 1..m : i \in 1..n
    BY <1>3
  <2>13. \A i \in 1..m : frames'[i] # 0 => InitInALoop'
    BY <1>1, <1>4, <2>6, <2>12 DEF InitInALoop
  <2>14. Len(loop_stack') = g[Len(frames')]
    BY <1>4, <2>5, <2>7, <2>9
  <2>15. m \in 0..Len(frames')
    BY <1>4, <2>12
  <2>16. StackOfFrames'
    BY <2>11, <2>13, <2>14, <2>15 DEF StackOfFrames
  <2>17. QED
    BY <2>4, <2>16
<1>6. QED
  BY <1>1, <1>4, <1>5, ParsedStep

(* The wrapper left last is the one called last, at the loops open now.      *)
LEMMA LeaveWrapperBalance ==
  ASSUME BalanceInv, LabelsInv', LeaveWrapper
  PROVE  BalanceInv'
<1> DEFINE n == Len(frames)
           c == Len(loops)
<1>1. /\ UNCHANGED <<mpi, init_frames>> /\ Parse(ExitLabels)
      /\ frames # <<>> /\ frames' = Front(frames) /\ c = CallerLoops
  BY DEF LeaveWrapper, Emit, table
<1>2. c \in Nat /\ Balanced(ExitLabels, 0, c)
  BY OpenLabels, OpenLoopsOnStack DEF BalanceInv
<1>3. frames \in Seq(Nat) /\ n \in Nat \ {0}
  BY <1>1, FrontProperties DEF BalanceInv
<1>4. /\ frames' \in Seq(Nat) /\ Len(frames') = n - 1
      /\ \A i \in 1..(n - 1) : frames'[i] = frames[i]
      /\ frames[n] = c
  <2>1. frames' \in Seq(Nat) /\ Len(frames') = n - 1 /\ \A i \in 1..(n - 1) : frames'[i] = frames[i]
    BY <1>1, <1>3, FrontProperties
  <2>2. Last(frames) = frames[n]
    BY <1>1, <1>3, FrontProperties
  <2>3. QED
    BY <1>1, <2>1, <2>2 DEF CallerLoops
<1> HIDE DEF n, c
<1>5. ASSUME mpi = "on", failed = FALSE
      PROVE  \/ failed' = TRUE /\ InitInALoop
             \/ failed' = FALSE /\ loop_stack' \in Seq(Nat) /\ StackOfFrames'
  <2>1. loop_stack \in Seq(Nat) /\ StackOfFrames
    BY <1>5 DEF BalanceInv
  <2>2. Len(loop_stack) \in Nat
    BY <2>1, LenProperties
  <2>3. PICK m \in 0..n : /\ \A i \in 1..m : frames[i] # 0 => InitInALoop
                          /\ \E h : Heights(h, m) /\ Len(loop_stack) = h[n]
    BY <2>1 DEF StackOfFrames, n
  <2>4. PICK h : Heights(h, m) /\ Len(loop_stack) = h[n]
    BY <2>3
  <2>5. /\ h \in [0..n -> Nat]
        /\ \A i \in 0..n : h[i] = IF i <= m THEN 0 ELSE h[i - 1] + frames[i]
    BY <2>4 DEF Heights, n
  <2>6. n \in 0..n /\ n - 1 \in 0..n /\ h[n - 1] \in Nat
    BY <1>3, <2>5
  <2>7. ASSUME c <= Len(loop_stack)
        PROVE  failed' = FALSE /\ loop_stack' \in Seq(Nat) /\ Len(loop_stack') = Len(loop_stack) - c
    <3>1. c <= Len(loop_stack) + 0
      BY <2>2, <2>7
    <3>2. loop_stack' \in Seq(Nat) /\ Len(loop_stack') = Len(loop_stack) + 0 - c /\ failed' = FALSE
      BY <1>1, <1>2, <1>5, <2>1, <3>1, Parsed
    <3>3. QED
      BY <1>2, <2>2, <3>2
  <2>8. PICK g : g \in [0..(n - 1) -> Nat] /\ \A i \in 0..(n - 1) : g[i] = h[i]
    <3> DEFINE f == [i \in 0..(n - 1) |-> h[i]]
    <3>1. \A i \in 0..(n - 1) : i \in 0..n
      BY <1>3
    <3>2. f \in [0..(n - 1) -> Nat] /\ \A i \in 0..(n - 1) : f[i] = h[i]
      BY <2>5, <3>1
    <3> HIDE DEF f
    <3>3. QED
      BY <3>2
  (* The heights below the wrapper left are what they were.                  *)
  <2>9. ASSUME NEW k \in 0..(n - 1), k <= m, m = k \/ k = n - 1,
               Len(loop_stack') = g[n - 1]
        PROVE  StackOfFrames'
    <3>1. ASSUME NEW i \in 0..(n - 1)
          PROVE  g[i] = IF i <= k THEN 0 ELSE g[i - 1] + frames'[i]
      <4>1. i \in 0..n /\ (i <= k => i <= m)
        BY <1>3, <2>9
      <4>2. CASE i <= k
        BY <2>5, <2>8, <4>1, <4>2
      <4>3. CASE ~(i <= k)
        <5>1. m = k /\ i \in 1..(n - 1) /\ i - 1 \in 0..(n - 1)
          BY <1>3, <2>9, <4>3
        <5>2. h[i] = h[i - 1] + frames[i]
          BY <2>5, <4>1, <4>3, <5>1
        <5>3. g[i] = h[i] /\ g[i - 1] = h[i - 1] /\ frames'[i] = frames[i]
          BY <1>4, <2>8, <5>1
        <5>4. QED
          BY <4>3, <5>2, <5>3
      <4>4. QED
        BY <4>2, <4>3
    <3>2. Heights(g, k)'
      BY <1>4, <2>8, <3>1 DEF Heights
    <3>3. k \in 0..Len(frames') /\ \A i \in 1..k : i \in 1..m /\ i \in 1..(n - 1)
      BY <1>3, <1>4, <2>9
    <3>4. \A i \in 1..k : frames'[i] # 0 => InitInALoop'
      BY <1>1, <1>4, <2>3, <3>3 DEF InitInALoop
    <3>5. Len(loop_stack') = g[Len(frames')]
      BY <1>4, <2>9
    <3>6. QED
      BY <3>2, <3>3, <3>4, <3>5 DEF StackOfFrames
  <2>10. CASE m # n
    <3>1. m \in 0..(n - 1) /\ ~(n <= m)
      BY <1>3, <2>10
    <3>2. Len(loop_stack) = h[n - 1] + c
      BY <1>4, <2>4, <2>5, <2>6, <3>1
    <3>3. c <= Len(loop_stack) /\ Len(loop_stack) - c = h[n - 1]
      BY <1>2, <2>6, <3>2
    <3>4. n - 1 \in 0..(n - 1)
      BY <1>3
    <3>5. Len(loop_stack') = g[n - 1]
      BY <2>7, <2>8, <3>3, <3>4
    <3>6. QED
      BY <2>7, <2>9, <3>1, <3>3, <3>5
  <2>11. CASE m = n /\ c = 0
    <3>1. Len(loop_stack) = 0 /\ n - 1 <= m /\ n - 1 \in 0..n
      BY <1>3, <2>4, <2>5, <2>6, <2>11
    <3>2. n - 1 \in 0..(n - 1)
      BY <1>3
    <3>3. h[n - 1] = 0
      BY <2>5, <3>1
    <3>4. g[n - 1] = 0
      BY <2>8, <3>2, <3>3
    <3>5. failed' = FALSE /\ loop_stack' \in Seq(Nat) /\ Len(loop_stack') = 0
      BY <2>7, <2>11, <3>1
    <3>6. StackOfFrames'
      BY <2>9, <3>1, <3>2, <3>4, <3>5
    <3>7. QED
      BY <3>5, <3>6
  <2>12. CASE m = n /\ c # 0
    <3>1. Len(loop_stack) = 0
      BY <1>3, <2>4, <2>5, <2>6, <2>12
    <3>2. loop_stack = <<>>
      BY <2>1, <3>1, EmptySeq
    <3>3. InitInALoop
      <4>1. n \in 1..m
        BY <1>3, <2>12
      <4>2. QED
        BY <1>4, <2>3, <2>12, <4>1
    <3>4. PopsNothing(loop_stack, ExitLabels)
      <4>1. Len(ExitLabels) = c
        BY <1>2 DEF Balanced
      <4>2. 1 \in 1..c /\ 1 \in 1..Len(ExitLabels)
        BY <1>2, <2>12, <4>1
      <4>3. ExitLabels[1].value = 0
        <5> DEFINE j == 0 + 1
        <5>1. \A i \in 1..c : ExitLabels[0 + i].value = 0
          BY <1>2 DEF Balanced
        <5>2. ExitLabels[j].value = 0
          BY <4>2, <5>1
        <5>3. QED
          BY <5>2
      <4>4. Stacks(loop_stack, ExitLabels)[0] = <<>>
        BY <1>2, <3>2, <4>1, StacksAre
      <4>5. QED
        BY <4>2, <4>3, <4>4 DEF PopsNothing
    <3>5. failed' = TRUE
      BY <1>1, <1>5, <3>4 DEF Parse
    <3>6. QED
      BY <3>3, <3>5
  <2>13. QED
    BY <2>10, <2>11, <2>12
<1>6. QED
  BY <1>1, <1>4, <1>5, ParsedStep

(* MPI_Init and the steps that hand nothing to Extrae.                       *)
LEMMA InitBalance ==
  ASSUME BalanceInv, LabelsInv', MPI_Init
  PROVE  BalanceInv'
<1>1. /\ mpi = "off" /\ mpi' = "on" /\ init_frames' = frames /\ UNCHANGED <<frames, loop_stack, failed>>
  BY DEF MPI_Init, Emit, Parse
<1>2. failed = FALSE /\ loop_stack = <<>> /\ frames \in Seq(Nat)
  BY <1>1 DEF BalanceInv
<1> DEFINE n == Len(frames)
<1>3. n \in Nat /\ DOMAIN frames = 1..n /\ \A i \in 1..n : frames[i] \in Nat
  BY <1>2, LenProperties, ElementOfSeq
<1>4. PICK h : h \in [0..n -> Nat] /\ \A i \in 0..n : h[i] = 0
  <2> DEFINE f == [i \in 0..n |-> 0]
  <2>1. f \in [0..n -> Nat] /\ \A i \in 0..n : f[i] = 0
    OBVIOUS
  <2> HIDE DEF f
  <2>2. QED
    BY <2>1
<1>5. PICK m \in 0..n : m = n
  <2>1. n \in 0..n
    BY <1>3
  <2> HIDE DEF n
  <2>2. QED
    BY <2>1
<1>6. Heights(h, m)'
  <2>1. \A i \in 0..n : i <= m
    BY <1>3, <1>5
  <2>2. QED
    BY <1>1, <1>4, <2>1 DEF Heights
<1>7. \A i \in 1..m : frames[i] # 0 => InitInALoop'
  BY <1>1, <1>3, <1>5 DEF InitInALoop
<1>8. Len(loop_stack') = h[Len(frames')]
  <2>1. Len(<<>>) = 0 /\ n \in 0..n
    BY <1>3
  <2>2. QED
    BY <1>1, <1>2, <1>4, <2>1
<1>9. StackOfFrames'
  BY <1>1, <1>6, <1>7, <1>8 DEF StackOfFrames
<1>10. loop_stack' \in Seq(Nat) /\ failed' = FALSE
  BY <1>1, <1>2
<1>11. QED
  BY <1>1, <1>2, <1>9, <1>10 DEF BalanceInv, PopsAreBalanced

LEMMA SilentBalance ==
  ASSUME BalanceInv, LabelsInv', UNCHANGED <<frames, init_frames, loop_stack, failed>>,
         mpi' = mpi \/ mpi' = "over"
  PROVE  BalanceInv'
<1>1. StackOfFrames <=> StackOfFrames'
  BY DEF StackOfFrames, Heights, InitInALoop
<1>2. QED
  BY <1>1 DEF BalanceInv, PopsAreBalanced

LEMMA BalanceStep == BalanceInv /\ [TableNext]_allvars => BalanceInv'
<1> SUFFICES ASSUME BalanceInv, [TableNext]_allvars PROVE BalanceInv'
  OBVIOUS
<1>1. LabelsInv'
  BY StackStep DEF BalanceInv
<1>2. CASE (\E l \in Loop : EnterNewLoop(l)) \/ RunLoop \/ UNCHANGED allvars
  <2>1. UNCHANGED <<frames, init_frames, loop_stack, failed, mpi>>
    BY <1>2 DEF EnterNewLoop, RunLoop, allvars, analysis
  <2>2. QED
    BY <1>1, <2>1, SilentBalance
<1>3. CASE CallMpi
  BY <1>1, <1>3, CallMpiBalance
<1>4. CASE CallWrapper
  BY <1>1, <1>4, CallWrapperBalance
<1>5. CASE LeaveWrapper
  BY <1>1, <1>5, LeaveWrapperBalance
<1>6. CASE MPI_Init
  BY <1>1, <1>6, InitBalance
<1>7. ASSUME Emit(<<>>), UNCHANGED <<frames, init_frames>>, mpi' = mpi \/ mpi' = "over"
      PROVE  BalanceInv'
  <2>1. UNCHANGED <<loop_stack, failed>>
    <3>1. Parse(<<>>)
      BY <1>7 DEF Emit
    <3>2. CASE mpi = "on"
      <4>1. Len(<<>>) = 0 /\ 1..0 = {}
        OBVIOUS
      <4>2. loops_handler(loop_stack, <<>>) = loop_stack
        <5>1. Stacks(loop_stack, <<>>)[0] = loop_stack
          BY <4>1, StacksAre
        <5>2. QED
          BY <4>1, <5>1 DEF loops_handler
      <4>3. ~PopsNothing(loop_stack, <<>>)
        BY <4>1 DEF PopsNothing
      <4>4. failed \in BOOLEAN
        BY DEF BalanceInv
      <4>5. QED
        BY <3>1, <3>2, <4>2, <4>3, <4>4 DEF Parse
    <3>3. CASE mpi # "on"
      BY <3>1, <3>3 DEF Parse
    <3>4. QED
      BY <3>2, <3>3
  <2>2. QED
    BY <1>1, <1>7, <2>1, SilentBalance
<1>8. CASE MPI_Initialized \/ MPI_Finalize \/ MPI_Finalized
  BY <1>7, <1>8 DEF MPI_Initialized, MPI_Finalize, MPI_Finalized
<1>9. QED
  BY <1>2, <1>3, <1>4, <1>5, <1>6, <1>8 DEF TableNext

LEMMA BalanceInit == TableInit => BalanceInv
<1> SUFFICES ASSUME TableInit PROVE BalanceInv
  OBVIOUS
<1>1. LabelsInv
  <2>1. <<>> = [i \in 1..Len(<<>>) |-> Hash[<<>>[i].loop]]
    OBVIOUS
  <2>2. QED
    BY <2>1, InitType DEF TableInit, Init, LabelsInv, LabelsAvailableAtAnyInstant
<1>2. frames \in Seq(Nat)
  BY EmptySeq DEF TableInit
<1>3. QED
  BY <1>1, <1>2 DEF TableInit, BalanceInv, PopsAreBalanced

LEMMA BalanceInvariant == TableSpec => []BalanceInv
BY BalanceInit, BalanceStep, PTL DEF TableSpec

(* However wrappers and loops nest, and wherever MPI is initialized and      *)
(* finalized: the parser pops from an empty stack only if MPI_Init was       *)
(* called in a wrapper that had been called in a loop.                       *)
THEOREM PopsBalancedCorrect == TableSpec => []PopsAreBalanced
<1>1. BalanceInv => PopsAreBalanced
  BY DEF BalanceInv
<1>2. QED
  BY <1>1, BalanceInvariant, PTL

(* What the entry labels add to the stack are the loops that are open.       *)
LEMMA OpenLoopsRead == BalanceInv => LoopInfoIsTheOpenLoops
<1> SUFFICES ASSUME BalanceInv, mpi = "on", failed = FALSE
             PROVE  LET open == [k \in DOMAIN loops |-> Hash[loops[Len(loops) - k + 1].loop]]
                        more == Len(loop_info) - Len(open)
                    IN /\ more >= 0
                       /\ SubSeq(loop_info, more + 1, Len(loop_info)) = open
                       /\ frames = <<>> => more = 0
  BY DEF LoopInfoIsTheOpenLoops, BalanceInv
<1> DEFINE n    == Len(loops)
           open == [k \in DOMAIN loops |-> Hash[loops[n - k + 1].loop]]
           s    == Len(loop_stack)
           more == Len(loop_info) - Len(open)
<1>1. /\ loop_stack \in Seq(Nat) /\ StackOfFrames /\ s \in Nat
  BY LenProperties DEF BalanceInv
<1>2. /\ n \in Nat /\ DOMAIN loops = 1..n
      /\ my_stack \in Seq(Nat) /\ Len(my_stack) = n
      /\ \A i \in 1..n : my_stack[i] = Hash[loops[i].loop]
  BY OpenLoopsOnStack DEF BalanceInv
<1>3. /\ Balanced(EntryLabels, n, 0)
      /\ \A k \in 1..n : EntryLabels[k].value = Hash[loops[n - k + 1].loop]
  BY OpenLabels DEF BalanceInv
<1>4. open \in Seq(Nat) /\ Len(open) = n /\ \A k \in 1..n : open[k] = Hash[loops[n - k + 1].loop]
  <2>1. ASSUME NEW k \in 1..n
        PROVE  Hash[loops[n - k + 1].loop] \in Nat
    <3>1. n - k + 1 \in 1..n
      BY <1>2
    <3>2. my_stack[n - k + 1] \in Nat
      BY <1>2, <3>1, ElementOfSeq
    <3>3. QED
      BY <1>2, <3>1, <3>2
  <2>2. open = [k \in 1..n |-> Hash[loops[n - k + 1].loop]]
    BY <1>2
  <2>3. QED
    BY <1>2, <2>1, <2>2
<1> HIDE DEF n, open, s
<1>5. /\ loop_info \in Seq(Nat) /\ Len(loop_info) = s + n
      /\ \A i \in 1..n : loop_info[s + i] = EntryLabels[i].value
  <2> DEFINE st == Stacks(loop_stack, EntryLabels)
  <2>1. Len(EntryLabels) = n
    BY <1>2, <1>3 DEF Balanced
  <2>2. \A k \in 0..n : /\ st[k] \in Seq(Nat)
                        /\ Len(st[k]) = s + k
                        /\ \A i \in 1..k : st[k][s + i] = EntryLabels[i].value
    BY <1>1, <1>3, Pushes DEF s
  <2>3. loop_info = st[n]
    BY <2>1 DEF loop_info, loops_handler
  <2>4. n \in 0..n
    BY <1>2
  <2> HIDE DEF st
  <2>5. QED
    BY <2>2, <2>3, <2>4
<1>6. more = s
  BY <1>1, <1>2, <1>4, <1>5
<1>7. SubSeq(loop_info, s + 1, s + n) = open
  <2> DEFINE lo == s + 1
             hi == s + n
             sub == SubSeq(loop_info, lo, hi)
  <2>1. /\ lo \in Int /\ hi \in Int /\ hi - lo + 1 = n /\ (~(lo <= hi) => n = 0)
        /\ \A i \in lo..hi : i \in 1..(s + n)
        /\ \A i \in 1..n : lo + i - 1 = s + i
    BY <1>1, <1>2
  <2>2. \A i \in lo..hi : loop_info[i] \in Nat
    BY <1>5, <2>1, ElementOfSeq
  <2> HIDE DEF lo, hi
  <2>3. /\ sub \in Seq(Nat)
        /\ Len(sub) = IF lo <= hi THEN hi - lo + 1 ELSE 0
        /\ \A i \in 1..(hi - lo + 1) : sub[i] = loop_info[lo + i - 1]
    BY <2>1, <2>2, SubSeqProperties
  <2> HIDE DEF sub
  <2>4. Len(sub) = n /\ \A i \in 1..n : sub[i] = open[i]
    <3>1. Len(sub) = n
      BY <2>1, <2>3
    <3>2. \A i \in 1..n : sub[i] = loop_info[s + i]
      BY <2>1, <2>3
    <3>3. QED
      BY <1>3, <1>4, <1>5, <3>1, <3>2
  <2>5. sub = open
    BY <1>4, <2>3, <2>4, SeqEqual
  <2>6. QED
    BY <2>5 DEF sub, lo, hi
<1>8. ASSUME frames = <<>>
      PROVE  s = 0
  <2>1. Len(frames) = 0
    BY <1>8
  <2>2. PICK m \in 0..0 : \E h : Heights(h, m) /\ s = h[0]
    BY <1>1, <2>1 DEF StackOfFrames, s
  <2>3. PICK h : Heights(h, m) /\ s = h[0]
    BY <2>2
  <2>4. h[0] = 0
    BY <2>1, <2>3 DEF Heights
  <2>5. QED
    BY <2>3, <2>4
<1>9. /\ more >= 0
      /\ SubSeq(loop_info, more + 1, Len(loop_info)) = open
      /\ frames = <<>> => more = 0
  <2>1. Len(loop_info) = s + n /\ more >= 0
    BY <1>1, <1>5, <1>6
  <2> HIDE DEF more
  <2>2. SubSeq(loop_info, more + 1, Len(loop_info)) = open
    BY <1>6, <1>7, <2>1, Zenon
  <2>3. QED
    BY <1>6, <1>8, <2>1, <2>2
<1>10. QED
  BY <1>9 DEF open, n, more

(* While MPI is on and the parser has not failed, the loops that             *)
(* callstacks_parser.py gives a callstack end with those open at the call,   *)
(* innermost first, and have nothing before them outside of wrappers.        *)
THEOREM LoopInfoCorrect == TableSpec => []LoopInfoIsTheOpenLoops
BY BalanceInvariant, OpenLoopsRead, PTL
=============================================================================
