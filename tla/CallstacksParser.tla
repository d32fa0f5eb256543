-------------------------- MODULE CallstacksParser --------------------------
(***************************************************************************)
(* structure_detection/callstacks_parser.py and the online merge of        *)
(* callstack.py: the trace is read record by record and the MPI calls of a *)
(* task that have the same call path become repetitions of one callstack,  *)
(* with the sizes and partners of their messages and the hardware counters *)
(* of the calls and of the bursts before them.                             *)
(*                                                                         *)
(* A call begins and ends at an MPI event; a communication record names    *)
(* the two calls it joins by their times and may come before or after      *)
(* them.  The times of the calls of a task all differ, so the number of    *)
(* the call stands for them.                                               *)
(***************************************************************************)
EXTENDS Naturals, Sequences, SequencesExt, FiniteSetsExt

CONSTANTS
  Task,       (* the MPI processes                                           *)
  SendPath,   (* signatures of the sending calls                             *)
  RecvPath,   (* signatures of the receiving calls                           *)
  CollPath,   (* signatures of collective operations                         *)
  Split,      (* the trace is split: its communications are in a last file   *)
  MaxCalls,   (* bound: MPI calls of a task                                  *)
  MaxComms,   (* bound: messages                                             *)
  MaxMissing  (* bound: records of MPI events without hardware counters      *)

ASSUME PathAssumption  == /\ SendPath \cap RecvPath = {}
                          /\ CollPath \cap (SendPath \cup RecvPath) = {}
ASSUME SplitAssumption == Split \in BOOLEAN
ASSUME BoundAssumption == MaxCalls \in Nat /\ MaxComms \in Nat /\ MaxMissing \in Nat

VARIABLES
  calls,             (* the program: signatures of the calls of each task    *)
  comms,             (* the communication records read so far                *)
  missing,           (* the records <<task, time>> that had no counters      *)
  started,           (* the tasks with a record with counters before any call*)
  mpi_opened,
  objs,              (* the callstack objects of a task, one per call        *)
  callstack_pool,    (* signature -> object                                  *)
  comm_hashmap,      (* time -> communication, for both ends                 *)
  mpi_init_hashmap,  (* time of an entry -> object                           *)
  mpi_fini_hashmap,  (* time of an exit -> object                            *)
  mpi_acumm_cycles,  (* signature -> counter since its last repetition       *)
  burst_last,        (* counter of the record that began the burst, 0: None  *)
  failed,            (* the parser raised an exception                       *)
  finished           (* the trace is read and the callstacks are reduced     *)

vars == <<calls, comms, missing, started, mpi_opened, objs, callstack_pool, comm_hashmap,
          mpi_init_hashmap, mpi_fini_hashmap, mpi_acumm_cycles, burst_last, failed, finished>>

Path == SendPath \cup RecvPath \cup CollPath
Call == 1..MaxCalls

(* Dictionaries.                                                             *)
Put(d, k, v) == [x \in DOMAIN d \cup {k} |-> IF x = k THEN v ELSE d[x]]
Del(d, k)    == [x \in DOMAIN d \ {k} |-> d[x]]

(* Times: the entry and the exit of a task's k-th call.                      *)
EntryTime(k) == <<"entry", k>>
ExitTime(k)  == <<"exit", k>>
Time         == {EntryTime(k) : k \in Call} \cup {ExitTime(k) : k \in Call}

(* The program: its k-th burst and the k-th call do so much work.  Extrae    *)
(* reads and resets the counter at every event, so the entry record of a     *)
(* call carries the work of the burst and the exit record that of the call.  *)
(* A record without an MPI event, where Extrae starts, may come before the   *)
(* first call; its work stands for that of a call number 0.                  *)
BurstWork(k) == 2 * k
CallWork(k)  == 2 * k + 1

-----------------------------------------------------------------------------
(* callstack.py *)

(* Bug variant: the instant is that of the next call.                        *)
callstack_of_next_call(p, k) ==
  [path |-> p, instants |-> <<k + 1>>, size |-> 0, sizes |-> <<>>, already_with_size |-> 1,
   partner |-> {}, cycles |-> <<>>, hwc |-> 0, hwcs |-> <<>>, burst |-> 0, bursts |-> <<>>,
   glop |-> 0, glops |-> <<>>]

NewCallstack(p, k) ==
  [path |-> p, instants |-> <<k>>, size |-> 0, sizes |-> <<>>, already_with_size |-> 1,
   partner |-> {}, cycles |-> <<>>, hwc |-> 0, hwcs |-> <<>>, burst |-> 0, bursts |-> <<>>,
   glop |-> 0, glops |-> <<>>]

Repetitions(cs) == Len(cs.instants)

(* A merged callstack takes the size of the next repetition; Python's index  *)
(* already_with_size must exist in the list.                                 *)
CanTakeSize(cs) == Repetitions(cs) = 1 \/ cs.already_with_size < Len(cs.sizes)

(* Bug variant: the index does not advance.                                  *)
add_size_in_place(cs, size) ==
  IF Repetitions(cs) = 1 THEN [cs EXCEPT !.size = size]
  ELSE [cs EXCEPT !.sizes[cs.already_with_size + 1] = size]

add_mpi_msg_size(cs, size) ==
  IF Repetitions(cs) = 1 THEN [cs EXCEPT !.size = size]
  ELSE [cs EXCEPT !.sizes[cs.already_with_size + 1] = size,
                  !.already_with_size = @ + 1]

set_partner(cs, t) == [cs EXCEPT !.partner = @ \cup {t}]

(* Bug variant: the list begins with the second repetition.                  *)
extended_without_first(merged, first, next) == Append(merged, next)

(* A "_merged" metric is the list of the metric's values.  A metric (0) that *)
(* the first repetition or the next one lacks is not merged.                 *)
Extended(merged, first, next) == IF merged = <<>> THEN <<first, next>> ELSE Append(merged, next)
IfBoth(merged, first, next)   == IF first = 0 \/ next = 0 THEN merged
                                 ELSE Extended(merged, first, next)


(* Bug variant: the partners are forgotten.                                  *)
merge_without_partners(cs, other) ==
  [cs EXCEPT !.instants = @ \o other.instants,
             !.cycles   = @ \o other.cycles,
             !.sizes    = Extended(@, cs.size, other.size),
             !.hwcs     = IfBoth(@, cs.hwc, other.hwc),
             !.glops    = IfBoth(@, cs.glop, other.glop),
             !.bursts   = Extended(@, cs.burst, other.burst)]

merge(cs, other) ==
  [cs EXCEPT !.instants = @ \o other.instants,
             !.cycles   = @ \o other.cycles,
             !.partner  = @ \cup other.partner,
             !.sizes    = Extended(@, cs.size, other.size),
             !.hwcs     = IfBoth(@, cs.hwc, other.hwc),
             !.glops    = IfBoth(@, cs.glop, other.glop),
             !.bursts   = Extended(@, cs.burst, other.burst)]

-----------------------------------------------------------------------------
(* Bug variant: the counter is set, not increased.                           *)
accumulated_by_assignment(acc, work) == [p \in DOMAIN acc |-> work]

(* __hwc_handler: every signature seen so far accounts for the counter.      *)
Accumulated(acc, work) == [p \in DOMAIN acc |-> acc[p] + work]

(* The counters of a record of an MPI event: Extrae may leave them out.      *)
Counted(t, time, hwc) == missing' = IF hwc THEN missing ELSE missing \cup {<<t, time>>}

(* __glop_handler: what is known of a collective operation, here its number, *)
(* goes to the callstack that __mpi_handler has just opened.                 *)
Glop(t, p, k) == IF p \in CollPath THEN k ELSE 0

(* __mpi_handler, __hwc_handler and __glop_handler on the entry record of a  *)
(* call with path p.  The burst before it must have begun with counters.     *)
MpiEntry(t, p, hwc) ==
  LET k     == Len(calls[t]) + 1
      seen  == p \in DOMAIN mpi_acumm_cycles[t]
      fresh == [NewCallstack(p, k) EXCEPT
                  !.cycles = IF seen THEN <<mpi_acumm_cycles[t][p]>> ELSE <<>>,
                  !.burst  = burst_last[t]]
      known == EntryTime(k) \in DOMAIN comm_hashmap[t]
      comm  == comms[comm_hashmap[t][EntryTime(k)]]
      cs    == IF known THEN add_mpi_msg_size(set_partner(fresh, comm.dst), comm.size) ELSE fresh
      begun == IF seen THEN mpi_acumm_cycles[t] ELSE Put(mpi_acumm_cycles[t], p, 0)
  IN \/ /\ burst_last[t] # 0
        /\ calls' = [calls EXCEPT ![t] = Append(@, p)]
        /\ IF known
           THEN /\ comm_hashmap' = [comm_hashmap EXCEPT
                     ![t] = IF comm.recv_merged THEN Del(@, EntryTime(k)) ELSE @]
                /\ UNCHANGED mpi_init_hashmap
           ELSE /\ mpi_init_hashmap' = [mpi_init_hashmap EXCEPT ![t] = Put(@, k, k)]
                /\ UNCHANGED comm_hashmap
        /\ objs' = [objs EXCEPT ![t] = Append(@,
             [cs EXCEPT !.hwc = IF hwc THEN BurstWork(k) ELSE 0, !.glop = Glop(t, p, k)])]
        /\ mpi_acumm_cycles' = [mpi_acumm_cycles EXCEPT
             ![t] = IF hwc THEN Accumulated(begun, BurstWork(k)) ELSE begun]
        /\ mpi_opened' = [mpi_opened EXCEPT ![t] = TRUE]
        /\ Counted(t, EntryTime(k), hwc)
        /\ UNCHANGED <<comms, started, callstack_pool, mpi_fini_hashmap, burst_last, failed,
                       finished>>
     \/ /\ burst_last[t] = 0
        /\ failed' = TRUE
        /\ mpi_acumm_cycles' = [mpi_acumm_cycles EXCEPT ![t] = begun]
        /\ UNCHANGED <<calls, comms, missing, started, mpi_opened, objs, callstack_pool,
                       comm_hashmap, mpi_init_hashmap, mpi_fini_hashmap, burst_last, finished>>

(* The same handlers on the exit record: the callstack joins the pool or is  *)
(* merged into the one that is there.                                        *)
MpiExit(t, hwc) ==
  LET k      == Len(calls[t])
      p      == calls[t][k]
      pooled == p \in DOMAIN callstack_pool[t]
      o      == IF pooled THEN callstack_pool[t][p] ELSE k
      cs     == IF pooled THEN merge(objs[t][o], objs[t][k]) ELSE objs[t][k]
      known  == ExitTime(k) \in DOMAIN comm_hashmap[t]
      comm   == comms[comm_hashmap[t][ExitTime(k)]]
      raises == known /\ ~CanTakeSize(cs)
      begun  == Put(mpi_acumm_cycles[t], p, 0)
  IN /\ callstack_pool' = [callstack_pool EXCEPT ![t] = Put(@, p, o)]
     /\ mpi_init_hashmap' = [mpi_init_hashmap EXCEPT
          ![t] = IF k \in DOMAIN @ THEN Put(@, k, o) ELSE @]
     /\ IF known
        THEN /\ comm_hashmap' = [comm_hashmap EXCEPT
                  ![t] = IF comm.send_merged THEN Del(@, ExitTime(k)) ELSE @]
             /\ UNCHANGED mpi_fini_hashmap
        ELSE /\ mpi_fini_hashmap' = [mpi_fini_hashmap EXCEPT ![t] = Put(@, k, o)]
             /\ UNCHANGED comm_hashmap
     /\ objs' = [objs EXCEPT ![t][o] =
          IF known /\ ~raises THEN add_mpi_msg_size(set_partner(cs, comm.src), comm.size) ELSE cs]
     /\ mpi_acumm_cycles' = [mpi_acumm_cycles EXCEPT
          ![t] = IF hwc THEN Accumulated(begun, CallWork(k)) ELSE begun]
     /\ mpi_opened' = [mpi_opened EXCEPT ![t] = FALSE]
     /\ burst_last' = [burst_last EXCEPT ![t] = IF hwc THEN CallWork(k) ELSE 0]
     /\ failed' = raises
     /\ Counted(t, ExitTime(k), hwc)
     /\ UNCHANGED <<calls, comms, started, finished>>

(* __hwc_handler on a record without an MPI event, when no call is open.     *)
Counters(t, work) ==
  /\ mpi_acumm_cycles' = [mpi_acumm_cycles EXCEPT ![t] = Accumulated(@, work)]
  /\ burst_last' = [burst_last EXCEPT ![t] = work]
  /\ UNCHANGED <<calls, comms, missing, mpi_opened, objs, callstack_pool, comm_hashmap,
                 mpi_init_hashmap, mpi_fini_hashmap, failed, finished>>

(* __comms_handler.                                                          *)
CommRecord(c) ==
  LET n     == Len(comms) + 1
      sOpen == c.si \in DOMAIN mpi_init_hashmap[c.src]
      so    == mpi_init_hashmap[c.src][c.si]
      rOpen == c.di \in DOMAIN mpi_fini_hashmap[c.dst]
      ro    == mpi_fini_hashmap[c.dst][c.di]
      raise == \/ sOpen /\ ~CanTakeSize(objs[c.src][so])
               \/ rOpen /\ ~CanTakeSize(objs[c.dst][ro])
  IN /\ comms' = Append(comms, [c EXCEPT !.send_merged = sOpen, !.recv_merged = rOpen])
     /\ failed' = raise
     /\ objs' = IF raise THEN objs
                ELSE [t \in Task |-> [k \in DOMAIN objs[t] |->
                       CASE t = c.src /\ sOpen /\ k = so ->
                              set_partner(add_mpi_msg_size(objs[t][k], c.size), c.dst)
                         [] t = c.dst /\ rOpen /\ k = ro ->
                              set_partner(add_mpi_msg_size(objs[t][k], c.size), c.src)
                         [] OTHER -> objs[t][k]]]
     /\ mpi_init_hashmap' = IF sOpen THEN [mpi_init_hashmap EXCEPT ![c.src] = Del(@, c.si)]
                            ELSE mpi_init_hashmap
     /\ mpi_fini_hashmap' = IF rOpen THEN [mpi_fini_hashmap EXCEPT ![c.dst] = Del(@, c.di)]
                            ELSE mpi_fini_hashmap
     /\ comm_hashmap' = [comm_hashmap EXCEPT
          ![c.src] = IF sOpen THEN @ ELSE Put(@, EntryTime(c.si), n),
          ![c.dst] = IF rOpen THEN @ ELSE Put(@, ExitTime(c.di), n)]
     /\ UNCHANGED <<calls, missing, started, mpi_opened, callstack_pool, mpi_acumm_cycles,
                    burst_last, finished>>

-----------------------------------------------------------------------------
(* The trace *)

Reading == ~failed /\ ~finished

(* A call number not made yet stands for any call to come.                   *)
MayBe(t, k, paths) == k <= Len(calls[t]) => calls[t][k] \in paths
Taken(t, k) == \E n \in 1..Len(comms) : \/ comms[n].src = t /\ comms[n].si = k
                                        \/ comms[n].dst = t /\ comms[n].di = k

(* In one file, records are in time order: the communication is next to the  *)
(* entry of the send, before or after it.  The receive has not ended, or, as *)
(* the clocks of two nodes differ, has only just ended.  A call to come that *)
(* is named by a communication has to be of its kind.                        *)
InTimeOrder(c) ==
  /\ IF mpi_opened[c.src] THEN c.si = Len(calls[c.src]) ELSE c.si = Len(calls[c.src]) + 1
  /\ c.di >= Len(calls[c.dst])

(* A trace in several files: communications follow all the events.           *)
AfterAllEvents(c) ==
  \A t \in Task : Len(calls[t]) = MaxCalls /\ ~mpi_opened[t]

Communication(src, si, dst, di) ==
  [src |-> src, si |-> si, dst |-> dst, di |-> di, size |-> Len(comms) + 1,
   send_merged |-> FALSE, recv_merged |-> FALSE]

MayMiss(hwc) == hwc \/ Cardinality(missing) < MaxMissing

Start(t) ==
  /\ Reading
  /\ calls[t] = <<>> /\ t \notin started
  /\ started' = started \cup {t}
  /\ Counters(t, CallWork(0))

Entry(t, p, hwc) ==
  /\ Reading
  /\ ~mpi_opened[t]
  /\ Len(calls[t]) < MaxCalls
  /\ \A n \in 1..Len(comms) :
       LET k == Len(calls[t]) + 1 IN
       /\ comms[n].src = t /\ comms[n].si = k => p \in SendPath
       /\ comms[n].dst = t /\ comms[n].di = k => p \in RecvPath
  /\ MayMiss(hwc)
  /\ MpiEntry(t, p, hwc)

Exit(t, hwc) ==
  /\ Reading
  /\ mpi_opened[t]
  /\ MayMiss(hwc)
  /\ MpiExit(t, hwc)

Comm(src, si, dst, di) ==
  LET c == Communication(src, si, dst, di) IN
  /\ Reading
  /\ Len(comms) < MaxComms
  /\ src # dst
  /\ MayBe(src, si, SendPath) /\ ~Taken(src, si)
  /\ MayBe(dst, di, RecvPath) /\ ~Taken(dst, di)
  /\ IF Split THEN AfterAllEvents(c) ELSE InTimeOrder(c)
  /\ CommRecord(c)

(* parse: calc_reduce_info, after the last record.  The list of the sizes is *)
(* replaced by its sum.                                                      *)
Total(list) ==
  LET upTo[n \in 0..Len(list)] == IF n = 0 THEN 0 ELSE upTo[n - 1] + list[n]
  IN upTo[Len(list)]

Reduced(cs) ==
  IF Repetitions(cs) = 1 THEN cs
  ELSE [cs EXCEPT !.sizes = <<>>, !.size = Total(cs.sizes)]

Finish ==
  /\ Reading
  /\ \A t \in Task : Len(calls[t]) = MaxCalls /\ ~mpi_opened[t]
  /\ finished' = TRUE
  /\ objs' = [t \in Task |-> [k \in DOMAIN objs[t] |->
       IF \E p \in DOMAIN callstack_pool[t] : callstack_pool[t][p] = k
       THEN Reduced(objs[t][k]) ELSE objs[t][k]]]
  /\ UNCHANGED <<calls, comms, missing, started, mpi_opened, callstack_pool, comm_hashmap,
                 mpi_init_hashmap, mpi_fini_hashmap, mpi_acumm_cycles, burst_last, failed>>

Init ==
  /\ calls = [t \in Task |-> <<>>]
  /\ comms = <<>>
  /\ missing = {} /\ started = {}
  /\ mpi_opened = [t \in Task |-> FALSE]
  /\ objs = [t \in Task |-> <<>>]
  /\ callstack_pool = [t \in Task |-> <<>>]
  /\ comm_hashmap = [t \in Task |-> <<>>]
  /\ mpi_init_hashmap = [t \in Task |-> <<>>]
  /\ mpi_fini_hashmap = [t \in Task |-> <<>>]
  /\ mpi_acumm_cycles = [t \in Task |-> <<>>]
  /\ burst_last = [t \in Task |-> 0]
  /\ failed = FALSE
  /\ finished = FALSE

Next ==
  \/ \E t \in Task : Start(t)
  \/ \E t \in Task, p \in Path, hwc \in BOOLEAN : Entry(t, p, hwc)
  \/ \E t \in Task, hwc \in BOOLEAN : Exit(t, hwc)
  \/ \E src, dst \in Task, si, di \in Call : Comm(src, si, dst, di)
  \/ Finish

Spec == Init /\ [][Next]_vars

-----------------------------------------------------------------------------
Callstack ==
  [path : Path, instants : Seq(Call), size : Nat, sizes : Seq(Nat), already_with_size : Nat,
   partner : SUBSET Task, cycles : Seq(Nat), hwc : Nat, hwcs : Seq(Nat), burst : Nat,
   bursts : Seq(Nat), glop : Nat, glops : Seq(Nat)]

(* The type invariant: the dictionaries map times of the task to objects of  *)
(* the task and to communications that were read.                            *)
TypeOK ==
  /\ failed \in BOOLEAN /\ finished \in BOOLEAN /\ started \in SUBSET Task
  /\ calls \in [Task -> Seq(Path)] /\ mpi_opened \in [Task -> BOOLEAN]
  /\ objs \in [Task -> Seq(Callstack)]
  /\ \A t \in Task :
       /\ Len(objs[t]) = Len(calls[t])
       /\ callstack_pool[t] \in [DOMAIN callstack_pool[t] -> 1..Len(objs[t])]
       /\ comm_hashmap[t] \in [DOMAIN comm_hashmap[t] -> 1..Len(comms)]
       /\ DOMAIN comm_hashmap[t] \subseteq Time
       /\ mpi_init_hashmap[t] \in [DOMAIN mpi_init_hashmap[t] -> 1..Len(objs[t])]
       /\ mpi_fini_hashmap[t] \in [DOMAIN mpi_fini_hashmap[t] -> 1..Len(objs[t])]

(* The record before the next entry of task t had no counters: the exit of   *)
(* the last call, or, before the first call, whatever there was.             *)
NoCountersBefore(t) ==
  IF calls[t] = <<>> THEN t \notin started ELSE <<t, ExitTime(Len(calls[t]))>> \in missing

(* add_mpi_msg_size indexes a list with a counter of its own; __mpi_handler  *)
(* asks burst_last for its counters.  In a trace read in time order the      *)
(* index always exists, however late or early communications are, and the    *)
(* burst is unknown only if a task's first call comes before any record with *)
(* counters, or the exit record of the call before it had none.              *)
ParserNeverFails ==
  failed => \E t \in Task : ~mpi_opened[t] /\ NoCountersBefore(t)

(* The calls of task t that are over, and the communications that join them. *)
Over(t)     == IF mpi_opened[t] THEN Len(calls[t]) - 1 ELSE Len(calls[t])
Sends(t, p) == {n \in 1..Len(comms) :
                  comms[n].src = t /\ comms[n].si <= Over(t) /\ calls[t][comms[n].si] = p}
Recvs(t, p) == {n \in 1..Len(comms) :
                  comms[n].dst = t /\ comms[n].di <= Over(t) /\ calls[t][comms[n].di] = p}

Pooled(t, p) == objs[t][callstack_pool[t][p]]

(* The values of a metric, of which the list has not begun if it is empty.   *)
Values(first, merged) == IF merged = <<>> THEN <<first>> ELSE merged

SizesOf(cs) == Values(cs.size, cs.sizes)

(* Whatever the order of the communication and the two calls it joins, and   *)
(* however many repetitions were merged in between: a callstack has taken    *)
(* the size of every message of its repetitions exactly once, and no other.  *)
(* The size of a message is its number, so no two are equal.                 *)
SizesExact ==
  ~failed => \A t \in Task : \A p \in DOMAIN callstack_pool[t] :
    LET cs == Pooled(t, p)
        ms == Sends(t, p) \cup Recvs(t, p) IN
    IF finished
    THEN cs.size = SumSet(ms)
    ELSE /\ Len(SizesOf(cs)) = Repetitions(cs)
         /\ ToSet(SizesOf(cs)) \ {0} = ms
         /\ \A i, j \in 1..Repetitions(cs) :
              i # j /\ SizesOf(cs)[i] # 0 => SizesOf(cs)[i] # SizesOf(cs)[j]

(* The partners of a callstack are those of the messages of its repetitions. *)
PartnersExact ==
  ~failed => \A t \in Task : \A p \in DOMAIN callstack_pool[t] :
    Pooled(t, p).partner = {comms[n].dst : n \in Sends(t, p)}
                             \cup {comms[n].src : n \in Recvs(t, p)}

(* Work between the exit record of call k and the entry record of call l.    *)
WorkBetween(k, l) ==
  SumSet({CallWork(i) : i \in (k + 1)..(l - 1)}) + SumSet({BurstWork(i) : i \in (k + 1)..l})

Increasing(list) == \A i, j \in 1..Len(list) : i < j => list[i] < list[j]

(* What the pool really holds, as the handlers of one record run in the      *)
(* order MPI, HWC, GLOP: the counters of a repetition are those of the burst *)
(* before it, those of its burst are the previous call's - __hwc_handler's   *)
(* comments say "MPI call HWC" and "Burst HWC" -, and the counter of         *)
(* an iteration runs half a period late - from the entry record of the       *)
(* previous repetition to the exit record of the call before this one.  What *)
(* is known of a collective operation, in contrast, is its own.  If records  *)
(* lack counters, the list of a callstack is that of the repetitions with    *)
(* counters, in order, or, if the first of them has none, is never begun.    *)
CountersAreOneRecordLate ==
  \A t \in Task : \A p \in DOMAIN callstack_pool[t] :
    LET cs   == Pooled(t, p)
        n    == Repetitions(cs)
        k(i) == cs.instants[i]
        with == {l \in ToSet(cs.instants) : <<t, EntryTime(l)>> \notin missing}
        hwcs == Values(cs.hwc, cs.hwcs)
    IN /\ Increasing(cs.instants)
       /\ ToSet(cs.instants) = {l \in 1..Over(t) : calls[t][l] = p}
       /\ IF cs.hwc = 0 THEN k(1) \notin with /\ cs.hwcs = <<>>
          ELSE cs.hwc = BurstWork(k(1)) /\ Increasing(hwcs) /\ ToSet(hwcs) = {BurstWork(l) : l \in with}
       /\ Values(cs.burst, cs.bursts) = [i \in 1..n |-> CallWork(k(i) - 1)]
       /\ p \in CollPath => Values(cs.glop, cs.glops) = cs.instants
       /\ Len(cs.cycles) = n - 1
       /\ missing = {} => \A i \in 1..(n - 1) :
            cs.cycles[i] = CallWork(k(i)) + WorkBetween(k(i), k(i + 1)) - BurstWork(k(i + 1))
=============================================================================
