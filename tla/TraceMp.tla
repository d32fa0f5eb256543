------------------------------ MODULE TraceMp -------------------------------
(***************************************************************************)
(* src/parser/trace_mp.py, the reader of a trace with several processes:   *)
(* one process reads lines and deals them in chunks to the workers over    *)
(* pipes, the workers turn lines into records, and parse() joins them all. *)
(*                                                                         *)
(* Every process inherits both ends of every pipe and closes none.  So     *)
(* when a worker dies of an exception, writing to its pipe raises nothing: *)
(* it blocks when the pipe is full.                                        *)
(***************************************************************************)
EXTENDS Naturals, Sequences, SequencesExt, FiniteSets

CONSTANTS
  nparsers,          (* parse: the number of workers, 4 in the code          *)
  MAX_BUFFER_CHUNKS, (* lines per chunk, 1000 in the code                    *)
  Capacity,          (* messages that fit into a pipe                        *)
  MaxLines           (* bound: lines of the trace                            *)

ASSUME ReaderAssumption ==
  /\ nparsers \in Nat \ {0} /\ MAX_BUFFER_CHUNKS \in Nat \ {0}
  /\ Capacity \in Nat \ {0} /\ MaxLines \in Nat

VARIABLES
  lines,         (* the number of lines of the trace                         *)
  bad,           (* the lines record.new raises an exception for             *)
  next_line,     (* reader: the line it reads next                           *)
  lines_buffer,  (* reader: the lines not sent yet                           *)
  i_parser,      (* reader: the worker the next chunk goes to                *)
  told,          (* reader: how many workers it sent None                    *)
  raw_pipe,      (* the messages of each worker's pipe                       *)
  lines_set,     (* worker: the lines it still has to make records of        *)
  state,         (* worker: "recv", "parse", "ended" or "died"               *)
  records,       (* worker: the lines it made records of (history)           *)
  returned       (* parse() returned                                         *)

reader == <<next_line, lines_buffer, i_parser, told>>
worker == <<lines_set, state, records>>
vars   == <<lines, bad, reader, raw_pipe, worker, returned>>

Worker == 0..(nparsers - 1)

(* A message is a chunk, a non-empty sequence of lines, or None.             *)
None == <<>>

(* A pipe accepts a message as long as it is not full.                       *)
Send(w, message) ==
  /\ Len(raw_pipe[w]) < Capacity
  /\ raw_pipe' = [raw_pipe EXCEPT ![w] = Append(@, message)]

-----------------------------------------------------------------------------
(* _read_trace *)

ReadLine ==
  /\ next_line <= lines
  /\ Len(lines_buffer) < MAX_BUFFER_CHUNKS
  /\ lines_buffer' = Append(lines_buffer, next_line)
  /\ next_line' = next_line + 1
  /\ UNCHANGED <<lines, bad, i_parser, told, raw_pipe, worker, returned>>

(* Bug variants: the turn does not wrap; every chunk goes to the same worker.*)
send_without_wrap ==
  /\ Len(lines_buffer) >= MAX_BUFFER_CHUNKS
  /\ Send(i_parser, lines_buffer)
  /\ lines_buffer' = <<>>
  /\ i_parser' = i_parser + 1
  /\ UNCHANGED <<lines, bad, next_line, told, worker, returned>>

send_to_the_same ==
  /\ Len(lines_buffer) >= MAX_BUFFER_CHUNKS
  /\ Send(i_parser, lines_buffer)
  /\ lines_buffer' = <<>>
  /\ UNCHANGED <<lines, bad, next_line, i_parser, told, worker, returned>>

SendChunk ==
  /\ Len(lines_buffer) >= MAX_BUFFER_CHUNKS
  /\ Send(i_parser, lines_buffer)
  /\ lines_buffer' = <<>>
  /\ i_parser' = (i_parser + 1) % nparsers
  /\ UNCHANGED <<lines, bad, next_line, told, worker, returned>>

(* The end of the file was reached, with what is in the buffer unsent.       *)
EndOfTrace == next_line > lines /\ Len(lines_buffer) < MAX_BUFFER_CHUNKS

(* Bug variants: only the worker whose turn it is learns of the end; the     *)
(* end is announced while a full buffer still waits to be sent.              *)
none_to_current ==
  /\ EndOfTrace /\ told = 0
  /\ Send(i_parser, None)
  /\ told' = nparsers
  /\ UNCHANGED <<lines, bad, next_line, lines_buffer, i_parser, worker, returned>>

none_before_last ==
  /\ next_line > lines /\ told < nparsers
  /\ Send(told, None)
  /\ told' = told + 1
  /\ UNCHANGED <<lines, bad, next_line, lines_buffer, i_parser, worker, returned>>

(* pipe.send(None) for each pipe in turn. *)
SendNone ==
  /\ EndOfTrace /\ told < nparsers
  /\ Send(told, None)
  /\ told' = told + 1
  /\ UNCHANGED <<lines, bad, next_line, lines_buffer, i_parser, worker, returned>>

Reader == ReadLine \/ SendChunk \/ SendNone

-----------------------------------------------------------------------------
(* _parse_records *)

(* None ends the worker: parsed_pipe.send(None) is the only message that     *)
(* pipe ever gets, and fits.                                                 *)
Receive(w) ==
  /\ state[w] = "recv" /\ raw_pipe[w] # <<>>
  /\ raw_pipe'  = [raw_pipe EXCEPT ![w] = Tail(@)]
  /\ lines_set' = [lines_set EXCEPT ![w] = Head(raw_pipe[w])]
  /\ state'     = [state EXCEPT ![w] = IF Head(raw_pipe[w]) = None THEN "ended" ELSE "parse"]
  /\ UNCHANGED <<lines, bad, reader, records, returned>>

(* record.new of the next line; after the last one the worker receives again.*)
ParseLine(w) ==
  /\ state[w] = "parse" /\ Head(lines_set[w]) \notin bad
  /\ records'   = [records EXCEPT ![w] = Append(@, Head(lines_set[w]))]
  /\ lines_set' = [lines_set EXCEPT ![w] = Tail(@)]
  /\ state'     = [state EXCEPT ![w] = IF Len(lines_set[w]) = 1 THEN "recv" ELSE @]
  /\ UNCHANGED <<lines, bad, reader, raw_pipe, returned>>

Die(w) ==
  /\ state[w] = "parse" /\ Head(lines_set[w]) \in bad
  /\ state' = [state EXCEPT ![w] = "died"]
  /\ UNCHANGED <<lines, bad, reader, raw_pipe, lines_set, records, returned>>

Work(w) == Receive(w) \/ ParseLine(w) \/ Die(w)

(* The joins of parse(): every process is over, whatever its exit code.      *)
Join ==
  /\ ~returned
  /\ told = nparsers
  /\ \A w \in Worker : state[w] \in {"ended", "died"}
  /\ returned' = TRUE
  /\ UNCHANGED <<lines, bad, reader, raw_pipe, worker>>

-----------------------------------------------------------------------------
Init ==
  /\ lines \in 0..MaxLines
  /\ bad \in {{}} \cup {{b} : b \in 1..lines}
  /\ next_line = 1 /\ lines_buffer = <<>> /\ i_parser = 0 /\ told = 0
  /\ raw_pipe  = [w \in Worker |-> <<>>]
  /\ lines_set = [w \in Worker |-> <<>>]
  /\ state     = [w \in Worker |-> "recv"]
  /\ records   = [w \in Worker |-> <<>>]
  /\ returned  = FALSE

Next == Reader \/ (\E w \in Worker : Work(w)) \/ Join

(* The processes run on: the operating system schedules each of them.        *)
Fairness == WF_vars(Reader) /\ (\A w \in Worker : WF_vars(Work(w))) /\ WF_vars(Join)

Spec == Init /\ [][Next]_vars /\ Fairness

-----------------------------------------------------------------------------
(* The chunk a line belongs to. *)
ChunkOf(l)  == (l + MAX_BUFFER_CHUNKS - 1) \div MAX_BUFFER_CHUNKS
LinesOf(c)  == {l \in 1..MaxLines : ChunkOf(l) = c}
WholeChunks == lines \div MAX_BUFFER_CHUNKS

(* The type invariant. *)
TypeOK ==
  /\ lines \in 0..MaxLines /\ bad \subseteq 1..lines
  /\ next_line \in 1..(lines + 1)
  /\ lines_buffer \in Seq(1..lines) /\ Len(lines_buffer) <= MAX_BUFFER_CHUNKS
  /\ i_parser \in Worker /\ told \in 0..nparsers
  /\ raw_pipe \in [Worker -> Seq(Seq(1..lines))]
  /\ \A w \in Worker : Len(raw_pipe[w]) <= Capacity
  /\ lines_set \in [Worker -> Seq(1..lines)] /\ records \in [Worker -> Seq(1..lines)]
  /\ state \in [Worker -> {"recv", "parse", "ended", "died"}]
  /\ returned \in BOOLEAN

(* Where a line that was sent is now: a record was made of it, it is at hand *)
(* or in the pipe of a worker, in this order.                                *)
LinesWith(w) == records[w] \o lines_set[w] \o FlattenSeq(raw_pipe[w])

Increasing(s) == \A i, j \in 1..Len(s) : i < j => s[i] < s[j]

(* Dealt through pipes of any fill, to workers of any speed, the lines that  *)
(* a worker has are those of every nparsers-th chunk of what left the        *)
(* reader's buffer, in order, without a gap and without a repetition.        *)
ChunksAreDealtInTurn ==
  \A w \in Worker :
    /\ Increasing(LinesWith(w))
    /\ ToSet(LinesWith(w)) = {l \in 1..(next_line - 1) :
                                /\ l + Len(lines_buffer) < next_line
                                /\ (ChunkOf(l) - 1) % nparsers = w}

(* parse() ends, for every trace, unless a worker died of a line it cannot   *)
(* parse and the reader waits for room in its pipe, which nobody empties.    *)
EndsOrWaitsForTheDead ==
  <>(returned \/ \E w \in Worker : state[w] = "died" /\ Len(raw_pipe[w]) = Capacity)

-----------------------------------------------------------------------------
(* Implementation of TraceReading. *)

Bad(c) == LinesOf(c) \cap bad # {}

(* Worker w died at a line of chunk c, or had it or will have it after that. *)
Lost(w) ==
  IF state[w] # "died" THEN {}
  ELSE {c \in 1..WholeChunks :
          (c - 1) % nparsers = w /\ c >= ChunkOf(Head(lines_set[w]))}

Reading == INSTANCE TraceReading WITH
  chunks <- WholeChunks,
  deadly <- {c \in 1..WholeChunks : Bad(c)},
  parsed <- {c \in 1..WholeChunks : \E w \in Worker : LinesOf(c) \subseteq ToSet(records[w])},
  lost   <- UNION {Lost(w) : w \in Worker}

(* What parse() promises: chunks are parsed once each and in turn, and when  *)
(* it returns every whole chunk was parsed or belonged to a worker that had  *)
(* died.  The lines after the last whole chunk are in no chunk: _read_trace  *)
(* never sends them.                                                         *)
ImplementsTraceReading == Reading!ASpec
=============================================================================
