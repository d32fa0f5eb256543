---------------------------- MODULE TraceReading ----------------------------
(***************************************************************************)
(* What the multi-process reader of src/parser/trace_mp.py promises to its *)
(* caller: the trace is cut into chunks, dealt to the workers in turn; a   *)
(* worker turns its chunks into records one after the other, each once,    *)
(* unless it dies at one of them, and then the rest of its chunks are      *)
(* lost.  parse() returns when nothing is left to do.                      *)
(***************************************************************************)
EXTENDS Naturals, FiniteSets

CONSTANT nparsers  (* the number of workers                                  *)

VARIABLES
  chunks,    (* the number of chunks the trace is cut into                   *)
  deadly,    (* the chunks with a line that no record can be made of         *)
  parsed,    (* the chunks that were parsed                                  *)
  lost,      (* the chunks that will not be parsed                           *)
  returned   (* parse() returned                                             *)

avars == <<chunks, deadly, parsed, lost, returned>>

(* The chunks of one worker, from chunk c on. *)
Following(c) == {d \in 1..chunks : d >= c /\ d % nparsers = c % nparsers}

(* The chunks of its worker before c are done. *)
Turn(c) == \A d \in 1..chunks : c \in Following(d) /\ d # c => d \in parsed

ParseChunk(c) ==
  /\ c \notin parsed \cup lost \cup deadly
  /\ Turn(c)
  /\ parsed' = parsed \cup {c}
  /\ UNCHANGED <<chunks, deadly, lost, returned>>

LoseChunks(c) ==
  /\ c \in deadly \ lost
  /\ Turn(c)
  /\ lost' = lost \cup Following(c)
  /\ UNCHANGED <<chunks, deadly, parsed, returned>>

Finish ==
  /\ ~returned
  /\ parsed \cup lost = 1..chunks
  /\ returned' = TRUE
  /\ UNCHANGED <<chunks, deadly, parsed, lost>>

AInit ==
  /\ chunks \in Nat /\ deadly \subseteq 1..chunks
  /\ parsed = {} /\ lost = {} /\ returned = FALSE

ANext == (\E c \in 1..chunks : ParseChunk(c) \/ LoseChunks(c)) \/ Finish
ASpec == AInit /\ [][ANext]_avars
=============================================================================
