--------------------------- MODULE TraceMpProofs ----------------------------
(***************************************************************************)
(* The proofs about the multi-process trace reader: types, what every      *)
(* worker has of the trace, and the implementation of TraceReading.        *)
(***************************************************************************)
EXTENDS TraceMp, SequenceFacts

-----------------------------------------------------------------------------
(* Increasing sequences. *)

LEMMA IncreasingConcat ==
  ASSUME NEW S \in SUBSET Int, NEW a \in Seq(S), NEW b \in Seq(S),
         Increasing(a), Increasing(b),
         \A x \in ToSet(a), y \in ToSet(b) : x < y
  PROVE  Increasing(a \o b)
<1> DEFINE c == a \o b
           n == Len(a)
           m == Len(b)
<1>1. /\ n \in Nat /\ m \in Nat /\ c \in Seq(S) /\ Len(c) = n + m
      /\ \A i \in 1..(n + m) : c[i] = IF i <= n THEN a[i] ELSE b[i - n]
  BY ConcatProperties, LenProperties
<1>2. /\ \A i \in 1..n : a[i] \in Int /\ a[i] \in ToSet(a)
      /\ \A i \in 1..m : b[i] \in Int /\ b[i] \in ToSet(b)
  <2>1. /\ ToSet(a) = {a[i] : i \in 1..n} /\ ToSet(a) \subseteq S
        /\ ToSet(b) = {b[i] : i \in 1..m} /\ ToSet(b) \subseteq S
    BY RangeType
  <2>2. QED
    BY <2>1
<1>3. /\ \A i, j \in 1..n : i < j => a[i] < a[j]
      /\ \A i, j \in 1..m : i < j => b[i] < b[j]
  BY DEF Increasing
<1> HIDE DEF c, n, m
<1>4. ASSUME NEW i \in 1..(n + m), NEW j \in 1..(n + m), i < j
      PROVE  c[i] < c[j]
  <2>1. CASE j <= n
    <3>1. i \in 1..n /\ j \in 1..n /\ i <= n
      BY <1>1, <1>4, <2>1
    <3>2. c[i] = a[i] /\ c[j] = a[j]
      BY <1>1, <3>1, <2>1
    <3>3. QED
      BY <1>3, <1>4, <3>1, <3>2
  <2>2. CASE i <= n /\ ~(j <= n)
    <3>1. i \in 1..n /\ j - n \in 1..m
      BY <1>1, <2>2
    <3>2. c[i] = a[i] /\ c[j] = b[j - n]
      BY <1>1, <2>2
    <3>3. QED
      BY <1>2, <3>1, <3>2
  <2>3. CASE ~(i <= n) /\ ~(j <= n)
    <3>1. i - n \in 1..m /\ j - n \in 1..m /\ i - n < j - n
      BY <1>1, <1>4, <2>3
    <3>2. c[i] = b[i - n] /\ c[j] = b[j - n]
      BY <1>1, <2>3
    <3>3. QED
      BY <1>3, <3>1, <3>2
  <2>4. QED
    BY <1>1, <1>4, <2>1, <2>2, <2>3
<1>5. QED
  BY <1>1, <1>4 DEF Increasing, c

(* What comes first in an increasing sequence is less than what follows.     *)
LEMMA IncreasingParts ==
  ASSUME NEW S \in SUBSET Int, NEW a \in Seq(S), NEW b \in Seq(S), Increasing(a \o b)
  PROVE  /\ Increasing(b)
         /\ \A x \in ToSet(a), y \in ToSet(b) : x < y
<1> DEFINE c == a \o b
           n == Len(a)
           m == Len(b)
<1>1. /\ n \in Nat /\ m \in Nat /\ c \in Seq(S) /\ Len(c) = n + m
      /\ \A i \in 1..(n + m) : c[i] = IF i <= n THEN a[i] ELSE b[i - n]
  BY ConcatProperties, LenProperties
<1>2. \A i, j \in 1..(n + m) : i < j => c[i] < c[j]
  BY <1>1 DEF Increasing
<1>3. ToSet(a) = {a[i] : i \in 1..n} /\ ToSet(b) = {b[i] : i \in 1..m}
  BY RangeType
<1> HIDE DEF c
<1>4. ASSUME NEW i \in 1..n
      PROVE  i \in 1..(n + m) /\ c[i] = a[i]
  <2> HIDE DEF n, m
  <2>1. i \in 1..(n + m) /\ i <= n
    BY <1>1
  <2>2. QED
    BY <1>1, <2>1
<1>5. ASSUME NEW i \in 1..m
      PROVE  n + i \in 1..(n + m) /\ c[n + i] = b[i]
  <2> HIDE DEF n, m
  <2> DEFINE j == n + i
  <2>1. j \in 1..(n + m) /\ ~(j <= n) /\ j - n = i
    BY <1>1
  <2> HIDE DEF j
  <2>2. c[j] = b[i]
    BY <1>1, <2>1
  <2>3. QED
    BY <2>1, <2>2 DEF j
<1>6. ASSUME NEW i \in 1..m, NEW j \in 1..m, i < j
      PROVE  b[i] < b[j]
  <2> HIDE DEF n, m
  <2>1. n + i < n + j
    BY <1>1, <1>6
  <2>2. QED
    BY <1>2, <1>5, <2>1
<1>7. ASSUME NEW i \in 1..n, NEW j \in 1..m
      PROVE  a[i] < b[j]
  <2> HIDE DEF n, m
  <2>1. i < n + j
    BY <1>1
  <2>2. QED
    BY <1>2, <1>4, <1>5, <2>1
<1>8. QED
  BY <1>3, <1>6, <1>7 DEF Increasing

(* The element after the first ones tells which they are.                    *)
LEMMA HeadDivides ==
  ASSUME NEW S \in SUBSET Int, NEW a \in Seq(S), NEW b \in Seq(S), NEW c \in Seq(S),
         b # <<>>, Increasing((a \o b) \o c)
  PROVE  /\ Head(b) \in ToSet((a \o b) \o c)
         /\ \A x \in ToSet((a \o b) \o c) : x \in ToSet(a) <=> x < Head(b)
<1> DEFINE h == Head(b)
           t == Tail(b) \o c
           e == <<h>> \o t
<1>1. /\ h \in S /\ Tail(b) \in Seq(S) /\ <<h>> \in Seq(S)
      /\ b = <<h>> \o Tail(b)
  BY HeadAndTail
<1>2. t \in Seq(S) /\ e \in Seq(S)
  BY <1>1, ConcatProperties
<1>3. (a \o b) \o c = a \o e
  <2>1. (a \o b) \o c = a \o (b \o c)
    BY ConcatThree
  <2> DEFINE k == <<h>>
             l == Tail(b)
  <2>2. k \in Seq(S) /\ l \in Seq(S)
    BY <1>1
  <2> HIDE DEF k, l
  <2>3. (k \o l) \o c = k \o (l \o c)
    BY <2>2, ConcatThree, SMTT(30)
  <2>4. QED
    BY <1>1, <2>1, <2>3 DEF k, l
<1>4. ToSet(e) = ToSet(<<h>>) \cup ToSet(t) /\ ToSet(<<h>>) = {h}
  <2> DEFINE k == <<h>>
  <2>1. k \in Seq(S) /\ Len(k) = 1 /\ k[1] = h
    BY <1>1
  <2> HIDE DEF k
  <2>2. ToSet(k) = {k[i] : i \in 1..Len(k)}
    BY <2>1, RangeType
  <2>3. ToSet(k) = {h}
    BY <2>1, <2>2
  <2> HIDE DEF t
  <2>4. ToSet(k \o t) = ToSet(k) \cup ToSet(t)
    BY <1>2, <2>1, RangeConcat
  <2>5. QED
    BY <2>3, <2>4 DEF k
<1>5. /\ ToSet(a \o e) = ToSet(a) \cup ToSet(e)
      /\ ToSet(a) \subseteq Int /\ ToSet(e) \subseteq Int
  <2> HIDE DEF e
  <2>1. ToSet(a \o e) = ToSet(a) \cup ToSet(e)
    BY <1>2, RangeConcat
  <2>2. ToSet(a) \subseteq S /\ ToSet(e) \subseteq S
    BY <1>2, RangeType
  <2>3. QED
    BY <2>1, <2>2
<1>6. /\ Increasing(e)
      /\ \A x \in ToSet(a), y \in ToSet(e) : x < y
  <2> HIDE DEF e
  <2>1. QED
    BY <1>2, <1>3, IncreasingParts
<1>7. \A y \in ToSet(t) : h < y
  <2> DEFINE k == <<h>>
  <2>1. k \in Seq(S) /\ Increasing(k \o t)
    BY <1>1, <1>6
  <2> HIDE DEF k, t
  <2>2. \A x \in ToSet(k), y \in ToSet(t) : x < y
    BY <1>2, <2>1, IncreasingParts
  <2>3. QED
    BY <1>4, <2>2 DEF k
<1>8. h \in ToSet(a \o e)
  BY <1>4, <1>5
<1>9. ASSUME NEW x \in ToSet(a \o e)
      PROVE  x \in ToSet(a) <=> x < h
  <2> HIDE DEF e, t, h
  <2>1. h \in ToSet(e) /\ h \in Int /\ x \in Int
    BY <1>1, <1>4, <1>5, <1>9
  <2>2. CASE x \in ToSet(a)
    BY <1>6, <2>1, <2>2
  <2>3. CASE x \in ToSet(e)
    <3>1. x = h \/ h < x
      BY <1>4, <1>7, <2>3
    <3>2. x \notin ToSet(a)
      BY <1>6, <2>1, <2>3
    <3>3. QED
      BY <2>1, <3>1, <3>2
  <2>4. QED
    BY <1>5, <1>9, <2>2, <2>3
<1>10. QED
  BY <1>3, <1>8, <1>9

-----------------------------------------------------------------------------
(* Chunks and turns. *)

LEMMA ChunkBounds ==
  ASSUME NEW l \in Nat \ {0}
  PROVE  /\ ChunkOf(l) \in Nat \ {0}
         /\ (ChunkOf(l) - 1) * MAX_BUFFER_CHUNKS < l
         /\ l <= ChunkOf(l) * MAX_BUFFER_CHUNKS
<1> DEFINE m == MAX_BUFFER_CHUNKS
           c == (l + m - 1) \div m
<1>1. m \in Nat \ {0}
  BY ReaderAssumption
<1>2. ChunkOf(l) = c
  BY DEF ChunkOf
<1> HIDE DEF m
<1>3. c \in Nat /\ (c - 1) * m + 1 <= l /\ l <= c * m
  BY <1>1
<1>4. c # 0
  BY <1>1, <1>3
<1>5. QED
  BY <1>1, <1>2, <1>3, <1>4 DEF m

LEMMA ChunkUnique ==
  ASSUME NEW l \in Nat, NEW c \in Nat,
         (c - 1) * MAX_BUFFER_CHUNKS < l, l <= c * MAX_BUFFER_CHUNKS
  PROVE  ChunkOf(l) = c
<1> DEFINE m == MAX_BUFFER_CHUNKS
<1>1. m \in Nat \ {0}
  BY ReaderAssumption
<1>2. (c - 1) * m < l /\ l <= c * m
  OBVIOUS
<1> HIDE DEF m
<1>3. (l + m - 1) \div m = c
  BY <1>1, <1>2
<1>4. QED
  BY <1>3 DEF ChunkOf, m

LEMMA ModUnique ==
  ASSUME NEW n \in Nat \ {0}, NEW q \in Nat, NEW r \in 0..(n - 1)
  PROVE  (n * q + r) % n = r
  OBVIOUS

LEMMA NextTurn ==
  ASSUME NEW s \in Nat
  PROVE  s % nparsers \in Worker /\ (s + 1) % nparsers = ((s % nparsers) + 1) % nparsers
<1> DEFINE n == nparsers
           q == s \div n
           r == s % n
<1>1. n \in Nat \ {0}
  BY ReaderAssumption
<1> HIDE DEF n
<1>2. q \in Nat /\ r \in 0..(n - 1) /\ s = n * q + r
  BY <1>1
<1> HIDE DEF q, r
<1>3. CASE r + 1 < n
  <2>1. r + 1 \in 0..(n - 1) /\ s + 1 = n * q + (r + 1) /\ r + 1 = n * 0 + (r + 1)
    BY <1>1, <1>2, <1>3
  <2>2. (n * q + (r + 1)) % n = r + 1
    BY <1>1, <1>2, <2>1, ModUnique
  <2>3. (n * 0 + (r + 1)) % n = r + 1
    BY <1>1, <2>1, ModUnique
  <2>4. QED
    BY <1>2, <2>1, <2>2, <2>3 DEF n, r, Worker
<1>4. CASE r + 1 = n
  <2>1. 0 \in 0..(n - 1) /\ s + 1 = n * (q + 1) + 0 /\ r + 1 = n * 1 + 0
    BY <1>1, <1>2, <1>4
  <2>2. (n * (q + 1) + 0) % n = 0
    BY <1>1, <1>2, <2>1, ModUnique
  <2>3. (n * 1 + 0) % n = 0
    BY <1>1, <2>1, ModUnique
  <2>4. QED
    BY <1>2, <2>1, <2>2, <2>3 DEF n, r, Worker
<1>5. QED
  BY <1>1, <1>2, <1>3, <1>4

-----------------------------------------------------------------------------
(* The inductive invariant. *)

(* The chunks 1 to s left the buffer, which holds the lines that follow; the *)
(* end is announced after everything that will be sent was sent.             *)
ReaderInv ==
  /\ \E s \in Nat :
       /\ next_line - 1 = s * MAX_BUFFER_CHUNKS + Len(lines_buffer)
       /\ i_parser = s % nparsers
       /\ \A k \in 1..Len(lines_buffer) : lines_buffer[k] = s * MAX_BUFFER_CHUNKS + k
  /\ told > 0 => EndOfTrace

(* A worker with lines at hand makes records of them; it dies of a bad one.  *)
WorkersInv ==
  \A w \in Worker :
    /\ state[w] \in {"recv", "ended"} <=> lines_set[w] = <<>>
    /\ ToSet(records[w]) \cap bad = {}
    /\ state[w] = "died" => Head(lines_set[w]) \in bad

(* None is the last message of a worker; it ends with an empty pipe.         *)
EndInv ==
  \A w \in Worker :
    /\ \A i \in 1..Len(raw_pipe[w]) :
         raw_pipe[w][i] = None => i = Len(raw_pipe[w]) /\ w < told
    /\ state[w] = "ended" => raw_pipe[w] = <<>> /\ w < told

ReadingInv == TypeOK /\ ChunksAreDealtInTurn /\ ReaderInv /\ WorkersInv /\ EndInv

LEMMA DealtUnchanged ==
  ASSUME ChunksAreDealtInTurn, UNCHANGED <<next_line, lines_buffer>>,
         \A w \in Worker : LinesWith(w)' = LinesWith(w)
  PROVE  ChunksAreDealtInTurn'
  BY DEF ChunksAreDealtInTurn, ChunkOf

LEMMA PipeTypes ==
  ASSUME TypeOK, NEW w \in Worker
  PROVE  /\ raw_pipe[w] \in Seq(Seq(1..lines)) /\ Len(raw_pipe[w]) \in Nat
         /\ lines_set[w] \in Seq(1..lines) /\ records[w] \in Seq(1..lines)
         /\ FlattenSeq(raw_pipe[w]) \in Seq(1..lines)
         /\ 1..lines \in SUBSET Int
<1>1. raw_pipe[w] \in Seq(Seq(1..lines)) /\ lines_set[w] \in Seq(1..lines) /\ records[w] \in Seq(1..lines)
  BY DEF TypeOK
<1>2. QED
  BY <1>1, LenProperties, FlattenType

LEMMA ReceiveStep ==
  ASSUME ReadingInv, NEW w \in Worker, Receive(w)
  PROVE  ReadingInv'
<1> DEFINE S == 1..lines
           q == raw_pipe[w]
           h == Head(q)
           t == Tail(q)
<1> USE DEF ReadingInv
<1>1. /\ q \in Seq(Seq(S)) /\ q # <<>> /\ records[w] \in Seq(S)
      /\ state[w] = "recv" /\ lines_set[w] = <<>>
  BY PipeTypes DEF Receive, WorkersInv
<1>2. /\ h = q[1] /\ h \in Seq(S) /\ t \in Seq(Seq(S))
      /\ Len(q) \in Nat \ {0} /\ Len(t) = Len(q) - 1
      /\ \A i \in 1..Len(t) : t[i] = q[i + 1]
  <2> DEFINE A == Seq(S)
  <2>1. q \in Seq(A) /\ q # <<>>
    BY <1>1
  <2> HIDE DEF A, q
  <2>2. /\ Head(q) = q[1] /\ Head(q) \in A /\ Tail(q) \in Seq(A)
        /\ Len(q) \in Nat \ {0} /\ Len(Tail(q)) = Len(q) - 1
        /\ \A i \in 1..Len(Tail(q)) : Tail(q)[i] = q[i + 1]
    BY <2>1, HeadAndRest
  <2>3. QED
    BY <2>2 DEF A
<1>3. /\ raw_pipe'  = [raw_pipe EXCEPT ![w] = t]
      /\ lines_set' = [lines_set EXCEPT ![w] = h]
      /\ state'     = [state EXCEPT ![w] = IF h = None THEN "ended" ELSE "parse"]
      /\ UNCHANGED <<lines, bad, next_line, lines_buffer, i_parser, told, records, returned>>
  BY DEF Receive, reader
<1> HIDE DEF h, t
<1>4. /\ raw_pipe'[w] = t /\ lines_set'[w] = h
      /\ state'[w] = IF h = None THEN "ended" ELSE "parse"
      /\ \A v \in Worker : v # w => /\ raw_pipe'[v] = raw_pipe[v]
                                   /\ lines_set'[v] = lines_set[v]
                                   /\ state'[v] = state[v]
  BY <1>3 DEF TypeOK
<1>5. TypeOK'
  <2>1. raw_pipe' \in [Worker -> Seq(Seq(S))] /\ lines_set' \in [Worker -> Seq(S)]
    BY <1>2, <1>3 DEF TypeOK
  <2>2. state' \in [Worker -> {"recv", "parse", "ended", "died"}]
    BY <1>3 DEF TypeOK
  <2>3. \A v \in Worker : Len(raw_pipe'[v]) <= Capacity
    <3> SUFFICES ASSUME NEW v \in Worker
                 PROVE  Len(raw_pipe'[v]) <= Capacity
      OBVIOUS
    <3>1. Len(raw_pipe[v]) <= Capacity /\ Len(q) <= Capacity
      BY DEF TypeOK
    <3>2. Len(q) - 1 <= Capacity
      BY <1>2, <3>1, ReaderAssumption
    <3>3. QED
      BY <1>2, <1>4, <3>1, <3>2
  <2>4. QED
    BY <1>3, <2>1, <2>2, <2>3 DEF TypeOK
<1>6. ChunksAreDealtInTurn'
  <2>1. FlattenSeq(t) \in Seq(S) /\ FlattenSeq(q) = h \o FlattenSeq(t)
    BY <1>1, <1>2, FlattenType, FlattenHead DEF h, t
  <2>2. LinesWith(w)' = LinesWith(w)
    <3> DEFINE r == records[w]
               f == FlattenSeq(t)
    <3>1. r \in Seq(S) /\ f \in Seq(S) /\ h \in Seq(S)
      BY <1>1, <1>2, <2>1
    <3> HIDE DEF r, f, S
    <3>2. (r \o h) \o f = r \o (h \o f) /\ r \o <<>> = r
      BY <3>1, ConcatThree, ConcatEmptySeq
    <3>3. QED
      BY <1>1, <1>3, <1>4, <2>1, <3>2 DEF LinesWith, r, f
  <2>3. \A v \in Worker : LinesWith(v)' = LinesWith(v)
    BY <1>3, <1>4, <2>2 DEF LinesWith
  <2>4. QED
    BY <1>3, <2>3, DealtUnchanged
<1>7. ReaderInv'
  BY <1>3 DEF ReaderInv, EndOfTrace
<1>8. WorkersInv'
  BY <1>1, <1>3, <1>4 DEF WorkersInv, None
<1>9. EndInv'
  <2> SUFFICES ASSUME NEW v \in Worker
               PROVE  /\ \A i \in 1..Len(raw_pipe'[v]) :
                           raw_pipe'[v][i] = None => i = Len(raw_pipe'[v]) /\ v < told
                      /\ state'[v] = "ended" => raw_pipe'[v] = <<>> /\ v < told
    BY <1>3 DEF EndInv
  <2>1. CASE v # w
    BY <1>4, <2>1 DEF EndInv
  <2>2. CASE v = w
    <3>1. \A i \in 1..Len(q) : q[i] = None => i = Len(q) /\ w < told
      BY DEF EndInv
    <3>2. \A i \in 1..Len(t) : t[i] = None => i = Len(t) /\ w < told
      <4> SUFFICES ASSUME NEW i \in 1..Len(t), t[i] = None
                   PROVE  i = Len(t) /\ w < told
        OBVIOUS
      <4>1. i + 1 \in 1..Len(q) /\ q[i + 1] = None
        BY <1>2
      <4>2. i + 1 = Len(q) /\ w < told
        BY <3>1, <4>1
      <4>3. QED
        BY <1>2, <4>2
    <3>3. h = None => t = <<>> /\ w < told
      <4>1. h = None => 1 = Len(q) /\ w < told
        <5>1. 1 \in 1..Len(q)
          BY <1>2
        <5>2. QED
          BY <1>2, <3>1, <5>1
      <4>2. Len(q) = 1 => t = <<>>
        BY <1>2, EmptySeq
      <4>3. QED
        BY <4>1, <4>2
    <3>4. QED
      BY <1>4, <2>2, <3>2, <3>3
  <2>3. QED
    BY <2>1, <2>2
<1>10. QED
  BY <1>5, <1>6, <1>7, <1>8, <1>9

(* What a worker does that makes a record of a line.                         *)
LEMMA ParseFacts ==
  ASSUME ReadingInv, NEW w \in Worker, ParseLine(w)
  PROVE  /\ lines_set[w] # <<>> /\ Head(lines_set[w]) \in 1..lines \ bad
         /\ Tail(lines_set[w]) \in Seq(1..lines)
         /\ records'[w] = records[w] \o <<Head(lines_set[w])>>
         /\ records'[w] \in Seq(1..lines)
         /\ ToSet(records'[w]) = ToSet(records[w]) \cup {Head(lines_set[w])}
         /\ lines_set'[w] = Tail(lines_set[w])
         /\ \A v \in Worker : v # w => /\ records'[v] = records[v]
                                      /\ lines_set'[v] = lines_set[v]
                                      /\ state'[v] = state[v]
         /\ records[w] \o lines_set[w] = records'[w] \o lines_set'[w]
<1> DEFINE S == 1..lines
           h == Head(lines_set[w])
           t == Tail(lines_set[w])
           r == records[w]
           e == <<h>>
<1>1. lines_set[w] \in Seq(S) /\ r \in Seq(S) /\ lines_set[w] # <<>>
  BY PipeTypes DEF ParseLine, ReadingInv, WorkersInv
<1>2. h \in S /\ h \notin bad /\ t \in Seq(S) /\ e \in Seq(S) /\ lines_set[w] = e \o t
  <2> HIDE DEF S
  <2>1. h \in S /\ t \in Seq(S) /\ e \in Seq(S) /\ lines_set[w] = e \o t
    BY <1>1, HeadAndTail
  <2>2. QED
    BY <2>1 DEF ParseLine
<1>3. /\ records'[w] = Append(r, h) /\ lines_set'[w] = t
      /\ \A v \in Worker : v # w => /\ records'[v] = records[v]
                                   /\ lines_set'[v] = lines_set[v]
                                   /\ state'[v] = state[v]
  BY DEF ParseLine, ReadingInv, TypeOK
<1>4. Append(r, h) = r \o e
  <2> HIDE DEF S, h, r
  <2>1. QED
    BY <1>1, <1>2, AppendAsConcat
<1>5. r \o e \in Seq(S) /\ r \o (e \o t) = (r \o e) \o t
  <2> HIDE DEF S, h, r, e, t
  <2>1. r \in Seq(S) /\ e \in Seq(S) /\ t \in Seq(S)
    BY <1>1, <1>2
  <2>2. r \o e \in Seq(S)
    BY <2>1, ConcatProperties
  <2>3. (r \o e) \o t = r \o (e \o t)
    BY <2>1, ConcatThree
  <2>4. QED
    BY <2>2, <2>3
<1>6. ToSet(r \o e) = ToSet(r) \cup {h}
  <2>1. Len(e) = 1 /\ e[1] = h
    OBVIOUS
  <2> HIDE DEF S, r, e, h
  <2>2. ToSet(r \o e) = ToSet(r) \cup ToSet(e)
    BY <1>1, <1>2, RangeConcat
  <2>3. ToSet(e) = {e[i] : i \in 1..Len(e)}
    BY <1>2, RangeType
  <2>4. ToSet(e) = {h}
    BY <2>1, <2>3
  <2>5. QED
    BY <2>2, <2>4
<1>7. QED
  BY <1>1, <1>2, <1>3, <1>4, <1>5, <1>6

LEMMA ParseLineStep ==
  ASSUME ReadingInv, NEW w \in Worker, ParseLine(w)
  PROVE  ReadingInv'
<1> USE DEF ReadingInv
<1>1. /\ records'   = [records EXCEPT ![w] = Append(records[w], Head(lines_set[w]))]
      /\ lines_set' = [lines_set EXCEPT ![w] = Tail(lines_set[w])]
      /\ state'     = [state EXCEPT ![w] = IF Len(lines_set[w]) = 1 THEN "recv" ELSE state[w]]
      /\ state[w] = "parse" /\ lines_set[w] \in Seq(1..lines)
      /\ UNCHANGED <<lines, bad, next_line, lines_buffer, i_parser, told, raw_pipe, returned>>
  BY DEF ParseLine, reader, TypeOK
<1>2. /\ Head(lines_set[w]) \in 1..lines /\ Head(lines_set[w]) \notin bad
      /\ Tail(lines_set[w]) \in Seq(1..lines)
      /\ records'[w] \in Seq(1..lines)
      /\ ToSet(records'[w]) = ToSet(records[w]) \cup {Head(lines_set[w])}
      /\ lines_set[w] # <<>> /\ lines_set'[w] = Tail(lines_set[w])
      /\ \A v \in Worker : v # w => /\ records'[v] = records[v]
                                   /\ lines_set'[v] = lines_set[v]
                                   /\ state'[v] = state[v]
  BY ParseFacts
<1>3. TypeOK'
  <2>1. lines_set' \in [Worker -> Seq(1..lines)]
    BY <1>1, <1>2 DEF TypeOK
  <2>2. state' \in [Worker -> {"recv", "parse", "ended", "died"}]
    BY <1>1 DEF TypeOK
  <2>3. records' \in [Worker -> Seq(1..lines)]
    BY <1>1, <1>2 DEF TypeOK
  <2>4. QED
    BY <1>1, <2>1, <2>2, <2>3 DEF TypeOK
<1>4. ChunksAreDealtInTurn'
  <2>1. LinesWith(w)' = LinesWith(w)
    <3>1. records[w] \o lines_set[w] = records'[w] \o lines_set'[w]
      BY ParseFacts
    <3>2. QED
      BY <1>1, <3>1 DEF LinesWith
  <2>2. \A v \in Worker : LinesWith(v)' = LinesWith(v)
    BY <1>1, <1>2, <2>1 DEF LinesWith
  <2>3. QED
    BY <1>1, <2>2, DealtUnchanged
<1>5. ReaderInv'
  BY <1>1 DEF ReaderInv, EndOfTrace
<1>6. WorkersInv'
  <2>1. Tail(lines_set[w]) = <<>> <=> Len(lines_set[w]) = 1
    <3> DEFINE S == 1..lines
               q == lines_set[w]
    <3>1. q \in Seq(S) /\ q # <<>>
      BY <1>1, <1>2
    <3> HIDE DEF S, q
    <3>2. Len(q) \in Nat \ {0} /\ Tail(q) \in Seq(S) /\ Len(Tail(q)) = Len(q) - 1
      BY <3>1, HeadAndRest
    <3>3. Tail(q) = <<>> <=> Len(Tail(q)) = 0
      BY <3>2, EmptySeq
    <3>4. QED
      BY <3>2, <3>3 DEF q
  <2>2. state'[w] = IF Len(lines_set[w]) = 1 THEN "recv" ELSE "parse"
    BY <1>1 DEF TypeOK
  <2>3. ToSet(records'[w]) \cap bad = {}
    BY <1>2 DEF WorkersInv
  <2>4. /\ state'[w] \in {"recv", "ended"} <=> lines_set'[w] = <<>>
        /\ state'[w] # "died"
    BY <1>2, <2>1, <2>2
  <2>5. ASSUME NEW v \in Worker, v # w
        PROVE  /\ state'[v] \in {"recv", "ended"} <=> lines_set'[v] = <<>>
               /\ ToSet(records'[v]) \cap bad = {}
               /\ state'[v] = "died" => Head(lines_set'[v]) \in bad
    <3>1. state'[v] = state[v] /\ lines_set'[v] = lines_set[v] /\ records'[v] = records[v]
      BY <1>2, <2>5
    <3>2. QED
      BY <3>1 DEF WorkersInv
  <2>6. QED
    BY <1>1, <2>3, <2>4, <2>5 DEF WorkersInv
<1>7. EndInv'
  <2>1. state'[w] # "ended"
    BY <1>1 DEF TypeOK
  <2>2. QED
    BY <1>1, <1>2, <2>1 DEF EndInv
<1>8. QED
  BY <1>3, <1>4, <1>5, <1>6, <1>7

LEMMA DieStep ==
  ASSUME ReadingInv, NEW w \in Worker, Die(w)
  PROVE  ReadingInv'
<1> USE DEF ReadingInv
<1>1. /\ state' = [state EXCEPT ![w] = "died"]
      /\ state[w] = "parse" /\ Head(lines_set[w]) \in bad
      /\ UNCHANGED <<lines, bad, next_line, lines_buffer, i_parser, told, raw_pipe, lines_set,
                     records, returned>>
  BY DEF Die, reader
<1>2. state'[w] = "died" /\ \A v \in Worker : v # w => state'[v] = state[v]
  BY <1>1 DEF TypeOK
<1>3. TypeOK'
  BY <1>1 DEF TypeOK
<1>4. ChunksAreDealtInTurn'
  BY <1>1, DealtUnchanged DEF LinesWith
<1>5. ReaderInv'
  BY <1>1 DEF ReaderInv, EndOfTrace
<1>6. WorkersInv'
  BY <1>1, <1>2 DEF WorkersInv
<1>7. EndInv'
  BY <1>1, <1>2 DEF EndInv
<1>8. QED
  BY <1>3, <1>4, <1>5, <1>6, <1>7

LEMMA ReadLineStep ==
  ASSUME ReadingInv, ReadLine
  PROVE  ReadingInv'
<1> USE DEF ReadingInv
<1> DEFINE b == lines_buffer
           m == MAX_BUFFER_CHUNKS
<1>1. /\ next_line <= lines /\ Len(b) < m /\ lines_buffer' = Append(b, next_line)
      /\ next_line' = next_line + 1
      /\ UNCHANGED <<lines, bad, i_parser, told, raw_pipe, lines_set, state, records, returned>>
  BY DEF ReadLine, worker
<1>2. /\ next_line \in 1..lines /\ lines \in Nat /\ b \in Seq(1..lines) /\ Len(b) \in Nat
      /\ told \in Nat /\ m \in Nat \ {0}
  BY <1>1, LenProperties, ReaderAssumption DEF TypeOK
<1>3. /\ lines_buffer' \in Seq(1..lines) /\ Len(lines_buffer') = Len(b) + 1
      /\ \A k \in 1..Len(b) : lines_buffer'[k] = b[k]
      /\ lines_buffer'[Len(b) + 1] = next_line
  <2> DEFINE S == 1..lines
  <2>1. b \in Seq(S) /\ next_line \in S
    BY <1>2
  <2> HIDE DEF S, b
  <2>2. /\ Append(b, next_line) \in Seq(S) /\ Len(Append(b, next_line)) = Len(b) + 1
        /\ \A k \in 1..Len(b) : Append(b, next_line)[k] = b[k]
        /\ Append(b, next_line)[Len(b) + 1] = next_line
    BY <2>1, AppendProperties
  <2>3. QED
    BY <1>1, <2>2 DEF S, b
<1>4. TypeOK'
  <2>1. lines_buffer' \in Seq(1..lines) /\ Len(lines_buffer') <= MAX_BUFFER_CHUNKS
    BY <1>1, <1>2, <1>3
  <2>2. next_line' \in 1..(lines + 1)
    BY <1>1, <1>2
  <2>3. QED
    BY <1>1, <2>1, <2>2 DEF TypeOK
<1>5. ChunksAreDealtInTurn'
  <2>1. \A w \in Worker : LinesWith(w)' = LinesWith(w)
    BY <1>1 DEF LinesWith
  <2>2. ASSUME NEW w \in Worker
        PROVE  {l \in 1..(next_line' - 1) : /\ l + Len(lines_buffer') < next_line'
                                           /\ (ChunkOf(l) - 1) % nparsers = w}
                 = {l \in 1..(next_line - 1) : /\ l + Len(b) < next_line
                                              /\ (ChunkOf(l) - 1) % nparsers = w}
    <3> HIDE DEF b
    <3>1. \A l \in Int : /\ l \in 1..(next_line' - 1) /\ l + Len(lines_buffer') < next_line'
                         <=> l \in 1..(next_line - 1) /\ l + Len(b) < next_line
      BY <1>1, <1>2, <1>3
    <3>2. next_line' - 1 \in Int /\ next_line - 1 \in Int
      BY <1>1, <1>2
    <3>3. QED
      BY <3>1, <3>2
  <2>3. QED
    BY <2>1, <2>2 DEF ChunksAreDealtInTurn, ChunkOf
<1>6. ReaderInv'
  <2>1. PICK s \in Nat : /\ next_line - 1 = s * m + Len(b)
                        /\ i_parser = s % nparsers
                        /\ \A k \in 1..Len(b) : b[k] = s * m + k
    BY DEF ReaderInv
  <2> HIDE DEF b, m
  <2>2. s * m \in Nat
    BY <1>2
  <2>3. next_line' - 1 = s * m + Len(lines_buffer')
    BY <1>1, <1>2, <1>3, <2>1, <2>2
  <2>4. \A k \in 1..Len(lines_buffer') : lines_buffer'[k] = s * m + k
    <3> SUFFICES ASSUME NEW k \in 1..Len(lines_buffer')
                 PROVE  lines_buffer'[k] = s * m + k
      OBVIOUS
    <3>1. CASE k \in 1..Len(b)
      BY <1>3, <2>1, <3>1
    <3>2. CASE k = Len(b) + 1
      <4>1. next_line = s * m + k
        BY <1>2, <2>1, <2>2, <3>2
      <4>2. QED
        BY <1>3, <3>2, <4>1
    <3>3. QED
      BY <1>2, <1>3, <3>1, <3>2
  <2>5. ~(told > 0)
    BY <1>1, <1>2 DEF ReaderInv, EndOfTrace
  <2>6. QED
    BY <1>1, <2>1, <2>3, <2>4, <2>5 DEF ReaderInv, m
<1>7. WorkersInv'
  BY <1>1 DEF WorkersInv
<1>8. EndInv'
  BY <1>1 DEF EndInv
<1>9. QED
  BY <1>4, <1>5, <1>6, <1>7, <1>8

(* A message that is put into a pipe.                                        *)
LEMMA SendFacts ==
  ASSUME ReadingInv, NEW w \in Worker, NEW message, message \in Seq(1..lines), Send(w, message),
         UNCHANGED <<lines, records, lines_set>>
  PROVE  /\ raw_pipe' \in [Worker -> Seq(Seq(1..lines))]
         /\ \A v \in Worker : Len(raw_pipe'[v]) <= Capacity
         /\ \A v \in Worker : v # w => raw_pipe'[v] = raw_pipe[v] /\ LinesWith(v)' = LinesWith(v)
         /\ raw_pipe'[w] = Append(raw_pipe[w], message)
         /\ Len(raw_pipe[w]) \in Nat /\ Len(raw_pipe'[w]) = Len(raw_pipe[w]) + 1
         /\ \A i \in 1..Len(raw_pipe[w]) : raw_pipe'[w][i] = raw_pipe[w][i]
         /\ raw_pipe'[w][Len(raw_pipe[w]) + 1] = message
         /\ LinesWith(w) \in Seq(1..lines)
         /\ LinesWith(w)' = LinesWith(w) \o message
<1> USE DEF ReadingInv
<1> DEFINE S == 1..lines
           A == Seq(S)
           q == raw_pipe[w]
           r == records[w]
           l == lines_set[w]
           f == FlattenSeq(q)
<1>1. /\ Len(q) < Capacity
      /\ raw_pipe' = [raw_pipe EXCEPT ![w] = Append(q, message)]
  BY DEF Send
<1>2. /\ raw_pipe'[w] = Append(q, message)
      /\ \A v \in Worker : v # w => raw_pipe'[v] = raw_pipe[v]
  BY <1>1 DEF TypeOK
<1>3. q \in Seq(A) /\ r \in A /\ l \in A /\ f \in A /\ message \in A
  BY PipeTypes
<1>4. /\ Append(q, message) \in Seq(A) /\ Len(Append(q, message)) = Len(q) + 1
      /\ Len(q) \in Nat
      /\ \A i \in 1..Len(q) : Append(q, message)[i] = q[i]
      /\ Append(q, message)[Len(q) + 1] = message
  <2> HIDE DEF A, q
  <2>1. QED
    BY <1>3, AppendProperties, LenProperties
<1>5. raw_pipe' \in [Worker -> Seq(A)]
  BY <1>1, <1>4 DEF TypeOK
<1>6. \A v \in Worker : Len(raw_pipe'[v]) <= Capacity
  <2>1. Len(q) + 1 <= Capacity
    BY <1>1, <1>4, ReaderAssumption
  <2>2. QED
    BY <1>2, <1>4, <2>1 DEF TypeOK
<1>7. FlattenSeq(Append(q, message)) = f \o message
  <2>1. q \in Seq(Seq(S)) /\ message \in Seq(S)
    BY <1>3
  <2> HIDE DEF S, q
  <2>2. QED
    BY <2>1, FlattenAppend
<1>8. /\ (r \o l) \o f \in A
      /\ ((r \o l) \o f) \o message = (r \o l) \o (f \o message)
  <2> DEFINE k == r \o l
             x == message
  <2>1. r \in Seq(S) /\ l \in Seq(S) /\ f \in Seq(S) /\ x \in Seq(S)
    BY <1>3
  <2> HIDE DEF S, r, l, f
  <2>2. k \in Seq(S)
    BY <2>1, ConcatProperties
  <2> HIDE DEF k, x
  <2>3. k \o f \in Seq(S)
    BY <2>1, <2>2, ConcatProperties
  <2>4. (k \o f) \o x = k \o (f \o x)
    <3>1. k \in Seq(S) /\ f \in Seq(S) /\ x \in Seq(S)
      BY <2>1, <2>2
    <3>2. QED
      BY <3>1, ConcatThree, SMTT(30)
  <2>5. QED
    BY <2>3, <2>4 DEF k, x
<1>9. LinesWith(w) = (r \o l) \o f /\ LinesWith(w)' = (r \o l) \o (f \o message)
  BY <1>2, <1>7 DEF LinesWith
<1>10. \A v \in Worker : v # w => LinesWith(v)' = LinesWith(v)
  BY <1>2 DEF LinesWith
<1>11. QED
  BY <1>2, <1>4, <1>5, <1>6, <1>8, <1>9, <1>10

LEMMA SendChunkStep ==
  ASSUME ReadingInv, SendChunk
  PROVE  ReadingInv'
<1> USE DEF ReadingInv
<1> DEFINE b == lines_buffer
           m == MAX_BUFFER_CHUNKS
<1>0. PICK u \in Worker : u = i_parser
  BY DEF TypeOK
<1>1. /\ Len(b) >= m /\ Send(u, b) /\ lines_buffer' = <<>> /\ i_parser' = (u + 1) % nparsers
      /\ UNCHANGED <<lines, bad, next_line, told, lines_set, state, records, returned>>
  BY <1>0 DEF SendChunk, worker
<1>2. /\ b \in Seq(1..lines) /\ lines \in Nat /\ Len(b) = m
      /\ m \in Nat \ {0} /\ told \in Nat /\ next_line \in 1..(lines + 1)
  <2>1. b \in Seq(1..lines) /\ Len(b) <= m /\ Len(b) \in Nat
    BY LenProperties DEF TypeOK
  <2>2. QED
    BY <1>1, <2>1, ReaderAssumption DEF TypeOK
<1>3. PICK s \in Nat : /\ next_line - 1 = s * m + m
                      /\ u = s % nparsers
                      /\ \A k \in 1..m : b[k] = s * m + k
  BY <1>0, <1>2 DEF ReaderInv
<1>4. s + 1 \in Nat /\ s * m \in Nat /\ (s + 1) * m = s * m + m /\ s + 1 - 1 = s
  BY <1>2
<1>5. /\ raw_pipe' \in [Worker -> Seq(Seq(1..lines))]
      /\ \A v \in Worker : Len(raw_pipe'[v]) <= Capacity
      /\ \A v \in Worker : v # u => raw_pipe'[v] = raw_pipe[v] /\ LinesWith(v)' = LinesWith(v)
      /\ Len(raw_pipe[u]) \in Nat /\ Len(raw_pipe'[u]) = Len(raw_pipe[u]) + 1
      /\ \A i \in 1..Len(raw_pipe[u]) : raw_pipe'[u][i] = raw_pipe[u][i]
      /\ raw_pipe'[u][Len(raw_pipe[u]) + 1] = b
      /\ LinesWith(u) \in Seq(1..lines)
      /\ LinesWith(u)' = LinesWith(u) \o b
  BY <1>1, <1>2, SendFacts
<1>6. i_parser' \in Worker /\ i_parser' = (s + 1) % nparsers
  BY <1>1, <1>3, <1>4, NextTurn
<1>7. TypeOK'
  <2>1. <<>> \in Seq(1..lines) /\ Len(<<>>) <= m
    BY <1>2
  <2>2. QED
    BY <1>1, <1>2, <1>5, <1>6, <2>1 DEF TypeOK
<1>8. ChunksAreDealtInTurn'
  <2> DEFINE Dealt(v, n) == {l \in 1..n : (ChunkOf(l) - 1) % nparsers = v}
  <2>1. \A v \in Worker : /\ Increasing(LinesWith(v))
                          /\ ToSet(LinesWith(v)) = Dealt(v, s * m)
    <3> SUFFICES ASSUME NEW v \in Worker
                 PROVE  {l \in 1..(next_line - 1) : /\ l + Len(b) < next_line
                                                   /\ (ChunkOf(l) - 1) % nparsers = v}
                          = Dealt(v, s * m)
      BY DEF ChunksAreDealtInTurn
    <3> HIDE DEF b
    <3> DEFINE P(l) == (ChunkOf(l) - 1) % nparsers = v
               t == s * m
               len == Len(b)
    <3>1. t \in Nat /\ next_line - 1 = t + len /\ len \in Nat /\ next_line \in Nat
      BY <1>2, <1>3, <1>4
    <3> HIDE DEF P, t, len
    <3>2. {l \in 1..(next_line - 1) : l + len < next_line /\ P(l)} = {l \in 1..t : P(l)}
      BY <3>1
    <3>3. QED
      BY <3>2 DEF P, t, len
  <2>2. ASSUME NEW v \in Worker, Increasing(LinesWith(v)'),
               ToSet(LinesWith(v)') = Dealt(v, s * m + m)
        PROVE  /\ Increasing(LinesWith(v)')
               /\ ToSet(LinesWith(v)') = {l \in 1..(next_line' - 1) :
                                            /\ l + Len(lines_buffer') < next_line'
                                            /\ (ChunkOf(l) - 1) % nparsers = v}
    <3>1. next_line' - 1 = s * m + m /\ Len(lines_buffer') = 0 /\ next_line' \in Nat
      BY <1>1, <1>2, <1>3
    <3> DEFINE n == next_line'
    <3>2. \A l \in 1..(n - 1) : l + 0 < n
      <4>1. n \in Nat
        BY <3>1
      <4> HIDE DEF n
      <4>2. QED
        BY <4>1
    <3>3. QED
      BY <2>2, <3>1, <3>2
  <2>3. \A l \in (s * m + 1)..(s * m + m) : (ChunkOf(l) - 1) % nparsers = u
    <3> SUFFICES ASSUME NEW l \in (s * m + 1)..(s * m + m)
                 PROVE  (ChunkOf(l) - 1) % nparsers = u
      OBVIOUS
    <3> DEFINE c == s + 1
    <3>1. c \in Nat /\ (c - 1) * m < l /\ l <= c * m /\ l \in Nat /\ c - 1 = s
      BY <1>2, <1>4
    <3> HIDE DEF c
    <3>2. ChunkOf(l) = c
      BY <3>1, ChunkUnique
    <3>3. QED
      BY <1>3, <3>1, <3>2
  <2>4. \A v \in Worker : Dealt(v, s * m + m)
                            = Dealt(v, s * m) \cup IF v = u THEN (s * m + 1)..(s * m + m) ELSE {}
    <3> HIDE DEF m
    <3>1. \A l \in Int : l \in 1..(s * m + m) <=> l \in 1..(s * m) \/ l \in (s * m + 1)..(s * m + m)
      BY <1>2, <1>4
    <3>2. QED
      BY <1>2, <1>4, <2>3, <3>1
  <2>5. ASSUME NEW v \in Worker, v # u
        PROVE  /\ Increasing(LinesWith(v)')
               /\ ToSet(LinesWith(v)') = Dealt(v, s * m + m)
    <3>1. LinesWith(v)' = LinesWith(v)
      BY <1>5, <2>5
    <3>2. Dealt(v, s * m + m) = Dealt(v, s * m)
      BY <2>4, <2>5
    <3>3. QED
      BY <2>1, <3>1, <3>2
  <2>6. /\ Increasing(LinesWith(u)')
        /\ ToSet(LinesWith(u)') = Dealt(u, s * m + m)
    <3> DEFINE S == 1..lines
               h == LinesWith(u)
    <3>1. h \in Seq(S) /\ b \in Seq(S) /\ S \in SUBSET Int /\ Increasing(h)
          /\ LinesWith(u)' = h \o b
      BY <1>2, <1>5, <2>1
    <3>2. ToSet(b) = (s * m + 1)..(s * m + m)
      <4>1. ToSet(b) = {b[k] : k \in 1..Len(b)}
        BY <1>2, RangeType
      <4>2. ToSet(b) = {s * m + k : k \in 1..m}
        BY <1>2, <1>3, <4>1
      <4>3. \A l \in (s * m + 1)..(s * m + m) : l - s * m \in 1..m /\ l = s * m + (l - s * m)
        BY <1>2, <1>4
      <4> HIDE DEF m, b
      <4>4. QED
        BY <1>2, <1>4, <4>2, <4>3
    <3>3. Increasing(b)
      BY <1>2, <1>3, <1>4 DEF Increasing
    <3>4. ToSet(h) = Dealt(u, s * m)
      BY <1>2, <2>1
    <3>5. \A x \in ToSet(h), y \in ToSet(b) : x < y
      <4> HIDE DEF m, b, h
      <4>1. QED
        BY <1>2, <1>4, <3>2, <3>4
    <3> HIDE DEF h, b, S
    <3>6. Increasing(h \o b)
      BY <3>1, <3>3, <3>5, IncreasingConcat
    <3>7. ToSet(h \o b) = ToSet(h) \cup ToSet(b)
      BY <3>1, RangeConcat
    <3>8. ToSet(h \o b) = Dealt(u, s * m + m)
      BY <1>2, <2>4, <3>2, <3>4, <3>7
    <3>9. QED
      BY <3>1, <3>6, <3>8
  <2>7. \A v \in Worker : /\ Increasing(LinesWith(v)')
                          /\ ToSet(LinesWith(v)') = Dealt(v, s * m + m)
    BY <2>5, <2>6
  <2>8. \A v \in Worker :
          /\ Increasing(LinesWith(v)')
          /\ ToSet(LinesWith(v)') = {l \in 1..(next_line' - 1) :
                                       /\ l + Len(lines_buffer') < next_line'
                                       /\ (ChunkOf(l) - 1) % nparsers = v}
    <3> HIDE DEF Dealt
    <3>1. QED
      BY <2>2, <2>7
  <2>9. QED
    BY <2>8 DEF ChunksAreDealtInTurn, ChunkOf
<1>9. ReaderInv'
  <2>1. next_line' - 1 = (s + 1) * m + Len(lines_buffer')
    BY <1>1, <1>2, <1>3, <1>4
  <2>2. \A k \in 1..Len(lines_buffer') : FALSE
    BY <1>1
  <2>3. ~(told > 0)
    BY <1>1, <1>2 DEF ReaderInv, EndOfTrace
  <2>4. QED
    BY <1>1, <1>4, <1>6, <2>1, <2>2, <2>3 DEF ReaderInv
<1>10. WorkersInv'
  BY <1>1 DEF WorkersInv
<1>11. EndInv'
  <2>1. ~(told > 0)
    BY <1>1, <1>2 DEF ReaderInv, EndOfTrace
  <2>2. \A v \in Worker : ~(v < told)
    BY <1>2, <2>1, ReaderAssumption DEF Worker
  <2>3. b # None
    BY <1>2 DEF None
  <2>4. ASSUME NEW v \in Worker
        PROVE  \A i \in 1..Len(raw_pipe'[v]) : raw_pipe'[v][i] # None
    <3>1. \A i \in 1..Len(raw_pipe[v]) : raw_pipe[v][i] # None
      BY <2>2 DEF EndInv
    <3>2. CASE v = u
      <4> SUFFICES ASSUME NEW i \in 1..Len(raw_pipe'[u])
                   PROVE  raw_pipe'[u][i] # None
        BY <3>2
      <4>1. i \in 1..Len(raw_pipe[u]) \/ i = Len(raw_pipe[u]) + 1
        BY <1>5
      <4>2. QED
        BY <1>5, <2>3, <3>1, <3>2, <4>1
    <3>3. CASE v # u
      BY <1>5, <3>1, <3>3
    <3>4. QED
      BY <3>2, <3>3
  <2>5. \A v \in Worker : state'[v] # "ended"
    BY <1>1, <2>2 DEF EndInv
  <2>6. QED
    BY <2>4, <2>5 DEF EndInv
<1>12. QED
  BY <1>7, <1>8, <1>9, <1>10, <1>11

LEMMA SendNoneStep ==
  ASSUME ReadingInv, SendNone
  PROVE  ReadingInv'
<1> USE DEF ReadingInv
<1>0. PICK u \in 0..nparsers : u = told
  BY DEF TypeOK
<1>1. /\ EndOfTrace /\ u < nparsers /\ Send(u, None) /\ told' = u + 1
      /\ UNCHANGED <<lines, bad, next_line, lines_buffer, i_parser, lines_set, state, records,
                     returned>>
  BY <1>0 DEF SendNone, worker
<1>2. u \in Worker /\ u \in Nat /\ u + 1 \in 0..nparsers /\ None \in Seq(1..lines)
  BY <1>1, ReaderAssumption DEF Worker, TypeOK, None
<1>3. /\ raw_pipe' \in [Worker -> Seq(Seq(1..lines))]
      /\ \A v \in Worker : Len(raw_pipe'[v]) <= Capacity
      /\ \A v \in Worker : v # u => raw_pipe'[v] = raw_pipe[v] /\ LinesWith(v)' = LinesWith(v)
      /\ Len(raw_pipe[u]) \in Nat /\ Len(raw_pipe'[u]) = Len(raw_pipe[u]) + 1
      /\ \A i \in 1..Len(raw_pipe[u]) : raw_pipe'[u][i] = raw_pipe[u][i]
      /\ raw_pipe'[u][Len(raw_pipe[u]) + 1] = None
      /\ LinesWith(u) \in Seq(1..lines)
      /\ LinesWith(u)' = LinesWith(u) \o None
  BY <1>1, <1>2, SendFacts
<1>4. TypeOK'
  BY <1>1, <1>2, <1>3 DEF TypeOK
<1>5. ChunksAreDealtInTurn'
  <2>1. LinesWith(u) \o None = LinesWith(u)
    <3> DEFINE S == 1..lines
               h == LinesWith(u)
    <3>1. h \in Seq(S)
      BY <1>3
    <3> HIDE DEF S, h
    <3>2. h \o <<>> = h
      BY <3>1, ConcatEmptySeq
    <3>3. QED
      BY <3>2 DEF h, None
  <2>2. \A v \in Worker : LinesWith(v)' = LinesWith(v)
    BY <1>3, <2>1
  <2>3. QED
    BY <1>1, <2>2, DealtUnchanged
<1>6. ReaderInv'
  BY <1>0, <1>1, <1>2 DEF ReaderInv, EndOfTrace
<1>7. WorkersInv'
  BY <1>1 DEF WorkersInv
<1>8. EndInv'
  <2>1. \A v \in Worker : v \in Int
    BY ReaderAssumption DEF Worker
  <2>2. \A v \in Worker : v < u => v < u + 1
    BY <1>2, <2>1
  <2>3. \A i \in 1..Len(raw_pipe[u]) : raw_pipe[u][i] # None
    BY <1>0, <1>2 DEF EndInv
  <2>4. state[u] # "ended"
    BY <1>0, <1>2 DEF EndInv
  <2>5. ASSUME NEW i \in 1..Len(raw_pipe'[u]), raw_pipe'[u][i] = None
        PROVE  i = Len(raw_pipe'[u])
    <3>1. i \in 1..Len(raw_pipe[u]) \/ i = Len(raw_pipe[u]) + 1
      BY <1>3
    <3>2. QED
      BY <1>3, <2>3, <2>5, <3>1
  <2>6. u < u + 1
    BY <1>2
  <2>7. ASSUME NEW v \in Worker
        PROVE  /\ \A i \in 1..Len(raw_pipe'[v]) :
                    raw_pipe'[v][i] = None => i = Len(raw_pipe'[v]) /\ v < u + 1
               /\ state'[v] = "ended" => raw_pipe'[v] = <<>> /\ v < u + 1
    <3>1. CASE v = u
      BY <1>1, <2>4, <2>5, <2>6, <3>1
    <3>2. CASE v # u
      BY <1>0, <1>1, <1>3, <2>2, <3>2, ZenonT(30) DEF EndInv
    <3>3. QED
      BY <3>1, <3>2
  <2>8. QED
    BY <1>1, <2>7 DEF EndInv
<1>9. QED
  BY <1>4, <1>5, <1>6, <1>7, <1>8

LEMMA JoinStep ==
  ASSUME ReadingInv, Join
  PROVE  ReadingInv'
<1>1. returned' = TRUE /\ UNCHANGED <<lines, bad, next_line, lines_buffer, i_parser, told, raw_pipe,
                                      lines_set, state, records>>
  BY DEF Join, reader, worker
<1>2. \A w \in Worker : LinesWith(w)' = LinesWith(w)
  BY <1>1 DEF LinesWith
<1>3. ChunksAreDealtInTurn'
  BY <1>1, <1>2, DealtUnchanged DEF ReadingInv
<1>4. TypeOK'
  BY <1>1 DEF ReadingInv, TypeOK
<1>5. ReaderInv' /\ WorkersInv' /\ EndInv'
  BY <1>1 DEF ReadingInv, ReaderInv, EndOfTrace, WorkersInv, EndInv
<1>6. QED
  BY <1>3, <1>4, <1>5 DEF ReadingInv

LEMMA StutterStep ==
  ASSUME ReadingInv, UNCHANGED vars
  PROVE  ReadingInv'
<1>1. UNCHANGED <<lines, bad, next_line, lines_buffer, i_parser, told, raw_pipe,
                  lines_set, state, records, returned>>
  BY DEF vars, reader, worker
<1>2. \A w \in Worker : LinesWith(w)' = LinesWith(w)
  BY <1>1 DEF LinesWith
<1>3. ChunksAreDealtInTurn'
  BY <1>1, <1>2, DealtUnchanged DEF ReadingInv
<1>4. TypeOK'
  BY <1>1 DEF ReadingInv, TypeOK
<1>5. ReaderInv' /\ WorkersInv' /\ EndInv'
  BY <1>1 DEF ReadingInv, ReaderInv, EndOfTrace, WorkersInv, EndInv
<1>6. QED
  BY <1>3, <1>4, <1>5 DEF ReadingInv

LEMMA InitReading == Init => ReadingInv
<1> SUFFICES ASSUME Init
             PROVE  ReadingInv
  OBVIOUS
<1> USE DEF Init
<1>1. lines \in Nat /\ lines \in 0..MaxLines /\ bad \subseteq 1..lines /\ next_line = 1
  BY ReaderAssumption
<1>2. <<>> \in Seq(1..lines) /\ <<>> \in Seq(Seq(1..lines)) /\ Len(<<>>) = 0
  OBVIOUS
<1>3. 0 \in Worker
  BY ReaderAssumption DEF Worker
<1>4. TypeOK
  <2>1. next_line \in 1..(lines + 1) /\ told \in 0..nparsers
    BY <1>1, ReaderAssumption
  <2>2. Len(lines_buffer) <= MAX_BUFFER_CHUNKS /\ \A w \in Worker : Len(raw_pipe[w]) <= Capacity
    BY <1>2, ReaderAssumption
  <2>3. QED
    BY <1>1, <1>2, <1>3, <2>1, <2>2 DEF TypeOK
<1>5. ChunksAreDealtInTurn
  <2>1. FlattenSeq(<<>>) = <<>> /\ <<>> \o <<>> = <<>>
    BY FlattenSeqDef, ConcatEmptySeq, <1>2
  <2>2. \A w \in Worker : LinesWith(w) = <<>>
    BY <2>1 DEF LinesWith
  <2>3. Increasing(<<>>) /\ ToSet(<<>>) = {}
    BY DEF Increasing, ToSet
  <2>4. 1..(next_line - 1) = {}
    BY <1>1
  <2>5. QED
    BY <2>2, <2>3, <2>4 DEF ChunksAreDealtInTurn
<1>6. ReaderInv
  <2>1. next_line - 1 = 0 * MAX_BUFFER_CHUNKS + Len(lines_buffer)
    BY <1>1, <1>2, ReaderAssumption
  <2>2. 0 % nparsers = 0
    BY ReaderAssumption
  <2>3. QED
    BY <1>2, <2>1, <2>2 DEF ReaderInv
<1>7. WorkersInv
  BY DEF WorkersInv, ToSet
<1>8. EndInv
  BY DEF EndInv
<1>9. QED
  BY <1>4, <1>5, <1>6, <1>7, <1>8 DEF ReadingInv

LEMMA StepReading == ReadingInv /\ [Next]_vars => ReadingInv'
<1> SUFFICES ASSUME ReadingInv, [Next]_vars
             PROVE  ReadingInv'
  OBVIOUS
<1>1. CASE Reader
  BY <1>1, ReadLineStep, SendChunkStep, SendNoneStep DEF Reader
<1>2. ASSUME NEW w \in Worker, Work(w)
      PROVE  ReadingInv'
  BY <1>2, ReceiveStep, ParseLineStep, DieStep DEF Work
<1>3. CASE Join
  BY <1>3, JoinStep
<1>4. CASE UNCHANGED vars
  BY <1>4, StutterStep
<1>5. QED
  BY <1>1, <1>2, <1>3, <1>4 DEF Next

THEOREM ReadingInvariant == Spec => []ReadingInv
<1>1. QED
  BY InitReading, StepReading, PTL DEF Spec

(* The types of what the three kinds of processes keep.                      *)
THEOREM ReaderTypes == Spec => []TypeOK
<1>1. ReadingInv => TypeOK
  BY DEF ReadingInv
<1>2. QED
  BY <1>1, ReadingInvariant, PTL

(* The lines of a worker are those of every nparsers-th chunk that left the  *)
(* buffer, in order, for any number of workers, chunk size and pipe size.    *)
THEOREM DealtInTurn == Spec => []ChunksAreDealtInTurn
<1>1. ReadingInv => ChunksAreDealtInTurn
  BY DEF ReadingInv
<1>2. QED
  BY <1>1, ReadingInvariant, PTL

-----------------------------------------------------------------------------
(* The implementation of TraceReading. *)

LEMMA TimesMonotone ==
  ASSUME NEW m \in Nat, NEW c \in Nat, NEW d \in Nat, c <= d
  PROVE  c * m <= d * m
<1>1. d - c \in Nat /\ d * m = c * m + (d - c) * m
  OBVIOUS
<1>2. (d - c) * m \in Nat /\ c * m \in Nat
  BY <1>1
<1>3. QED
  BY <1>1, <1>2

LEMMA TimesLess ==
  ASSUME NEW m \in Nat, NEW c \in Nat, NEW d \in Nat, c * m < d * m
  PROVE  c < d
<1>1. d <= c => d * m <= c * m
  BY TimesMonotone
<1>2. c * m \in Nat /\ d * m \in Nat
  OBVIOUS
<1>3. QED
  BY <1>1, <1>2

(* The lines of a whole chunk. *)
LEMMA WholeChunkLines ==
  ASSUME TypeOK, NEW c \in 1..WholeChunks
  PROVE  /\ WholeChunks \in Nat
         /\ c * MAX_BUFFER_CHUNKS \in LinesOf(c)
         /\ \A l \in LinesOf(c) : /\ l \in 1..lines /\ ChunkOf(l) = c
                                 /\ (c - 1) * MAX_BUFFER_CHUNKS < l
                                 /\ l <= c * MAX_BUFFER_CHUNKS
<1> DEFINE m == MAX_BUFFER_CHUNKS
           W == WholeChunks
<1>1. m \in Nat \ {0} /\ lines \in Nat /\ lines <= MaxLines /\ MaxLines \in Nat
  BY ReaderAssumption DEF TypeOK
<1>2. W \in Nat /\ W * m <= lines
  <2> HIDE DEF m
  <2>1. lines \div m \in Nat /\ (lines \div m) * m <= lines
    BY <1>1
  <2>2. QED
    BY <2>1 DEF WholeChunks, m
<1> HIDE DEF W
<1>3. c \in Nat \ {0} /\ c <= W
  BY <1>2 DEF W
<1> HIDE DEF m
<1>4. c * m <= lines /\ c * m \in Nat /\ (c - 1) * m = c * m - m /\ (c - 1) * m \in Nat
  <2>1. c * m <= W * m
    BY <1>1, <1>2, <1>3, TimesMonotone
  <2>2. c * m \in Nat /\ W * m \in Nat /\ c - 1 \in Nat
    BY <1>1, <1>2, <1>3
  <2>3. QED
    BY <1>1, <1>2, <1>3, <2>1, <2>2
<1>5. c * m \in Nat \ {0}
  BY <1>1, <1>3, <1>4
<1>6. ChunkOf(c * m) = c
  <2> DEFINE l == c * m
  <2>1. l \in Nat /\ (c - 1) * m < l /\ l <= c * m
    BY <1>1, <1>4
  <2> HIDE DEF l
  <2>2. QED
    BY <1>3, <2>1, ChunkUnique DEF m, l
<1>7. c * m \in LinesOf(c)
  BY <1>1, <1>4, <1>5, <1>6 DEF LinesOf
<1>8. ASSUME NEW l \in LinesOf(c)
      PROVE  l \in 1..lines /\ ChunkOf(l) = c /\ (c - 1) * m < l /\ l <= c * m
  <2>1. l \in Nat \ {0} /\ ChunkOf(l) = c
    BY <1>1, <1>8 DEF LinesOf
  <2>2. (c - 1) * m < l /\ l <= c * m
    BY <2>1, ChunkBounds DEF m
  <2>3. QED
    BY <1>1, <1>4, <2>1, <2>2
<1>9. QED
  BY <1>2, <1>7, <1>8 DEF m, W

(* If a worker has a line, it has the whole chunk, and its chunks before.    *)
LEMMA DealtLines ==
  ASSUME ReadingInv, NEW w \in Worker, NEW l \in ToSet(LinesWith(w))
  PROVE  /\ l \in 1..lines /\ ChunkOf(l) \in 1..WholeChunks
         /\ (ChunkOf(l) - 1) % nparsers = w /\ l \in LinesOf(ChunkOf(l))
         /\ \A c \in 1..ChunkOf(l) :
              (c - 1) % nparsers = w => LinesOf(c) \subseteq ToSet(LinesWith(w))
<1> DEFINE m == MAX_BUFFER_CHUNKS
           n == Len(lines_buffer)
           C == ChunkOf(l)
<1>1. /\ m \in Nat \ {0} /\ lines \in Nat /\ next_line \in 1..(lines + 1) /\ n \in Nat
      /\ lines <= MaxLines /\ MaxLines \in Nat /\ TypeOK
  BY ReaderAssumption, LenProperties DEF ReadingInv, TypeOK
<1>2. PICK s \in Nat : next_line - 1 = s * m + n
  BY DEF ReadingInv, ReaderInv
<1>3. ToSet(LinesWith(w)) = {x \in 1..(next_line - 1) : x + n < next_line
                                                      /\ (ChunkOf(x) - 1) % nparsers = w}
  BY DEF ReadingInv, ChunksAreDealtInTurn
<1>4. /\ l \in 1..(next_line - 1) /\ l + n < next_line /\ (ChunkOf(l) - 1) % nparsers = w
  BY <1>3
<1>5. C \in Nat \ {0} /\ (C - 1) * m < l /\ l <= C * m
  BY <1>1, <1>4, ChunkBounds, SMTT(30)
<1> HIDE DEF m, n, C
<1>6. s * m \in Nat /\ l <= s * m /\ s * m <= lines /\ l \in 1..lines
  <2>1. s * m \in Nat
    BY <1>1
  <2>2. QED
    BY <1>1, <1>2, <1>4, <2>1
<1>7. C <= s
  <2>1. (C - 1) * m < s * m /\ C - 1 \in Nat
    BY <1>1, <1>5, <1>6
  <2>2. C - 1 < s
    BY <1>1, <2>1, TimesLess
  <2>3. QED
    BY <1>5, <2>2
<1>8. s <= WholeChunks /\ WholeChunks \in Nat
  <2>1. lines \div m \in Nat /\ lines < (lines \div m + 1) * m
    BY <1>1
  <2>2. s * m < (lines \div m + 1) * m
    BY <1>1, <1>6, <2>1
  <2>3. s < lines \div m + 1
    BY <1>1, <2>1, <2>2, TimesLess
  <2>4. QED
    BY <2>1, <2>3 DEF WholeChunks, m
<1>9. C \in 1..WholeChunks
  BY <1>5, <1>7, <1>8
<1>10. l \in LinesOf(C)
  BY <1>1, <1>6 DEF LinesOf, C
<1>11. ASSUME NEW c \in 1..C, (c - 1) % nparsers = w, NEW x \in LinesOf(c)
       PROVE  x \in ToSet(LinesWith(w))
  <2>1. c \in 1..WholeChunks /\ c \in Nat /\ c <= s
    BY <1>5, <1>7, <1>8
  <2>2. x \in 1..lines /\ ChunkOf(x) = c /\ x <= c * m
    BY <1>1, <1>11, <2>1, WholeChunkLines DEF m
  <2>3. c * m <= s * m /\ c * m \in Nat
    BY <1>1, <2>1, TimesMonotone
  <2>4. x \in 1..(next_line - 1) /\ x + n < next_line
    BY <1>1, <1>2, <1>6, <2>2, <2>3
  <2>5. QED
    BY <1>3, <1>11, <2>2, <2>4
<1>12. QED
  BY <1>4, <1>6, <1>9, <1>10, <1>11 DEF C

(* The line at hand tells which lines of the worker were made records of.    *)
LEMMA LineAtHand ==
  ASSUME ReadingInv, NEW w \in Worker, lines_set[w] # <<>>
  PROVE  /\ Head(lines_set[w]) \in ToSet(LinesWith(w))
         /\ \A x \in ToSet(LinesWith(w)) : x \in ToSet(records[w]) <=> x < Head(lines_set[w])
<1> DEFINE S == 1..lines
           r == records[w]
           l == lines_set[w]
           f == FlattenSeq(raw_pipe[w])
<1>1. r \in Seq(S) /\ l \in Seq(S) /\ f \in Seq(S) /\ S \in SUBSET Int
  BY PipeTypes DEF ReadingInv
<1>2. LinesWith(w) = (r \o l) \o f /\ Increasing(LinesWith(w))
  BY DEF LinesWith, ReadingInv, ChunksAreDealtInTurn
<1>3. l # <<>> /\ Increasing((r \o l) \o f)
  BY <1>2
<1> HIDE DEF S, r, l, f
<1>4. /\ Head(l) \in ToSet((r \o l) \o f)
      /\ \A x \in ToSet((r \o l) \o f) : x \in ToSet(r) <=> x < Head(l)
  BY <1>1, <1>3, HeadDivides
<1>5. QED
  BY <1>2, <1>4 DEF r, l

LEMMA RecordsAreDealt ==
  ASSUME ReadingInv, NEW w \in Worker
  PROVE  ToSet(records[w]) \subseteq ToSet(LinesWith(w))
<1> DEFINE S == 1..lines
           r == records[w]
           l == lines_set[w]
           f == FlattenSeq(raw_pipe[w])
           k == r \o l
<1>1. r \in Seq(S) /\ l \in Seq(S) /\ f \in Seq(S)
  BY PipeTypes DEF ReadingInv
<1>2. LinesWith(w) = k \o f
  BY DEF LinesWith
<1> HIDE DEF S, r, l, f
<1>3. k \in Seq(S) /\ ToSet(k) = ToSet(r) \cup ToSet(l)
  BY <1>1, ConcatProperties, RangeConcat
<1> HIDE DEF k
<1>4. ToSet(k \o f) = ToSet(k) \cup ToSet(f)
  BY <1>1, <1>3, RangeConcat
<1>5. QED
  BY <1>2, <1>3, <1>4 DEF r

(* The chunks of a worker are those a multiple of nparsers apart.            *)
LEMMA SameWorker ==
  ASSUME NEW c \in Nat \ {0}, NEW d \in Nat \ {0}
  PROVE  (c - 1) % nparsers = (d - 1) % nparsers <=> c % nparsers = d % nparsers
<1> DEFINE n == nparsers
           p == (c - 1) % n
           q == (d - 1) % n
<1>1. n \in Nat \ {0}
  BY ReaderAssumption
<1>2. c - 1 \in Nat /\ d - 1 \in Nat /\ c - 1 + 1 = c /\ d - 1 + 1 = d
  OBVIOUS
<1>3. p \in Worker /\ q \in Worker /\ c % n = (p + 1) % n /\ d % n = (q + 1) % n
  BY <1>2, NextTurn
<1> HIDE DEF p, q, n
<1>4. \A x \in 0..(n - 1) : (x + 1) % n = IF x + 1 = n THEN 0 ELSE x + 1
  BY <1>1
<1>5. p \in 0..(n - 1) /\ q \in 0..(n - 1)
  BY <1>3 DEF Worker, n
<1>6. (p + 1) % n = (q + 1) % n => p = q
  BY <1>1, <1>4, <1>5
<1>7. QED
  BY <1>3, <1>6 DEF p, q, n

(* The abstract state. *)
Deadly     == {c \in 1..WholeChunks : Bad(c)}
Parsed     == {c \in 1..WholeChunks : \E w \in Worker : LinesOf(c) \subseteq ToSet(records[w])}
LostChunks == UNION {Lost(w) : w \in Worker}

(* Only the worker a chunk was dealt to makes records of its lines, and only *)
(* it loses the chunk.                                                       *)
LEMMA ParsedByItsWorker ==
  ASSUME ReadingInv, NEW c \in 1..WholeChunks, NEW w \in Worker,
         LinesOf(c) \cap ToSet(records[w]) # {}
  PROVE  (c - 1) % nparsers = w
<1>1. PICK l \in LinesOf(c) : l \in ToSet(LinesWith(w))
  BY RecordsAreDealt
<1>2. ChunkOf(l) = c
  BY WholeChunkLines DEF ReadingInv
<1>3. (ChunkOf(l) - 1) % nparsers = w
  BY <1>1, DealtLines
<1>4. QED
  BY <1>2, <1>3

(* When a worker is at a line, the chunks before the line's, of those dealt  *)
(* to it, are parsed; the line's own chunk is not, nor is it lost if the     *)
(* worker is alive.                                                          *)
LEMMA ChunkAtHand ==
  ASSUME ReadingInv, NEW w \in Worker, lines_set[w] # <<>>,
         NEW l, l = Head(lines_set[w]), NEW c, c = ChunkOf(l)
  PROVE  /\ c \in 1..WholeChunks /\ (c - 1) % nparsers = w /\ l \in LinesOf(c) /\ l \in 1..lines
         /\ c \notin Parsed /\ (state[w] # "died" => c \notin LostChunks)
         /\ \A d \in 1..WholeChunks : c \in Reading!Following(d) /\ d # c => d \in Parsed
         /\ \A x \in LinesOf(c) : x < l => x \in ToSet(records[w])
<1>1. /\ l \in ToSet(LinesWith(w))
      /\ \A x \in ToSet(LinesWith(w)) : x \in ToSet(records[w]) <=> x < l
  BY LineAtHand
<1>2. /\ c \in 1..WholeChunks /\ (c - 1) % nparsers = w /\ l \in LinesOf(c) /\ l \in 1..lines
      /\ \A d \in 1..c : (d - 1) % nparsers = w => LinesOf(d) \subseteq ToSet(LinesWith(w))
  BY <1>1, DealtLines
<1>3. WholeChunks \in Nat /\ c \in Nat \ {0} /\ TypeOK
  BY <1>2, WholeChunkLines DEF ReadingInv
<1>4. c \notin Parsed
  <2> SUFFICES ASSUME NEW v \in Worker, LinesOf(c) \subseteq ToSet(records[v])
               PROVE  FALSE
    BY DEF Parsed
  <2>1. v = w
    BY <1>2, ParsedByItsWorker
  <2>2. l < l
    BY <1>1, <1>2, <2>1
  <2>3. QED
    BY <1>2, <2>2
<1>5. state[w] # "died" => c \notin LostChunks
  BY <1>2 DEF LostChunks, Lost
<1>6. ASSUME NEW d \in 1..WholeChunks, c \in Reading!Following(d), d # c
      PROVE  d \in Parsed
  <2>1. d < c /\ c % nparsers = d % nparsers /\ d \in Nat \ {0} /\ d \in 1..c
    BY <1>3, <1>6 DEF Reading!Following
  <2>2. (d - 1) % nparsers = w
    BY <1>2, <1>3, <2>1, SameWorker
  <2>3. ASSUME NEW x \in LinesOf(d)
        PROVE  x \in ToSet(records[w])
    <3>1. x \in 1..lines /\ x <= d * MAX_BUFFER_CHUNKS
      BY <1>3, <2>3, WholeChunkLines
    <3>2. (c - 1) * MAX_BUFFER_CHUNKS < l
      BY <1>2, <1>3, WholeChunkLines
    <3>3. d * MAX_BUFFER_CHUNKS <= (c - 1) * MAX_BUFFER_CHUNKS
      <4>1. d \in Nat /\ c - 1 \in Nat /\ d <= c - 1 /\ MAX_BUFFER_CHUNKS \in Nat
        BY <1>3, <2>1, ReaderAssumption
      <4>2. QED
        BY <4>1, TimesMonotone
    <3>4. x < l
      <4>1. d * MAX_BUFFER_CHUNKS \in Nat /\ (c - 1) * MAX_BUFFER_CHUNKS \in Nat
        BY <1>3, <2>1, ReaderAssumption
      <4>2. QED
        BY <1>2, <3>1, <3>2, <3>3, <4>1
    <3>5. x \in ToSet(LinesWith(w))
      BY <1>2, <2>1, <2>2, <2>3
    <3>6. QED
      BY <1>1, <3>4, <3>5
  <2>4. QED
    BY <2>3 DEF Parsed
<1>7. ASSUME NEW x \in LinesOf(c), x < l
      PROVE  x \in ToSet(records[w])
  <2>1. x \in ToSet(LinesWith(w))
    BY <1>2, <1>3, <1>7
  <2>2. QED
    BY <1>1, <1>7, <2>1
<1>8. QED
  BY <1>2, <1>4, <1>5, <1>6, <1>7

LEMMA ParseLineImplements ==
  ASSUME ReadingInv, NEW w \in Worker, ParseLine(w)
  PROVE  [Reading!ANext]_(Reading!avars)
<1> DEFINE m == MAX_BUFFER_CHUNKS
<1>0. PICK l, c : l = Head(lines_set[w]) /\ c = ChunkOf(l)
  OBVIOUS
<1>1. /\ lines_set[w] # <<>> /\ l \notin bad
      /\ ToSet(records'[w]) = ToSet(records[w]) \cup {l}
      /\ \A v \in Worker : v # w => /\ records'[v] = records[v]
                                   /\ lines_set'[v] = lines_set[v]
                                   /\ state'[v] = state[v]
  BY <1>0, ParseFacts
<1>2. state[w] # "died" /\ state'[w] # "died" /\ UNCHANGED <<lines, bad, returned>>
  BY DEF ParseLine, ReadingInv, TypeOK
<1>3. /\ c \in 1..WholeChunks /\ (c - 1) % nparsers = w /\ l \in LinesOf(c) /\ l \in 1..lines
      /\ c \notin Parsed /\ c \notin LostChunks
      /\ \A d \in 1..WholeChunks : c \in Reading!Following(d) /\ d # c => d \in Parsed
      /\ \A x \in LinesOf(c) : x < l => x \in ToSet(records[w])
  BY <1>0, <1>1, <1>2, ChunkAtHand
<1>4. /\ c * m \in LinesOf(c)
      /\ \A x \in LinesOf(c) : x \in 1..lines /\ x <= c * m
      /\ \A d \in 1..WholeChunks : l \in LinesOf(d) => d = c
  BY <1>0, <1>3, WholeChunkLines DEF ReadingInv
<1>5. LostChunks' = LostChunks
  <2>1. \A v \in Worker : Lost(v)' = Lost(v)
    <3> SUFFICES ASSUME NEW v \in Worker
                 PROVE  Lost(v)' = Lost(v)
      OBVIOUS
    <3>1. CASE v = w
      BY <1>2, <3>1 DEF Lost
    <3>2. CASE v # w
      BY <1>1, <1>2, <3>2 DEF Lost, WholeChunks, ChunkOf
    <3>3. QED
      BY <3>1, <3>2
  <2>2. QED
    BY <2>1 DEF LostChunks
<1>6. Deadly' = Deadly /\ WholeChunks' = WholeChunks
  BY <1>2 DEF Deadly, Bad, WholeChunks, LinesOf, ChunkOf
<1>7. Parsed' = {d \in 1..WholeChunks : \E v \in Worker : LinesOf(d) \subseteq ToSet(records'[v])}
  BY <1>6 DEF Parsed, LinesOf, ChunkOf
<1>8. Parsed \subseteq Parsed'
  <2>1. \A v \in Worker : ToSet(records[v]) \subseteq ToSet(records'[v])
    BY <1>1
  <2>2. QED
    BY <1>7, <2>1 DEF Parsed
<1>9. \A d \in Parsed' : d \in Parsed \/ (d = c /\ LinesOf(c) \subseteq ToSet(records[w]) \cup {l})
  <2> SUFFICES ASSUME NEW d \in 1..WholeChunks, NEW v \in Worker,
                      LinesOf(d) \subseteq ToSet(records'[v])
               PROVE  d \in Parsed \/ (d = c /\ LinesOf(c) \subseteq ToSet(records[w]) \cup {l})
    BY <1>7
  <2>1. CASE v # w
    BY <1>1, <2>1 DEF Parsed
  <2>2. CASE v = w /\ l \in LinesOf(d)
    BY <1>1, <1>4, <2>2
  <2>3. CASE v = w /\ l \notin LinesOf(d)
    <3>1. LinesOf(d) \subseteq ToSet(records[w])
      BY <1>1, <2>3
    <3>2. QED
      BY <3>1 DEF Parsed
  <2>4. QED
    BY <2>1, <2>2, <2>3
<1>10. CASE l = c * m
  <2>1. \A x \in LinesOf(c) : x = l \/ x \in ToSet(records[w])
    <3>1. \A x \in LinesOf(c) : x < l \/ x = l
      <4>1. \A x \in LinesOf(c) : x \in Int /\ x <= l
        BY <1>4, <1>10
      <4>2. QED
        BY <1>3, <4>1
    <3>2. QED
      BY <1>3, <3>1
  <2>2. c \in Parsed'
    <3>1. LinesOf(c) \subseteq ToSet(records'[w])
      BY <1>1, <2>1
    <3>2. QED
      BY <1>3, <1>7, <3>1
  <2>3. Parsed' = Parsed \cup {c}
    BY <1>8, <1>9, <2>2
  <2>4. c \notin Deadly
    <3>1. \A x \in ToSet(records[w]) : x \notin bad
      BY DEF ReadingInv, WorkersInv
    <3>2. QED
      BY <1>1, <2>1, <3>1 DEF Deadly, Bad
  <2>5. Reading!ParseChunk(c)
    BY <1>2, <1>3, <1>5, <1>6, <2>3, <2>4
       DEF Reading!ParseChunk, Reading!Turn, Parsed, Deadly, LostChunks
  <2>6. QED
    BY <1>3, <2>5 DEF Reading!ANext
<1>11. CASE l # c * m
  <2>1. ~(LinesOf(c) \subseteq ToSet(records[w]) \cup {l})
    <3> SUFFICES ASSUME c * m \in ToSet(records[w])
                 PROVE  FALSE
      BY <1>4, <1>11
    <3>1. c * m < l
      BY <1>0, <1>1, LineAtHand, RecordsAreDealt
    <3> DEFINE k == c * m
    <3>2. k \in 1..lines /\ l <= k /\ l \in 1..lines
      BY <1>3, <1>4
    <3> HIDE DEF k
    <3>3. k < l
      BY <3>1 DEF k
    <3>4. QED
      BY <3>2, <3>3
  <2>2. Parsed' = Parsed
    BY <1>8, <1>9, <2>1
  <2>3. UNCHANGED Reading!avars
    BY <1>2, <1>5, <1>6, <2>2 DEF Reading!avars, Parsed, Deadly, LostChunks
  <2>4. QED
    BY <2>3
<1>12. QED
  BY <1>10, <1>11

LEMMA DieImplements ==
  ASSUME ReadingInv, NEW w \in Worker, Die(w)
  PROVE  [Reading!ANext]_(Reading!avars)
<1>0. PICK l, c : l = Head(lines_set[w]) /\ c = ChunkOf(l)
  OBVIOUS
<1>1. /\ l \in bad /\ lines_set[w] # <<>> /\ state[w] # "died" /\ state'[w] = "died"
      /\ \A v \in Worker : v # w => state'[v] = state[v]
      /\ UNCHANGED <<lines, bad, lines_set, records, returned>>
  BY <1>0 DEF Die, ReadingInv, TypeOK, WorkersInv
<1>2. /\ c \in 1..WholeChunks /\ (c - 1) % nparsers = w /\ l \in LinesOf(c)
      /\ c \notin LostChunks
      /\ \A d \in 1..WholeChunks : c \in Reading!Following(d) /\ d # c => d \in Parsed
  BY <1>0, <1>1, ChunkAtHand
<1>3. c \in Deadly
  BY <1>1, <1>2 DEF Deadly, Bad
<1>4. Deadly' = Deadly /\ WholeChunks' = WholeChunks /\ Parsed' = Parsed
  BY <1>1 DEF Deadly, Bad, WholeChunks, LinesOf, ChunkOf, Parsed
<1>5. LostChunks' = LostChunks \cup Reading!Following(c)
  <2>1. Lost(w) = {}
    BY <1>1 DEF Lost
  <2>2. Lost(w)' = {d \in 1..WholeChunks : (d - 1) % nparsers = w /\ d >= c}
    BY <1>0, <1>1 DEF Lost, WholeChunks, ChunkOf
  <2>3. Lost(w)' = Reading!Following(c)
    <3>1. \A d \in 1..WholeChunks : (d - 1) % nparsers = w <=> d % nparsers = c % nparsers
      <4>1. \A d \in 1..WholeChunks : d \in Nat \ {0}
        BY WholeChunkLines, <1>2 DEF ReadingInv
      <4>2. QED
        BY <1>2, <4>1, SameWorker
    <3>2. QED
      BY <2>2, <3>1 DEF Reading!Following
  <2>4. \A v \in Worker : v # w => Lost(v)' = Lost(v)
    BY <1>1 DEF Lost, WholeChunks, ChunkOf
  <2>5. LostChunks' = UNION {Lost(v)' : v \in Worker}
    BY DEF LostChunks, Worker
  <2>6. QED
    BY <2>1, <2>3, <2>4, <2>5 DEF LostChunks
<1>6. Reading!LoseChunks(c)
  BY <1>1, <1>2, <1>3, <1>4, <1>5
     DEF Reading!LoseChunks, Reading!Turn, Parsed, Deadly, LostChunks
<1>7. QED
  BY <1>2, <1>6 DEF Reading!ANext

(* When every process is over, every chunk was parsed or is lost.            *)
LEMMA JoinImplements ==
  ASSUME ReadingInv, Join
  PROVE  [Reading!ANext]_(Reading!avars)
<1> DEFINE m == MAX_BUFFER_CHUNKS
           n == Len(lines_buffer)
           W == WholeChunks
<1>1. /\ ~returned /\ told = nparsers /\ returned' = TRUE
      /\ \A w \in Worker : state[w] \in {"ended", "died"}
      /\ UNCHANGED <<lines, bad, next_line, lines_buffer, raw_pipe, lines_set, state, records>>
  BY DEF Join, reader, worker
<1>2. /\ TypeOK /\ m \in Nat \ {0} /\ lines \in Nat /\ n \in Nat /\ next_line \in 1..(lines + 1)
      /\ next_line > lines /\ n < m
  BY <1>1, ReaderAssumption, LenProperties
     DEF ReadingInv, TypeOK, ReaderInv, EndOfTrace
<1>3. PICK s \in Nat : next_line - 1 = s * m + n
  BY DEF ReadingInv, ReaderInv
<1>4. \A c \in 1..W : W \in Nat /\ c * m <= s * m /\ c \in Nat \ {0}
  <2> SUFFICES ASSUME NEW c \in 1..W
               PROVE  W \in Nat /\ c * m <= s * m /\ c \in Nat \ {0}
    OBVIOUS
  <2>1. W \in Nat /\ c * m \in LinesOf(c) /\ \A l \in LinesOf(c) : l \in 1..lines
    BY <1>2, WholeChunkLines
  <2> HIDE DEF m, n, W
  <2>2. c \in Nat \ {0} /\ c * m <= lines /\ c * m \in Nat
    BY <2>1
  <2>3. lines = s * m + n /\ (s + 1) * m = s * m + m /\ s * m \in Nat
    BY <1>2, <1>3
  <2>4. c * m < (s + 1) * m
    BY <1>2, <2>2, <2>3
  <2>5. c < s + 1
    BY <1>2, <2>2, <2>4, TimesLess
  <2>6. c <= s
    BY <2>2, <2>5
  <2>7. QED
    BY <1>2, <2>1, <2>2, <2>6, TimesMonotone
<1>5. ASSUME NEW c \in 1..W
      PROVE  c \in Parsed \cup LostChunks
  <2>0. PICK w \in Worker : w = (c - 1) % nparsers
    <3>1. c - 1 \in Nat
      BY <1>4
    <3>2. QED
      BY <3>1, NextTurn
  <2>1. CASE state[w] = "ended"
    <3>1. raw_pipe[w] = <<>> /\ lines_set[w] = <<>>
      BY <2>1 DEF ReadingInv, EndInv, WorkersInv
    <3>2. LinesWith(w) = records[w]
      <4> DEFINE S == 1..lines
                 r == records[w]
      <4>1. r \in Seq(S)
        BY <1>2, PipeTypes
      <4> HIDE DEF r, S
      <4>2. r \o <<>> = r
        BY <4>1, ConcatEmptySeq
      <4>3. FlattenSeq(<<>>) = <<>>
        BY FlattenSeqDef, EmptySeq
      <4>4. QED
        BY <3>1, <4>2, <4>3 DEF LinesWith, r
    <3>3. ToSet(LinesWith(w)) = {x \in 1..(next_line - 1) : x + n < next_line
                                                          /\ (ChunkOf(x) - 1) % nparsers = w}
      BY DEF ReadingInv, ChunksAreDealtInTurn
    <3>4. ASSUME NEW x \in LinesOf(c)
          PROVE  x \in ToSet(LinesWith(w))
      <4>1. x \in 1..lines /\ ChunkOf(x) = c /\ x <= c * m
        BY <1>2, WholeChunkLines
      <4>2. c * m <= s * m /\ c * m \in Nat /\ s * m \in Nat
        BY <1>2, <1>4
      <4> HIDE DEF m, n
      <4>3. x \in 1..(next_line - 1) /\ x + n < next_line
        BY <1>2, <1>3, <4>1, <4>2
      <4>4. QED
        BY <2>0, <3>3, <4>1, <4>3
    <3>5. QED
      BY <3>2, <3>4 DEF Parsed
  <2>2. CASE state[w] = "died"
    <3>0. PICK l, d : l = Head(lines_set[w]) /\ d = ChunkOf(l)
      OBVIOUS
    <3>1. lines_set[w] # <<>>
      BY <2>2 DEF ReadingInv, WorkersInv
    <3>2. /\ d \in 1..WholeChunks /\ (d - 1) % nparsers = w
          /\ \A e \in 1..WholeChunks : d \in Reading!Following(e) /\ e # d => e \in Parsed
      BY <3>0, <3>1, ChunkAtHand
    <3>3. c \in Nat \ {0} /\ d \in Nat \ {0}
      BY <1>4, <3>2
    <3>4. CASE c >= d
      <4>1. c \in Lost(w)
        BY <2>0, <2>2, <3>0, <3>4 DEF Lost
      <4>2. QED
        BY <4>1 DEF LostChunks
    <3>5. CASE d > c
      <4>1. d % nparsers = c % nparsers
        BY <2>0, <3>2, <3>3, SameWorker
      <4>2. d \in Reading!Following(c)
        BY <3>2, <3>3, <3>5, <4>1 DEF Reading!Following
      <4>3. QED
        BY <3>2, <3>3, <3>5, <4>2
    <3>6. QED
      BY <3>3, <3>4, <3>5
  <2>3. QED
    BY <1>1, <2>1, <2>2
<1>6. Parsed \cup LostChunks \subseteq 1..W
  BY DEF Parsed, LostChunks, Lost
<1>7. Parsed \cup LostChunks = 1..W
  BY <1>5, <1>6
<1>8. UNCHANGED <<WholeChunks, Deadly, Parsed, LostChunks>>
  BY <1>1 DEF WholeChunks, Deadly, Bad, LinesOf, ChunkOf, Parsed, LostChunks, Lost
<1>9. Reading!Finish
  BY <1>1, <1>7, <1>8 DEF Reading!Finish, Parsed, Deadly, LostChunks
<1>10. QED
  BY <1>9 DEF Reading!ANext

(* The other steps change nothing the caller of parse() could see.           *)
LEMMA OtherStepsStutter ==
  ASSUME ReadingInv,
         Reader \/ (\E w \in Worker : Receive(w)) \/ UNCHANGED vars
  PROVE  UNCHANGED Reading!avars
<1>1. UNCHANGED <<lines, bad, records, returned>>
  BY DEF Reader, ReadLine, SendChunk, SendNone, Receive, vars, worker
<1>2. \A v \in Worker : Lost(v)' = Lost(v)
  <2> SUFFICES ASSUME NEW v \in Worker
               PROVE  Lost(v)' = Lost(v)
    OBVIOUS
  <2>1. CASE UNCHANGED <<lines_set, state>>
    BY <1>1, <2>1 DEF Lost, WholeChunks, ChunkOf
  <2>2. ASSUME NEW w \in Worker, Receive(w)
        PROVE  Lost(v)' = Lost(v)
    <3>1. /\ state[w] = "recv" /\ state'[w] # "died"
          /\ v # w => state'[v] = state[v] /\ lines_set'[v] = lines_set[v]
      BY <2>2 DEF Receive, ReadingInv, TypeOK
    <3>2. QED
      BY <1>1, <3>1 DEF Lost, WholeChunks, ChunkOf
  <2>3. QED
    BY <2>1, <2>2 DEF Reader, ReadLine, SendChunk, SendNone, vars, worker
<1>3. LostChunks' = LostChunks
  BY <1>2 DEF LostChunks
<1>4. UNCHANGED <<WholeChunks, Deadly, Parsed>>
  BY <1>1 DEF WholeChunks, Deadly, Bad, LinesOf, ChunkOf, Parsed
<1>5. QED
  BY <1>1, <1>3, <1>4 DEF Reading!avars, Parsed, Deadly, LostChunks

LEMMA InitImplements == Init => Reading!AInit
<1> SUFFICES ASSUME Init
             PROVE  Reading!AInit
  OBVIOUS
<1>1. ReadingInv
  BY InitReading
<1>2. WholeChunks \in Nat
  <2>1. lines \in Nat
    BY <1>1, ReaderAssumption DEF ReadingInv, TypeOK
  <2> DEFINE m == MAX_BUFFER_CHUNKS
  <2>2. m \in Nat \ {0}
    BY ReaderAssumption
  <2> HIDE DEF m
  <2>3. lines \div m \in Nat
    BY <2>1, <2>2
  <2>4. QED
    BY <2>3 DEF WholeChunks, m
<1>3. Parsed = {}
  <2>1. \A w \in Worker : ToSet(records[w]) = {}
    BY DEF Init, ToSet
  <2>2. \A c \in 1..WholeChunks : LinesOf(c) # {}
    BY <1>1, WholeChunkLines DEF ReadingInv
  <2>3. QED
    BY <2>1, <2>2 DEF Parsed
<1>4. LostChunks = {}
  BY DEF LostChunks, Lost, Init
<1>5. Deadly \subseteq 1..WholeChunks
  BY DEF Deadly
<1>6. QED
  BY <1>2, <1>3, <1>4, <1>5 DEF Reading!AInit, Init, Parsed, Deadly, LostChunks

LEMMA StepImplements == ReadingInv /\ [Next]_vars => [Reading!ANext]_(Reading!avars)
<1> SUFFICES ASSUME ReadingInv, [Next]_vars
             PROVE  [Reading!ANext]_(Reading!avars)
  OBVIOUS
<1>1. CASE Reader \/ (\E w \in Worker : Receive(w)) \/ UNCHANGED vars
  BY <1>1, OtherStepsStutter
<1>2. ASSUME NEW w \in Worker, ParseLine(w)
      PROVE  [Reading!ANext]_(Reading!avars)
  BY <1>2, ParseLineImplements
<1>3. ASSUME NEW w \in Worker, Die(w)
      PROVE  [Reading!ANext]_(Reading!avars)
  BY <1>3, DieImplements
<1>4. CASE Join
  BY <1>4, JoinImplements
<1>5. QED
  BY <1>1, <1>2, <1>3, <1>4 DEF Next, Work

(* The processes together do what TraceReading promises: every chunk is      *)
(* parsed once and in its worker's turn, or lost with a worker that died at  *)
(* it or before it, and parse() returns only when nothing is left.           *)
THEOREM ReadingImplemented == Spec => ImplementsTraceReading
<1>1. QED
  BY InitImplements, StepImplements, ReadingInvariant, PTL
     DEF Spec, ImplementsTraceReading, Reading!ASpec
=============================================================================
