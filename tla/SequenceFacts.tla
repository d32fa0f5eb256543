---------------------------- MODULE SequenceFacts ----------------------------
(* Facts about natural numbers, sequences and sums that the proofs of        *)
(* several modules need.                                                     *)
EXTENDS Integers, Sequences, SequencesExt, SequenceTheorems, FiniteSetTheorems,
        WellFoundedInduction, TLAPS

(* Induction over a set of natural numbers: of the numbers outside of it     *)
(* none is the least, so there is none.                                      *)
LEMMA SetInduction ==
  ASSUME NEW T, 0 \in T, \A n \in Nat : n \in T => n + 1 \in T
  PROVE  \A n \in Nat : n \in T
<1> DEFINE C == Nat \ T
           R == {p \in Nat \X Nat : p[1] < p[2]}
<1>1. IsWellFoundedOn(R, Nat)
  <2>1. IsWellFoundedOn({p \in Nat \X Nat : p[1] < p[2]}, Nat)
    BY NatLessThanWellFounded, Zenon DEF OpToRel
  <2>2. QED
    BY <2>1
<1>2. SUFFICES ASSUME C # {}
               PROVE  FALSE
  OBVIOUS
<1>3. PICK x \in C : \A y \in C : ~(<<y, x>> \in R)
  <2>1. C \subseteq Nat
    OBVIOUS
  <2> HIDE DEF R, C
  <2>2. QED
    BY <1>1, <1>2, <2>1, WFMin
<1>4. x \in Nat /\ x # 0 /\ x - 1 \in Nat /\ x - 1 < x /\ x \notin T
  BY <1>3
<1>5. x - 1 \notin C
  BY <1>3, <1>4
<1>6. x - 1 \in T
  BY <1>4, <1>5
<1>7. QED
  BY <1>4, <1>6

-----------------------------------------------------------------------------
(* FlattenSeq is defined by recursion over the positions of a sequence of    *)
(* sequences; the function exists and is determined by the sequence.         *)
Flattens(f, q, n) == f = [i \in 1..n |-> IF i = 1 THEN q[i] ELSE f[i - 1] \o q[i]]

LEMMA FlattensAt ==
  ASSUME NEW f, NEW q, NEW n, Flattens(f, q, n), NEW i \in 1..n
  PROVE  f[i] = IF i = 1 THEN q[i] ELSE f[i - 1] \o q[i]
<1> DEFINE g == [k \in 1..n |-> IF k = 1 THEN q[k] ELSE f[k - 1] \o q[k]]
<1>1. f = g
  BY DEF Flattens
<1>2. g[i] = IF i = 1 THEN q[i] ELSE f[i - 1] \o q[i]
  OBVIOUS
<1> HIDE DEF g
<1>3. QED
  BY <1>1, <1>2

LEMMA FlattensExists ==
  ASSUME NEW q, NEW n \in Nat
  PROVE  \E f : Flattens(f, q, n)
<1> DEFINE T == {m \in Nat : \E f : Flattens(f, q, m)}
<1>1. 0 \in T
  <2>1. Flattens(<<>>, q, 0)
    BY DEF Flattens
  <2>2. QED
    BY <2>1
<1>2. ASSUME NEW m \in Nat, m \in T
      PROVE  m + 1 \in T
  <2>1. PICK f : Flattens(f, q, m)
    BY <1>2
  <2> DEFINE new == IF m + 1 = 1 THEN q[m + 1] ELSE f[m] \o q[m + 1]
             g   == [i \in 1..(m + 1) |-> IF i = m + 1 THEN new ELSE f[i]]
  <2>2. ASSUME NEW i \in 1..(m + 1)
        PROVE  g[i] = IF i = 1 THEN q[i] ELSE g[i - 1] \o q[i]
    <3>1. CASE i = m + 1
      <4>1. i = 1 \/ g[i - 1] = f[m]
        BY <3>1
      <4>2. QED
        BY <3>1, <4>1
    <3>2. CASE i # m + 1
      <4>1. i \in 1..m /\ (i = 1 \/ i - 1 \in 1..m) /\ i - 1 # m + 1
        BY <3>2
      <4>2. f[i] = IF i = 1 THEN q[i] ELSE f[i - 1] \o q[i]
        BY <2>1, <4>1, FlattensAt
      <4>3. g[i] = f[i] /\ (i = 1 \/ g[i - 1] = f[i - 1])
        BY <4>1
      <4> HIDE DEF g
      <4>4. QED
        BY <4>2, <4>3
    <3>3. QED
      BY <3>1, <3>2
  <2>3. g = [i \in 1..(m + 1) |-> g[i]]
    OBVIOUS
  <2> HIDE DEF g
  <2>4. Flattens(g, q, m + 1)
    BY <2>2, <2>3 DEF Flattens
  <2>5. QED
    BY <2>4
<1>3. n \in T
  <2> HIDE DEF T
  <2>1. QED
    BY <1>1, <1>2, SetInduction
<1>4. QED
  BY <1>3

(* Two of them agree where their sequences do.                               *)
LEMMA FlattensAgree ==
  ASSUME NEW q, NEW p, NEW n \in Nat, NEW m \in Nat, NEW f, NEW g,
         Flattens(f, q, n), Flattens(g, p, m), m <= n,
         \A i \in 1..m : q[i] = p[i]
  PROVE  \A i \in 1..m : f[i] = g[i]
<1> DEFINE T == {j \in Nat : j \in 1..m => f[j] = g[j]}
<1>1. 0 \in T
  OBVIOUS
<1>2. ASSUME NEW j \in Nat, j \in T
      PROVE  j + 1 \in T
  <2> SUFFICES ASSUME j + 1 \in 1..m
               PROVE  f[j + 1] = g[j + 1]
    OBVIOUS
  <2>1. /\ f[j + 1] = IF j + 1 = 1 THEN q[j + 1] ELSE f[j + 1 - 1] \o q[j + 1]
        /\ g[j + 1] = IF j + 1 = 1 THEN p[j + 1] ELSE g[j + 1 - 1] \o p[j + 1]
    <3>1. j + 1 \in 1..n /\ j + 1 \in 1..m
      OBVIOUS
    <3>2. QED
      BY <3>1, FlattensAt
  <2>2. j + 1 = 1 \/ (j \in 1..m /\ f[j + 1 - 1] = f[j] /\ g[j + 1 - 1] = g[j] /\ f[j] = g[j])
    BY <1>2
  <2>3. q[j + 1] = p[j + 1]
    OBVIOUS
  <2>4. QED
    BY <2>1, <2>2, <2>3
<1>3. \A j \in Nat : j \in T
  <2> HIDE DEF T
  <2>1. QED
    BY <1>1, <1>2, SetInduction
<1>4. QED
  BY <1>3

LEMMA FlattenSeqDef ==
  ASSUME NEW q, Len(q) \in Nat
  PROVE  /\ Len(q) = 0 => FlattenSeq(q) = q
         /\ Len(q) # 0 => \E f : Flattens(f, q, Len(q)) /\ FlattenSeq(q) = f[Len(q)]
<1>1. Len(q) = 0 => FlattenSeq(q) = q
  BY DEF FlattenSeq
<1>2. ASSUME Len(q) # 0
      PROVE  \E f : Flattens(f, q, Len(q)) /\ FlattenSeq(q) = f[Len(q)]
  <2> DEFINE h == CHOOSE f : f = [i \in 1..Len(q) |-> IF i = 1 THEN q[i] ELSE f[i - 1] \o q[i]]
  <2>1. FlattenSeq(q) = h[Len(q)]
    BY <1>2, Zenon DEF FlattenSeq
  <2>2. \E f : f = [i \in 1..Len(q) |-> IF i = 1 THEN q[i] ELSE f[i - 1] \o q[i]]
    BY FlattensExists DEF Flattens
  <2>3. Flattens(h, q, Len(q))
    BY <2>2, Zenon DEF Flattens
  <2>4. QED
    BY <2>1, <2>3
<1>3. QED
  BY <1>1, <1>2

LEMMA FlattensLast ==
  ASSUME NEW f, NEW q, NEW n \in Nat, n > 1, Flattens(f, q, n)
  PROVE  f[n] = f[n - 1] \o q[n]
<1>1. PICK i \in 1..n : i = n /\ i # 1
  OBVIOUS
<1>2. f[i] = IF i = 1 THEN q[i] ELSE f[i - 1] \o q[i]
  BY FlattensAt
<1>3. QED
  BY <1>1, <1>2

(* Flattening a sequence one element longer.                                 *)
LEMMA FlattenLonger ==
  ASSUME NEW q, NEW r, NEW n \in Nat \ {0}, Len(q) = n, Len(r) = n + 1,
         \A i \in 1..n : r[i] = q[i]
  PROVE  FlattenSeq(r) = FlattenSeq(q) \o r[n + 1]
<1>1. PICK f : Flattens(f, r, n + 1) /\ FlattenSeq(r) = f[n + 1]
  BY FlattenSeqDef
<1>2. PICK g : Flattens(g, q, n) /\ FlattenSeq(q) = g[n]
  BY FlattenSeqDef
<1>3. f[n] = g[n]
  <2>1. \A i \in 1..n : f[i] = g[i]
    BY <1>1, <1>2, FlattensAgree
  <2>2. QED
    BY <2>1
<1>4. f[n + 1] = f[n] \o r[n + 1]
  <2> DEFINE k == n + 1
  <2>1. k \in Nat /\ k > 1 /\ k - 1 = n
    OBVIOUS
  <2>2. Flattens(f, r, k)
    BY <1>1
  <2> HIDE DEF k
  <2>3. f[k] = f[k - 1] \o r[k]
    BY <2>1, <2>2, FlattensLast
  <2>4. QED
    BY <2>1, <2>3 DEF k
<1>5. QED
  BY <1>1, <1>2, <1>3, <1>4

LEMMA FlattenOne ==
  ASSUME NEW r, Len(r) = 1
  PROVE  FlattenSeq(r) = r[1]
<1>0. Len(r) \in Nat /\ Len(r) # 0
  OBVIOUS
<1>1. PICK f : Flattens(f, r, 1) /\ FlattenSeq(r) = f[1]
  BY <1>0, FlattenSeqDef
<1>2. f[1] = r[1]
  BY <1>1, FlattensAt
<1>3. QED
  BY <1>1, <1>2

LEMMA FlattenAppend ==
  ASSUME NEW S, NEW q \in Seq(Seq(S)), NEW s \in Seq(S)
  PROVE  FlattenSeq(Append(q, s)) = FlattenSeq(q) \o s
<1> DEFINE r == Append(q, s)
           n == Len(q)
<1>1. /\ n \in Nat /\ Len(r) = n + 1
      /\ \A i \in 1..n : r[i] = q[i]
      /\ r[n + 1] = s
  BY AppendProperties, LenProperties
<1>2. CASE n = 0
  <2>1. FlattenSeq(q) = <<>>
    BY <1>2, FlattenSeqDef, EmptySeq
  <2>2. FlattenSeq(r) = s
    BY <1>1, <1>2, FlattenOne
  <2>3. <<>> \o s = s
    BY ConcatEmptySeq
  <2>4. QED
    BY <2>1, <2>2, <2>3
<1>3. CASE n # 0
  <2>1. n \in Nat \ {0}
    BY <1>1, <1>3
  <2> HIDE DEF r
  <2>2. FlattenSeq(r) = FlattenSeq(q) \o r[n + 1]
    BY <1>1, <2>1, FlattenLonger
  <2>3. QED
    BY <1>1, <2>2 DEF r
<1>4. QED
  BY <1>1, <1>2, <1>3

(* A flattened sequence of sequences over S is a sequence over S.            *)
LEMMA SplitLast ==
  ASSUME NEW A, NEW n \in Nat, NEW q \in Seq(A), Len(q) = n + 1
  PROVE  \E p \in Seq(A), s \in A : q = Append(p, s) /\ Len(p) = n
<1> DEFINE p == [i \in 1..n |-> q[i]]
           s == q[n + 1]
<1>0. \A i \in 1..(n + 1) : q[i] \in A
  BY ElementOfSeq
<1>1. p \in Seq(A) /\ Len(p) = n /\ s \in A /\ \A i \in 1..n : p[i] = q[i]
  BY <1>0
<1> HIDE DEF p
<1>2. /\ Append(p, s) \in Seq(A) /\ Len(Append(p, s)) = n + 1
      /\ \A i \in 1..n : Append(p, s)[i] = q[i]
      /\ Append(p, s)[n + 1] = q[n + 1]
  BY <1>1, AppendProperties
<1>3. \A i \in 1..(n + 1) : Append(p, s)[i] = q[i]
  <2>1. \A i \in 1..(n + 1) : i = n + 1 \/ i \in 1..n
    OBVIOUS
  <2>2. QED
    BY <1>2, <2>1
<1>4. q = Append(p, s)
  BY <1>2, <1>3, SeqEqual
<1>5. QED
  BY <1>1, <1>4

LEMMA ConcatThree ==
  ASSUME NEW S
  PROVE  \A a \in Seq(S), b \in Seq(S), c \in Seq(S) : (a \o b) \o c = a \o (b \o c)
  BY ConcatAssociative

LEMMA FlattenType ==
  ASSUME NEW S
  PROVE  \A q \in Seq(Seq(S)) : FlattenSeq(q) \in Seq(S)
<1> DEFINE T == {n \in Nat : \A q \in Seq(Seq(S)) : Len(q) = n => FlattenSeq(q) \in Seq(S)}
<1>1. 0 \in T
  <2> SUFFICES ASSUME NEW q \in Seq(Seq(S)), Len(q) = 0
               PROVE  FlattenSeq(q) \in Seq(S)
    OBVIOUS
  <2>1. q = <<>>
    BY EmptySeq
  <2>2. QED
    BY <2>1, FlattenSeqDef, EmptySeq, ZenonT(30)
<1>2. ASSUME NEW n \in Nat, n \in T
      PROVE  n + 1 \in T
  <2> SUFFICES ASSUME NEW q \in Seq(Seq(S)), Len(q) = n + 1
               PROVE  FlattenSeq(q) \in Seq(S)
    OBVIOUS
  <2>1. PICK p \in Seq(Seq(S)), s \in Seq(S) : q = Append(p, s) /\ Len(p) = n
    BY SplitLast
  <2>2. FlattenSeq(q) = FlattenSeq(p) \o s
    BY <2>1, FlattenAppend
  <2>3. FlattenSeq(p) \in Seq(S)
    BY <1>2, <2>1
  <2>4. QED
    BY <2>2, <2>3, ConcatProperties
<1>3. \A n \in Nat : n \in T
  <2> HIDE DEF T
  <2>1. QED
    BY <1>1, <1>2, SetInduction
<1>4. QED
  BY <1>3, LenProperties

(* Flattening is the first element followed by the flattened rest.           *)
LEMMA FlattenHead ==
  ASSUME NEW S
  PROVE  \A q \in Seq(Seq(S)) :
           q # <<>> => FlattenSeq(q) = Head(q) \o FlattenSeq(Tail(q))
<1> DEFINE T == {n \in Nat : \A q \in Seq(Seq(S)) :
                   Len(q) = n + 1 => FlattenSeq(q) = Head(q) \o FlattenSeq(Tail(q))}
<1>0. FlattenSeq(<<>>) = <<>>
  BY FlattenSeqDef, EmptySeq
<1>1. 0 \in T
  <2> SUFFICES ASSUME NEW q \in Seq(Seq(S)), Len(q) = 0 + 1
               PROVE  FlattenSeq(q) = Head(q) \o FlattenSeq(Tail(q))
    OBVIOUS
  <2>1. PICK p \in Seq(Seq(S)), s \in Seq(S) : q = Append(p, s) /\ Len(p) = 0
    BY SplitLast
  <2>2. p = <<>> /\ FlattenSeq(q) = FlattenSeq(p) \o s
    BY <2>1, EmptySeq, FlattenAppend
  <2>3. Head(q) = s /\ Tail(q) = <<>>
    <3>1. q # <<>> /\ Len(q) = 1 /\ q[1] = s
      BY <2>1, AppendProperties, EmptySeq
    <3>2. Tail(q) \in Seq(Seq(S)) /\ Len(Tail(q)) = 0
      BY <3>1, HeadTailProperties
    <3>3. Tail(q) = <<>>
      BY <3>2, EmptySeq
    <3>4. Head(q) = q[1]
      BY <3>1
    <3>5. QED
      BY <3>1, <3>3, <3>4
  <2>4. <<>> \o s = s /\ s \o <<>> = s
    BY ConcatEmptySeq
  <2>5. QED
    BY <1>0, <2>2, <2>3, <2>4
<1>2. ASSUME NEW n \in Nat, n \in T
      PROVE  n + 1 \in T
  <2> SUFFICES ASSUME NEW q \in Seq(Seq(S)), Len(q) = n + 1 + 1
               PROVE  FlattenSeq(q) = Head(q) \o FlattenSeq(Tail(q))
    OBVIOUS
  <2>0. n + 1 \in Nat
    OBVIOUS
  <2>1. PICK p \in Seq(Seq(S)), s \in Seq(S) : q = Append(p, s) /\ Len(p) = n + 1
    BY <2>0, SplitLast
  <2>2. FlattenSeq(q) = FlattenSeq(p) \o s /\ FlattenSeq(p) = Head(p) \o FlattenSeq(Tail(p))
    BY <1>2, <2>1, FlattenAppend
  <2>3. /\ p # <<>> /\ Head(p) = p[1] /\ Head(p) \in Seq(S)
        /\ Tail(p) \in Seq(Seq(S)) /\ Len(Tail(p)) = n
        /\ \A i \in 1..n : Tail(p)[i] = p[i + 1]
    <3>1. p # <<>>
      BY <2>1, EmptySeq
    <3>2. n + 1 - 1 = n
      OBVIOUS
    <3>3. QED
      BY <2>1, <3>1, <3>2, HeadTailProperties
  <2>4. /\ q # <<>> /\ Head(q) = q[1]
        /\ Tail(q) \in Seq(Seq(S)) /\ Len(Tail(q)) = n + 1
        /\ \A i \in 1..(n + 1) : Tail(q)[i] = q[i + 1]
    <3>1. q # <<>>
      BY <2>1, EmptySeq, SMTT(30)
    <3>2. n + 1 + 1 - 1 = n + 1
      OBVIOUS
    <3>3. QED
      BY <3>1, <3>2, HeadTailProperties
  <2>5. /\ \A i \in 1..(n + 1) : q[i] = p[i]
        /\ q[n + 1 + 1] = s
    BY <2>1, AppendProperties
  <2>6. Head(q) = Head(p)
    <3>1. 1 \in 1..(n + 1)
      OBVIOUS
    <3>2. QED
      BY <2>3, <2>4, <2>5, <3>1
  <2>7. Tail(q) = Append(Tail(p), s)
    <3>1. /\ Append(Tail(p), s) \in Seq(Seq(S)) /\ Len(Append(Tail(p), s)) = n + 1
          /\ \A i \in 1..n : Append(Tail(p), s)[i] = p[i + 1]
          /\ Append(Tail(p), s)[n + 1] = s
      BY <2>3, AppendProperties
    <3>2. \A i \in 1..n : i + 1 \in 1..(n + 1)
      OBVIOUS
    <3>3. \A i \in 1..(n + 1) : i = n + 1 \/ i \in 1..n
      OBVIOUS
    <3>4. \A i \in 1..(n + 1) : Append(Tail(p), s)[i] = Tail(q)[i]
      BY <2>4, <2>5, <3>1, <3>2, <3>3
    <3>5. QED
      BY <2>4, <3>1, <3>4, SeqEqual
  <2>8. FlattenSeq(Tail(q)) = FlattenSeq(Tail(p)) \o s
    BY <2>1, <2>3, <2>7, FlattenAppend
  <2>9. FlattenSeq(Tail(p)) \in Seq(S)
    BY <2>3, FlattenType
  <2>10. (Head(p) \o FlattenSeq(Tail(p))) \o s = Head(p) \o (FlattenSeq(Tail(p)) \o s)
    <3>1. Head(p) \in Seq(S)
      BY <2>3
    <3> DEFINE h == Head(p)
               t == FlattenSeq(Tail(p))
    <3>2. h \in Seq(S) /\ t \in Seq(S)
      BY <2>9, <3>1
    <3> HIDE DEF h, t
    <3>3. (h \o t) \o s = h \o (t \o s)
      BY <3>2, ConcatAssociative, SMTT(30)
    <3>4. QED
      BY <3>3 DEF h, t
  <2>11. QED
    BY <2>2, <2>6, <2>8, <2>10
<1>3. \A n \in Nat : n \in T
  <2> HIDE DEF T
  <2>1. QED
    BY <1>1, <1>2, SetInduction
<1>4. QED
  <2> SUFFICES ASSUME NEW q \in Seq(Seq(S)), q # <<>>
               PROVE  FlattenSeq(q) = Head(q) \o FlattenSeq(Tail(q))
    OBVIOUS
  <2>1. Len(q) - 1 \in Nat /\ Len(q) = Len(q) - 1 + 1
    <3>1. Len(q) \in Nat /\ Len(q) # 0
      BY LenProperties, EmptySeq
    <3>2. QED
      BY <3>1
  <2>2. QED
    BY <1>3, <2>1

-----------------------------------------------------------------------------
(* The elements of a sequence put together of others.                        *)
LEMMA RangeConcat ==
  ASSUME NEW S
  PROVE  \A a \in Seq(S), b \in Seq(S) : ToSet(a \o b) = ToSet(a) \cup ToSet(b)
<1> SUFFICES ASSUME NEW a \in Seq(S), NEW b \in Seq(S)
             PROVE  ToSet(a \o b) = ToSet(a) \cup ToSet(b)
  OBVIOUS
<1> DEFINE c == a \o b
<1>1. /\ c \in Seq(S) /\ Len(c) = Len(a) + Len(b)
      /\ \A i \in 1..Len(c) : c[i] = IF i <= Len(a) THEN a[i] ELSE b[i - Len(a)]
  BY ConcatProperties
<1>2. Len(a) \in Nat /\ Len(b) \in Nat
  BY LenProperties
<1>3. /\ ToSet(a) = {a[i] : i \in 1..Len(a)} /\ ToSet(b) = {b[i] : i \in 1..Len(b)}
      /\ ToSet(c) = {c[i] : i \in 1..Len(c)}
  BY <1>1, LenProperties DEF ToSet
<1> HIDE DEF c
<1>4. ASSUME NEW x \in ToSet(c)
      PROVE  x \in ToSet(a) \cup ToSet(b)
  <2>1. PICK i \in 1..Len(c) : x = c[i]
    BY <1>3, <1>4
  <2>2. c[i] = IF i <= Len(a) THEN a[i] ELSE b[i - Len(a)]
    BY <1>1
  <2>3. CASE i <= Len(a)
    <3>1. i \in 1..Len(a) /\ x = a[i]
      BY <1>1, <1>2, <2>1, <2>2, <2>3
    <3>2. QED
      BY <1>3, <3>1
  <2>4. CASE ~(i <= Len(a))
    <3>1. i - Len(a) \in 1..Len(b)
      BY <1>1, <1>2, <2>4
    <3>2. x = b[i - Len(a)]
      BY <2>1, <2>2, <2>4
    <3>3. QED
      BY <1>3, <3>1, <3>2
  <2>5. QED
    BY <2>3, <2>4
<1>5. ASSUME NEW x \in ToSet(a)
      PROVE  x \in ToSet(c)
  <2>1. PICK i \in 1..Len(a) : x = a[i]
    BY <1>3, <1>5
  <2>2. i \in 1..Len(c) /\ i <= Len(a)
    BY <1>1, <1>2
  <2>3. QED
    BY <1>1, <1>3, <2>1, <2>2
<1>6. ASSUME NEW x \in ToSet(b)
      PROVE  x \in ToSet(c)
  <2>1. PICK i \in 1..Len(b) : x = b[i]
    BY <1>3, <1>6
  <2> DEFINE j == Len(a) + i
  <2>2. j \in 1..Len(c) /\ ~(j <= Len(a)) /\ j - Len(a) = i
    BY <1>1, <1>2
  <2> HIDE DEF j
  <2>3. c[j] = b[i]
    BY <1>1, <2>2
  <2>4. QED
    BY <1>3, <2>1, <2>2, <2>3
<1>7. QED
  BY <1>4, <1>5, <1>6 DEF c

LEMMA RangeType ==
  ASSUME NEW S
  PROVE  \A a \in Seq(S) : ToSet(a) = {a[i] : i \in 1..Len(a)} /\ ToSet(a) \subseteq S
  BY LenProperties, ElementOfSeq DEF ToSet

LEMMA HeadAndRest ==
  ASSUME NEW A
  PROVE  \A q \in Seq(A) : q # <<>> => /\ Head(q) = q[1] /\ Head(q) \in A /\ Tail(q) \in Seq(A)
                                      /\ Len(q) \in Nat \ {0} /\ Len(Tail(q)) = Len(q) - 1
                                      /\ \A i \in 1..Len(Tail(q)) : Tail(q)[i] = q[i + 1]
<1> SUFFICES ASSUME NEW q \in Seq(A), q # <<>>
             PROVE  /\ Head(q) = q[1] /\ Head(q) \in A /\ Tail(q) \in Seq(A)
                    /\ Len(q) \in Nat \ {0} /\ Len(Tail(q)) = Len(q) - 1
                    /\ \A i \in 1..Len(Tail(q)) : Tail(q)[i] = q[i + 1]
  OBVIOUS
<1>1. Len(q) \in Nat /\ Len(q) # 0
  BY LenProperties, EmptySeq
<1>2. QED
  BY <1>1, HeadTailProperties

(* A sequence is its head followed by its tail, and appending an element is  *)
(* concatenating a sequence of one.                                          *)
LEMMA HeadAndTail ==
  ASSUME NEW S
  PROVE  \A a \in Seq(S) : a # <<>> => /\ Head(a) \in S /\ Tail(a) \in Seq(S)
                                      /\ <<Head(a)>> \in Seq(S)
                                      /\ a = <<Head(a)>> \o Tail(a)
<1> SUFFICES ASSUME NEW a \in Seq(S), a # <<>>
             PROVE  /\ Head(a) \in S /\ Tail(a) \in Seq(S)
                    /\ <<Head(a)>> \in Seq(S)
                    /\ a = <<Head(a)>> \o Tail(a)
  OBVIOUS
<1> DEFINE h == <<Head(a)>>
           t == Tail(a)
<1>1. /\ Head(a) \in S /\ Head(a) = a[1] /\ t \in Seq(S) /\ Len(t) = Len(a) - 1
      /\ \A i \in 1..Len(t) : t[i] = a[i + 1]
      /\ Len(a) \in Nat /\ Len(a) # 0
  BY HeadTailProperties, LenProperties, EmptySeq
<1>2. h \in Seq(S) /\ Len(h) = 1 /\ h[1] = a[1]
  BY <1>1
<1> HIDE DEF h, t
<1>3. /\ h \o t \in Seq(S) /\ Len(h \o t) = Len(a)
      /\ \A i \in 1..Len(a) : (h \o t)[i] = IF i <= 1 THEN h[i] ELSE t[i - 1]
  <2>1. /\ h \o t \in Seq(S) /\ Len(h \o t) = Len(h) + Len(t)
        /\ \A i \in 1..(Len(h) + Len(t)) :
             (h \o t)[i] = IF i <= Len(h) THEN h[i] ELSE t[i - Len(h)]
    <3>1. h \in Seq(S) /\ t \in Seq(S)
      BY <1>1, <1>2
    <3>2. QED
      BY <3>1, ConcatProperties
  <2>2. Len(h) + Len(t) = Len(a)
    BY <1>1, <1>2
  <2>3. QED
    BY <1>2, <2>1, <2>2
<1>4. \A i \in 1..Len(a) : i = 1 \/ (i - 1 \in 1..Len(t) /\ i - 1 + 1 = i /\ ~(i <= 1))
  BY <1>1
<1>5. \A i \in 1..Len(a) : (h \o t)[i] = a[i]
  BY <1>1, <1>2, <1>3, <1>4
<1>6. h \o t = a
  BY <1>3, <1>5, SeqEqual
<1>7. QED
  BY <1>1, <1>2, <1>6 DEF h, t

LEMMA AppendAsConcat ==
  ASSUME NEW S
  PROVE  \A a \in Seq(S), x \in S : Append(a, x) = a \o <<x>> /\ <<x>> \in Seq(S)
BY AppendIsConcat

-----------------------------------------------------------------------------
(* Sums of sets of numbers. *)

(* The sum of a set is defined by recursion over its subsets.                *)
Some(s)          == CHOOSE x \in s : TRUE
FoldOf(f, s)     == IF s = {} THEN 0 ELSE Some(s) + f[s \ {Some(s)}]
FoldsTo(f, dom)  == f = [s \in dom |-> FoldOf(f, s)]
Small(S, n)      == {s \in SUBSET S : Cardinality(s) <= n}

LEMMA SomeFacts ==
  ASSUME NEW s, IsFiniteSet(s), s # {}
  PROVE  /\ Some(s) \in s
         /\ IsFiniteSet(s \ {Some(s)})
         /\ Cardinality(s) \in Nat \ {0}
         /\ Cardinality(s \ {Some(s)}) = Cardinality(s) - 1
<1>1. Some(s) \in s
  BY DEF Some
<1> HIDE DEF Some
<1>2. IsFiniteSet(s \ {Some(s)}) /\ Cardinality(s \ {Some(s)}) = Cardinality(s) - 1
  BY <1>1, FS_RemoveElement
<1>3. Cardinality(s) \in Nat /\ Cardinality(s) # 0
  BY FS_CardinalityType, FS_EmptySet
<1>4. QED
  BY <1>1, <1>2, <1>3

LEMMA FoldsAt ==
  ASSUME NEW f, NEW dom, FoldsTo(f, dom), NEW s \in dom
  PROVE  f[s] = FoldOf(f, s)
<1> DEFINE g == [r \in dom |-> FoldOf(f, r)]
<1>1. f = g
  BY DEF FoldsTo
<1>2. g[s] = FoldOf(f, s)
  OBVIOUS
<1> HIDE DEF g
<1>3. QED
  BY <1>1, <1>2

LEMMA FoldsExist ==
  ASSUME NEW S, IsFiniteSet(S)
  PROVE  \E f : FoldsTo(f, SUBSET S)
<1> DEFINE T == {n \in Nat : \E f : FoldsTo(f, Small(S, n))}
<1>1. \A s \in SUBSET S : IsFiniteSet(s) /\ Cardinality(s) \in Nat /\ Cardinality(s) <= Cardinality(S)
  BY FS_Subset, FS_CardinalityType
<1>2. 0 \in T
  <2> DEFINE f == [s \in Small(S, 0) |-> 0]
  <2>1. ASSUME NEW s \in Small(S, 0)
        PROVE  FoldOf(f, s) = 0
    <3>1. s \in SUBSET S /\ Cardinality(s) <= 0
      BY DEF Small
    <3>2. s = {}
      BY <1>1, <3>1, FS_EmptySet
    <3>3. QED
      BY <3>2 DEF FoldOf
  <2>2. FoldsTo(f, Small(S, 0))
    BY <2>1 DEF FoldsTo
  <2> HIDE DEF f
  <2>3. QED
    BY <2>2
<1>3. ASSUME NEW n \in Nat, n \in T
      PROVE  n + 1 \in T
  <2>1. PICK f : FoldsTo(f, Small(S, n))
    BY <1>3
  <2> DEFINE g == [s \in Small(S, n + 1) |-> FoldOf(f, s)]
  <2>2. ASSUME NEW s \in Small(S, n)
        PROVE  s \in Small(S, n + 1) /\ g[s] = f[s]
    <3>1. s \in Small(S, n + 1)
      BY <1>1 DEF Small
    <3>2. f[s] = FoldOf(f, s)
      BY <2>1, FoldsAt
    <3>3. QED
      BY <3>1, <3>2
  <2>3. ASSUME NEW s \in Small(S, n + 1)
        PROVE  FoldOf(f, s) = FoldOf(g, s)
    <3>1. s \in SUBSET S /\ Cardinality(s) <= n + 1 /\ IsFiniteSet(s)
      BY <1>1 DEF Small
    <3>2. CASE s = {}
      BY <3>2 DEF FoldOf
    <3>3. CASE s # {}
      <4>1. s \ {Some(s)} \in Small(S, n)
        <5>1. Cardinality(s \ {Some(s)}) = Cardinality(s) - 1 /\ Cardinality(s) \in Nat \ {0}
          BY <3>1, <3>3, SomeFacts
        <5>2. QED
          BY <3>1, <5>1 DEF Small
      <4>2. g[s \ {Some(s)}] = f[s \ {Some(s)}]
        BY <2>2, <4>1
      <4> HIDE DEF g
      <4>3. QED
        BY <4>2 DEF FoldOf
    <3>4. QED
      BY <3>2, <3>3
  <2>4. g = [s \in Small(S, n + 1) |-> FoldOf(g, s)]
    BY <2>3
  <2> HIDE DEF g
  <2>5. FoldsTo(g, Small(S, n + 1))
    BY <2>4 DEF FoldsTo
  <2>6. QED
    BY <2>5
<1>4. Cardinality(S) \in T
  <2>1. Cardinality(S) \in Nat
    BY FS_CardinalityType
  <2> HIDE DEF T
  <2>2. QED
    BY <1>2, <1>3, <2>1, SetInduction
<1>5. Small(S, Cardinality(S)) = SUBSET S
  BY <1>1 DEF Small
<1>6. QED
  BY <1>4, <1>5

(* A set has one sum, also as part of another set.                           *)
LEMMA FoldsAgree ==
  ASSUME NEW R, IsFiniteSet(R), NEW f, NEW domf, FoldsTo(f, domf), SUBSET R \subseteq domf,
         NEW g, NEW domg, FoldsTo(g, domg), SUBSET R \subseteq domg
  PROVE  f[R] = g[R]
<1> DEFINE T == {n \in Nat : \A s \in Small(R, n) : f[s] = g[s]}
<1>1. \A s \in SUBSET R : IsFiniteSet(s) /\ Cardinality(s) \in Nat
  BY FS_Subset, FS_CardinalityType
<1>2. ASSUME NEW s \in SUBSET R
      PROVE  f[s] = FoldOf(f, s) /\ g[s] = FoldOf(g, s)
  BY FoldsAt
<1>3. 0 \in T
  <2>1. ASSUME NEW s \in Small(R, 0)
        PROVE  f[s] = g[s]
    <3>1. s \in SUBSET R /\ Cardinality(s) <= 0
      BY DEF Small
    <3>2. s = {}
      BY <1>1, <3>1, FS_EmptySet
    <3>3. QED
      BY <1>2, <3>1, <3>2 DEF FoldOf
  <2>2. QED
    BY <2>1
<1>4. ASSUME NEW n \in Nat, n \in T
      PROVE  n + 1 \in T
  <2>1. ASSUME NEW s \in Small(R, n + 1)
        PROVE  f[s] = g[s]
    <3>1. s \in SUBSET R /\ Cardinality(s) <= n + 1 /\ IsFiniteSet(s)
      BY <1>1 DEF Small
    <3>2. CASE s = {}
      BY <1>2, <3>1, <3>2 DEF FoldOf
    <3>3. CASE s # {}
      <4>1. s \ {Some(s)} \in Small(R, n)
        <5>1. Cardinality(s \ {Some(s)}) = Cardinality(s) - 1 /\ Cardinality(s) \in Nat \ {0}
          BY <3>1, <3>3, SomeFacts
        <5>2. QED
          BY <3>1, <5>1 DEF Small
      <4>2. f[s \ {Some(s)}] = g[s \ {Some(s)}]
        BY <1>4, <4>1
      <4>3. QED
        BY <1>2, <3>1, <4>2 DEF FoldOf
    <3>4. QED
      BY <3>2, <3>3
  <2>2. QED
    BY <2>1
<1>5. Cardinality(R) \in T
  <2>1. Cardinality(R) \in Nat
    BY FS_CardinalityType
  <2> HIDE DEF T
  <2>2. QED
    BY <1>3, <1>4, <2>1, SetInduction
<1>6. R \in Small(R, Cardinality(R))
  BY FS_CardinalityType DEF Small
<1>7. QED
  BY <1>5, <1>6

LEMMA SumSetDef ==
  ASSUME NEW S, IsFiniteSet(S)
  PROVE  \E f : FoldsTo(f, SUBSET S) /\ SumSet(S) = f[S]
<1> DEFINE f == CHOOSE g : g = [s \in SUBSET S |->
                  IF s = {} THEN 0 ELSE (CHOOSE x \in s : TRUE) + g[s \ {CHOOSE x \in s : TRUE}]]
<1>1. SumSet(S) = f[S]
  BY Zenon DEF SumSet, FoldSet, MapThenFoldSet
<1>2. FoldsTo(f, SUBSET S)
  <2>1. \E g : g = [s \in SUBSET S |->
                  IF s = {} THEN 0 ELSE (CHOOSE x \in s : TRUE) + g[s \ {CHOOSE x \in s : TRUE}]]
    BY FoldsExist DEF FoldsTo, FoldOf, Some
  <2>2. QED
    BY <2>1, Zenon DEF FoldsTo, FoldOf, Some
<1>3. QED
  BY <1>1, <1>2

LEMMA SumOfSubset ==
  ASSUME NEW S, IsFiniteSet(S), NEW f, FoldsTo(f, SUBSET S), NEW R \in SUBSET S
  PROVE  f[R] = SumSet(R)
<1>1. IsFiniteSet(R) /\ SUBSET R \subseteq SUBSET S
  BY FS_Subset
<1>2. PICK g : FoldsTo(g, SUBSET R) /\ SumSet(R) = g[R]
  BY <1>1, SumSetDef
<1>3. QED
  BY <1>1, <1>2, FoldsAgree

LEMMA SumSetStep ==
  ASSUME NEW S, IsFiniteSet(S)
  PROVE  SumSet(S) = IF S = {} THEN 0 ELSE Some(S) + SumSet(S \ {Some(S)})
<1>1. PICK f : FoldsTo(f, SUBSET S) /\ SumSet(S) = f[S]
  BY SumSetDef
<1>2. f[S] = FoldOf(f, S)
  BY <1>1, FoldsAt
<1>3. f[S \ {Some(S)}] = SumSet(S \ {Some(S)})
  BY <1>1, SumOfSubset
<1>4. QED
  BY <1>1, <1>2, <1>3 DEF FoldOf

LEMMA SumSetEmpty == SumSet({}) = 0
<1>1. IsFiniteSet({})
  BY FS_EmptySet
<1>2. QED
  BY <1>1, SumSetStep

LEMMA SumSetNat ==
  ASSUME NEW S, IsFiniteSet(S), S \subseteq Nat
  PROVE  SumSet(S) \in Nat
<1> DEFINE T == {n \in Nat : \A R \in SUBSET S : Cardinality(R) = n => SumSet(R) \in Nat}
<1>1. \A R \in SUBSET S : IsFiniteSet(R) /\ Cardinality(R) \in Nat
  BY FS_Subset, FS_CardinalityType
<1>2. 0 \in T
  <2>1. ASSUME NEW R \in SUBSET S, Cardinality(R) = 0
        PROVE  SumSet(R) \in Nat
    <3>1. R = {}
      BY <1>1, <2>1, FS_EmptySet
    <3>2. QED
      BY <3>1, SumSetEmpty
  <2>2. QED
    BY <2>1
<1>3. ASSUME NEW n \in Nat, n \in T
      PROVE  n + 1 \in T
  <2>1. ASSUME NEW R \in SUBSET S, Cardinality(R) = n + 1
        PROVE  SumSet(R) \in Nat
    <3>1. R # {} /\ IsFiniteSet(R)
      BY <1>1, <2>1, FS_EmptySet
    <3> DEFINE y == Some(R)
    <3>2. /\ y \in R /\ Cardinality(R \ {y}) = Cardinality(R) - 1
          /\ SumSet(R) = y + SumSet(R \ {y})
      BY <3>1, SomeFacts, SumSetStep
    <3> HIDE DEF y
    <3>3. R \ {y} \in SUBSET S /\ Cardinality(R \ {y}) = n /\ y \in Nat
      BY <2>1, <3>2
    <3>4. SumSet(R \ {y}) \in Nat
      BY <1>3, <3>3
    <3>5. QED
      BY <3>2, <3>3, <3>4
  <2>2. QED
    BY <2>1
<1>4. Cardinality(S) \in T
  <2> HIDE DEF T
  <2>1. QED
    BY <1>1, <1>2, <1>3, SetInduction
<1>5. QED
  BY <1>4

(* Whatever element is taken out first.                                      *)
LEMMA SumSetRemove ==
  ASSUME NEW S, IsFiniteSet(S), S \subseteq Nat
  PROVE  \A x \in S : SumSet(S) = SumSet(S \ {x}) + x
<1> DEFINE Removable(R) == \A x \in R : SumSet(R) = SumSet(R \ {x}) + x
           T == {n \in Nat : \A R \in SUBSET S : Cardinality(R) = n => Removable(R)}
<1>1. \A R \in SUBSET S : IsFiniteSet(R) /\ Cardinality(R) \in Nat
  BY FS_Subset, FS_CardinalityType
<1>2. \A R \in SUBSET S : SumSet(R) \in Nat
  BY <1>1, SumSetNat
<1>3. 0 \in T
  <2>1. ASSUME NEW R \in SUBSET S, Cardinality(R) = 0
        PROVE  Removable(R)
    BY <1>1, <2>1, FS_EmptySet
  <2> HIDE DEF Removable
  <2>2. QED
    BY <2>1
<1>4. ASSUME NEW n \in Nat, n \in T
      PROVE  n + 1 \in T
  <2>1. ASSUME NEW R \in SUBSET S, Cardinality(R) = n + 1
        PROVE  Removable(R)
    <3> DEFINE y == Some(R)
    <3>1. R # {} /\ IsFiniteSet(R)
      BY <1>1, <2>1, FS_EmptySet
    <3>2. y \in R /\ y \in Nat
      BY <3>1, SomeFacts
    <3>3. SumSet(R) = y + SumSet(R \ {y})
      BY <3>1, SumSetStep
    <3> HIDE DEF y
    <3>4. ASSUME NEW x \in R
          PROVE  /\ R \ {x} \in SUBSET S
                 /\ \A z \in R : z # x => SumSet(R \ {x}) = SumSet((R \ {x}) \ {z}) + z
      <4>1. Cardinality(R \ {x}) = Cardinality(R) - 1
        BY <3>1, FS_RemoveElement
      <4>2. R \ {x} \in SUBSET S /\ Cardinality(R \ {x}) = n
        BY <2>1, <4>1
      <4>3. Removable(R \ {x})
        BY <1>4, <4>2
      <4>4. QED
        BY <4>2, <4>3
    <3>5. ASSUME NEW x \in R
          PROVE  SumSet(R) = SumSet(R \ {x}) + x
      <4>1. x \in Nat /\ SumSet(R \ {x}) \in Nat
        BY <1>2, <3>4
      <4>2. CASE x = y
        BY <3>3, <4>1, <4>2
      <4>3. CASE x # y
        <5>1. SumSet(R \ {y}) = SumSet((R \ {y}) \ {x}) + x
          BY <3>2, <3>4, <4>3
        <5>2. SumSet(R \ {x}) = SumSet((R \ {x}) \ {y}) + y
          BY <3>2, <3>4, <4>3
        <5>3. (R \ {x}) \ {y} = (R \ {y}) \ {x} /\ (R \ {x}) \ {y} \in SUBSET S
          OBVIOUS
        <5>4. SumSet((R \ {x}) \ {y}) \in Nat
          BY <1>2, <5>3
        <5>5. QED
          BY <3>2, <3>3, <4>1, <5>1, <5>2, <5>3, <5>4
      <4>4. QED
        BY <4>2, <4>3
    <3>6. QED
      BY <3>5
  <2> HIDE DEF Removable
  <2>2. QED
    BY <2>1
<1>5. Cardinality(S) \in T
  <2> HIDE DEF T
  <2>1. QED
    BY <1>1, <1>3, <1>4, SetInduction
<1>6. QED
  BY <1>5
=============================================================================
