-------------------------- MODULE PseudocodeProofs --------------------------
(***************************************************************************)
(* The proof that the conditional rank blocks of a loop nest, whatever the *)
(* ranks that execute its callstacks: from the lists that the merge of the *)
(* ranks leaves, over their compaction, to the blocks that add_callstack   *)
(* opens and closes item by item.  That there is a callstack in each of    *)
(* them, so that the calls in common, those hidden and the indentation are *)
(* defined and of their types.  And the proofs about the shell, which asks *)
(* for the pseudo-code, for any thresholds and any selections.             *)
(***************************************************************************)
EXTENDS Pseudocode, Shell, SequenceFacts

-----------------------------------------------------------------------------
(* Trees of entries. *)

LoopNames == {body[f].loop : body \in Source, f \in Nat} \cup {0}

Nodes == [kind : {"loop", "crb", "call"}, parent : Nat, ranks : SUBSET Rank,
          flow : Nat, loop : LoopNames]

(* Entry c is the last of the first n in entry p.                            *)
LastIn(t, n, p, c) ==
  /\ c \in 1..n /\ t[c].parent = p
  /\ \A d \in 1..n : t[d].parent = p => d <= c

(* What BlocksNest says of an entry: of its block or loop, and of the entry  *)
(* before it there.                                                          *)
Fits(t, e) ==
  LET p == t[e].parent
  IN /\ p \in 1..(e - 1)
     /\ t[p].kind = "loop" => t[e].kind = "crb" /\ t[e].ranks = t[p].ranks
     /\ t[p].kind = "crb" => /\ t[e].ranks \subseteq t[p].ranks
                             /\ (t[e].kind = "crb") <=> (t[e].ranks # t[p].ranks)
     /\ t[e].kind = "crb" => \A b : LastIn(t, e - 1, p, b) /\ t[b].kind = "crb"
                                      => t[b].ranks # t[e].ranks

Nested(t) == /\ t \in Seq(Nodes) /\ Len(t) # 0 /\ t[1].parent = 0
             /\ \A e \in 2..Len(t) : Fits(t, e)

(* A block that holds all the others.                                        *)
IsBlock(t, R) == Nested(t) /\ t[1].kind = "crb" /\ t[1].ranks = R

(* s begins with the first n entries of t.                                   *)
Begins(s, t, n) == \A i \in 1..n : s[i] = t[i]

LEMMA LastInSame ==
  ASSUME NEW s, NEW t, NEW n, Begins(s, t, n), NEW p, NEW c
  PROVE  LastIn(s, n, p, c) <=> LastIn(t, n, p, c)
BY DEF Begins, LastIn

LEMMA FitsSame ==
  ASSUME NEW s, NEW t, NEW e \in Nat \ {0}, Begins(s, t, e), Fits(t, e)
  PROVE  Fits(s, e)
<1>1. s[e] = t[e]
  BY DEF Begins
<1>2. Begins(s, t, e - 1)
  BY DEF Begins
<1>3. \A b \in 1..(e - 1) : s[b] = t[b]
  BY <1>2 DEF Begins
<1>4. \A p, b : LastIn(s, e - 1, p, b) => LastIn(t, e - 1, p, b) /\ b \in 1..(e - 1)
  <2>1. \A p, b : LastIn(s, e - 1, p, b) <=> LastIn(t, e - 1, p, b)
    BY <1>2, LastInSame
  <2>2. QED
    BY <2>1 DEF LastIn
<1>5. QED
  BY <1>1, <1>3, <1>4 DEF Fits

LEMMA NestedLonger ==
  ASSUME NEW s \in Seq(Nodes), NEW t, Nested(t), Begins(s, t, Len(t)),
         \A e \in (Len(t) + 1)..Len(s) : Fits(s, e), Len(s) >= Len(t)
  PROVE  Nested(s)
<1>1. Len(t) \in Nat \ {0} /\ Len(s) \in Nat /\ Len(s) # 0
  BY DEF Nested
<1>2. s[1].parent = 0
  BY <1>1 DEF Nested, Begins
<1>3. ASSUME NEW e \in 2..Len(s)
      PROVE  Fits(s, e)
  <2>1. CASE e <= Len(t)
    <3>1. e \in 2..Len(t) /\ e \in Nat \ {0}
      BY <1>1, <2>1
    <3>2. Begins(s, t, e) /\ Fits(t, e)
      BY <1>1, <2>1, <3>1 DEF Begins, Nested
    <3>3. QED
      BY <3>1, <3>2, FitsSame
  <2>2. CASE e > Len(t)
    BY <1>1, <2>2
  <2>3. QED
    BY <1>1, <2>1, <2>2
<1>4. QED
  BY <1>1, <1>2, <1>3 DEF Nested

(* The parents of the entries of a tree come before them.                    *)
LEMMA ParentsBefore ==
  ASSUME NEW t, Nested(t)
  PROVE  \A e \in 1..Len(t) : t[e].parent \in Nat /\ t[e].parent < e
<1>1. SUFFICES ASSUME NEW e \in 1..Len(t)
               PROVE  t[e].parent \in Nat /\ t[e].parent < e
  OBVIOUS
<1>2. Len(t) \in Nat
  BY DEF Nested
<1>3. CASE e = 1
  BY <1>3 DEF Nested
<1>4. CASE e # 1
  <2>1. e \in 2..Len(t)
    BY <1>2, <1>4
  <2>2. t[e].parent \in 1..(e - 1)
    BY <2>1 DEF Nested, Fits
  <2>3. QED
    BY <1>2, <2>1, <2>2
<1>5. QED
  BY <1>3, <1>4

(* s has the entries of u after the first m, of which the last is the loop   *)
(* that they are the body of.                                                *)
Lifted(x, m) == [x EXCEPT !.parent = @ + m]

Holds(s, m, u) == \A i \in 1..Len(u) : s[m + i] = Lifted(u[i], m)

LEMMA BodyFits ==
  ASSUME NEW s \in Seq(Nodes), NEW m \in Nat \ {0}, NEW u, NEW R, IsBlock(u, R),
         Len(s) = m + Len(u), Holds(s, m, u),
         s[m].kind = "loop", s[m].ranks = R,
         \A e \in 1..m : s[e].parent \in Nat /\ s[e].parent < e
  PROVE  \A e \in (m + 1)..Len(s) : Fits(s, e)
<1>1. /\ Nested(u) /\ u[1].kind = "crb" /\ u[1].ranks = R /\ u[1].parent = 0
      /\ Len(u) \in Nat \ {0} /\ u \in Seq(Nodes) /\ \A i \in 1..Len(u) : u[i] \in Nodes
  BY DEF IsBlock, Nested
<1>2. \A i \in 1..Len(u) : /\ s[m + i].kind = u[i].kind /\ s[m + i].ranks = u[i].ranks
                           /\ s[m + i].parent = u[i].parent + m
                           /\ u[i].parent \in Nat /\ u[i].parent < i
  <2>1. SUFFICES ASSUME NEW i \in 1..Len(u)
                 PROVE  /\ s[m + i].kind = u[i].kind /\ s[m + i].ranks = u[i].ranks
                        /\ s[m + i].parent = u[i].parent + m
                        /\ u[i].parent \in Nat /\ u[i].parent < i
    OBVIOUS
  <2>2. s[m + i] = [u[i] EXCEPT !.parent = @ + m] /\ u[i] \in Nodes
    BY <1>1 DEF Holds, Lifted
  <2>3. u[i].parent \in Nat /\ u[i].parent < i
    BY <1>1, ParentsBefore
  <2>4. QED
    BY <2>2, <2>3 DEF Nodes
<1>3. ASSUME NEW i \in 1..Len(u)
      PROVE  Fits(s, m + i)
  <2>1. CASE i = 1
    <3>1. s[m + i].parent = m /\ s[m + i].kind = "crb" /\ s[m + i].ranks = R
      <4>1. s[m + i].kind = u[1].kind /\ s[m + i].ranks = u[1].ranks /\ s[m + i].parent = u[1].parent + m
        BY <1>2, <2>1
      <4>2. u[1].kind = "crb" /\ u[1].ranks = R /\ u[1].parent = 0
        BY <1>1
      <4>3. 0 + m = m
        OBVIOUS
      <4>4. QED
        BY <4>1, <4>2, <4>3
    <3>2. m \in 1..(m + i - 1) /\ m + i - 1 = m
      BY <2>1
    <3>3. \A b : ~LastIn(s, m, m, b)
      <4>1. \A b \in 1..m : s[b].parent # m
        OBVIOUS
      <4>2. QED
        BY <4>1 DEF LastIn
    <3>4. QED
      BY <3>1, <3>2, <3>3 DEF Fits
  <2>2. CASE i # 1
    <3> DEFINE p == u[i].parent
    <3>1. i \in 2..Len(u) /\ Fits(u, i)
      BY <1>1, <2>2 DEF Nested
    <3>2. p \in 1..(i - 1) /\ p \in 1..Len(u)
      BY <1>1, <3>1 DEF Fits
    <3>3. s[m + i].parent = m + p /\ m + p \in 1..(m + i - 1)
      BY <1>2, <3>2
    <3>4. s[m + p].kind = u[p].kind /\ s[m + p].ranks = u[p].ranks
      BY <1>2, <3>2
    <3>5. ASSUME NEW b, LastIn(s, m + i - 1, m + p, b)
          PROVE  b - m \in 1..Len(u) /\ LastIn(u, i - 1, p, b - m) /\ m + (b - m) = b
      <4>1. b \in 1..(m + i - 1) /\ s[b].parent = m + p
            /\ \A d \in 1..(m + i - 1) : s[d].parent = m + p => d <= b
        BY <3>5 DEF LastIn
      <4>2. b > m
        <5>1. b <= m => s[b].parent < m
          BY <4>1
        <5>2. QED
          BY <3>2, <4>1, <5>1
      <4>3. b - m \in 1..(i - 1) /\ b - m \in 1..Len(u) /\ m + (b - m) = b
        BY <1>1, <4>1, <4>2
      <4>4. u[b - m].parent = p
        <5>1. s[m + (b - m)].parent = u[b - m].parent + m /\ u[b - m].parent \in Nat /\ p \in Nat
          BY <1>2, <3>2, <4>3
        <5>2. u[b - m].parent + m = m + p
          BY <4>1, <4>3, <5>1
        <5> HIDE DEF p
        <5>3. QED
          BY <5>1, <5>2
      <4>5. ASSUME NEW d \in 1..(i - 1), u[d].parent = p
            PROVE  d <= b - m
        <5>1. d \in 1..Len(u) /\ m + d \in 1..(m + i - 1)
          BY <1>1
        <5>2. s[m + d].parent = m + p
          BY <1>2, <3>2, <4>5, <5>1
        <5>3. m + d <= b
          BY <4>1, <5>1, <5>2
        <5>4. QED
          BY <4>1, <5>3
      <4>6. QED
        BY <4>3, <4>4, <4>5 DEF LastIn
    <3>6. s[m + i].kind = u[i].kind /\ s[m + i].ranks = u[i].ranks
      BY <1>2
    <3>7. \A b : LastIn(u, i - 1, p, b) /\ u[b].kind = "crb" /\ u[i].kind = "crb" => u[b].ranks # u[i].ranks
      BY <3>1 DEF Fits
    <3>8. ASSUME NEW b, LastIn(s, m + i - 1, m + p, b), s[b].kind = "crb", s[m + i].kind = "crb"
          PROVE  s[b].ranks # s[m + i].ranks
      <4>1. /\ b - m \in 1..Len(u) /\ LastIn(u, i - 1, p, b - m)
            /\ s[b].kind = u[b - m].kind /\ s[b].ranks = u[b - m].ranks
        BY <1>2, <3>5, <3>8
      <4>2. QED
        BY <3>6, <3>7, <3>8, <4>1
    <3>9. /\ u[p].kind = "loop" => u[i].kind = "crb" /\ u[i].ranks = u[p].ranks
          /\ u[p].kind = "crb" => /\ u[i].ranks \subseteq u[p].ranks
                                  /\ (u[i].kind = "crb") <=> (u[i].ranks # u[p].ranks)
      BY <3>1 DEF Fits
    <3> HIDE DEF p
    <3>10. QED
      BY <3>3, <3>4, <3>6, <3>8, <3>9 DEF Fits
  <2>3. QED
    BY <2>1, <2>2
<1>4. ASSUME NEW e \in (m + 1)..Len(s)
      PROVE  Fits(s, e)
  <2>1. PICK i \in 1..Len(u) : e = m + i
    <3>1. e - m \in 1..Len(u) /\ e = m + (e - m)
      BY <1>1
    <3>2. QED
      BY <3>1
  <2>2. QED
    BY <1>3, <2>1
<1>5. QED
  BY <1>4

-----------------------------------------------------------------------------
(* Numbers and sequences. *)

LEMMA GreatestExists ==
  ASSUME NEW n \in Nat, NEW T \in SUBSET (1..n), T # {}
  PROVE  \E m \in T : \A k \in T : k <= m
<1> DEFINE I == {x \in Nat : \A S \in SUBSET (1..x) : S # {} => \E m \in S : \A k \in S : k <= m}
<1>1. 0 \in I
  <2>1. \A S \in SUBSET (1..0) : S = {}
    OBVIOUS
  <2>2. QED
    BY <2>1
<1>2. ASSUME NEW x \in Nat, x \in I
      PROVE  x + 1 \in I
  <2>1. SUFFICES ASSUME NEW S \in SUBSET (1..(x + 1)), S # {}
                 PROVE  \E m \in S : \A k \in S : k <= m
    OBVIOUS
  <2>2. CASE x + 1 \in S
    <3>1. \A k \in S : k <= x + 1
      OBVIOUS
    <3>2. QED
      BY <2>2, <3>1
  <2>3. CASE x + 1 \notin S
    <3>1. S \in SUBSET (1..x)
      BY <2>3
    <3>2. QED
      BY <1>2, <2>1, <3>1
  <2>4. QED
    BY <2>2, <2>3
<1>3. \A x \in Nat : x \in I
  <2> HIDE DEF I
  <2>1. QED
    BY <1>1, <1>2, SetInduction
<1>4. QED
  BY <1>3

LEMMA FrontFacts ==
  ASSUME NEW S, NEW q \in Seq(S), NEW j \in 1..Len(q)
  PROVE  /\ SubSeq(q, 1, j) \in Seq(S) /\ Len(SubSeq(q, 1, j)) = j
         /\ \A i \in 1..j : SubSeq(q, 1, j)[i] = q[i]
OBVIOUS

LEMMA LongerFacts ==
  ASSUME NEW S, NEW q \in Seq(S), NEW x \in S
  PROVE  /\ Append(q, x) \in Seq(S) /\ Len(Append(q, x)) = Len(q) + 1
         /\ Append(q, x)[Len(q) + 1] = x
         /\ \A i \in 1..Len(q) : Append(q, x)[i] = q[i]
OBVIOUS

LEMMA JoinedFacts ==
  ASSUME NEW S, NEW q \in Seq(S), NEW r \in Seq(S)
  PROVE  /\ q \o r \in Seq(S) /\ Len(q \o r) = Len(q) + Len(r)
         /\ \A i \in 1..Len(q) : (q \o r)[i] = q[i]
         /\ \A i \in 1..Len(r) : (q \o r)[Len(q) + i] = r[i]
OBVIOUS

-----------------------------------------------------------------------------
(* add_callstack. *)

(* The blocks that are open, and their places in a tree.                     *)
OpenInv(open, at, t, all) ==
  /\ IsBlock(t, all)
  /\ open \in Seq(SUBSET Rank) /\ at \in Seq(Nat) /\ Len(open) # 0 /\ Len(at) = Len(open)
  /\ open[1] = all
  /\ \A i \in 1..Len(open) : /\ at[i] \in 1..Len(t)
                             /\ t[at[i]].kind = "crb" /\ t[at[i]].ranks = open[i]
  /\ \A i, k \in 1..Len(open) : i < k => at[i] < at[k]
  /\ \A i \in 2..Len(open) : LastIn(t, Len(t), at[i - 1], at[i])

(* The last item of the innermost open block is not a block.                 *)
Innermost(at, t) == \A c : LastIn(t, Len(t), at[Len(at)], c) => t[c].kind # "crb"

LEMMA PlaceFacts ==
  ASSUME NEW open \in Seq(SUBSET Rank), Len(open) # 0, NEW R, R \subseteq open[1],
         NEW j, j = Place(open, R)
  PROVE  /\ j \in 1..Len(open) /\ R \subseteq open[j]
         /\ j < Len(open) /\ open[j] # R => ~ R \subseteq open[j + 1]
<1> DEFINE Reached(k) == \A i \in 1..k : R \subseteq open[i] /\ (i < k => open[i] # R)
           Stops(k)   == k < Len(open) /\ open[k] # R => ~ R \subseteq open[k + 1]
           T          == {k \in 1..Len(open) : Reached(k)}
<1>1. 1 \in T
  OBVIOUS
<1>2. PICK m \in T : \A k \in T : k <= m
  <2>1. Len(open) \in Nat /\ T \in SUBSET (1..Len(open)) /\ T # {}
    BY <1>1
  <2> HIDE DEF T
  <2>2. QED
    BY <2>1, GreatestExists
<1>3. Stops(m)
  <2>1. SUFFICES ASSUME m < Len(open), open[m] # R, R \subseteq open[m + 1]
                 PROVE  FALSE
    OBVIOUS
  <2>2. m + 1 \in 1..Len(open)
    BY <2>1
  <2>3. Reached(m + 1)
    <3>1. \A i \in 1..(m + 1) : i \in 1..m \/ i = m + 1
      OBVIOUS
    <3>2. Reached(m)
      BY <1>2
    <3>3. \A i \in 1..m : i < m + 1 => open[i] # R
      BY <2>1, <3>2
    <3>4. QED
      BY <2>1, <3>1, <3>2, <3>3
  <2>4. QED
    BY <1>2, <2>2, <2>3
<1>4. \E k \in 1..Len(open) : Reached(k) /\ Stops(k)
  BY <1>2, <1>3
<1>5. j \in 1..Len(open) /\ Reached(j) /\ Stops(j)
  <2>1. j = CHOOSE k \in 1..Len(open) : Reached(k) /\ Stops(k)
    BY Zenon DEF Place
  <2> HIDE DEF Reached, Stops
  <2>2. QED
    BY <1>4, <2>1, Zenon
<1>6. R \subseteq open[j]
  BY <1>5
<1>7. QED
  BY <1>5, <1>6

(* Blocks inside block j are closed.                                         *)
LEMMA BlocksClosed ==
  ASSUME NEW open, NEW at, NEW t, NEW all, OpenInv(open, at, t, all), NEW j \in 1..Len(open)
  PROVE  /\ OpenInv(SubSeq(open, 1, j), SubSeq(at, 1, j), t, all)
         /\ Len(SubSeq(open, 1, j)) = j /\ Len(SubSeq(at, 1, j)) = j
         /\ SubSeq(open, 1, j)[j] = open[j] /\ SubSeq(at, 1, j)[j] = at[j]
<1> DEFINE o == SubSeq(open, 1, j)
           a == SubSeq(at, 1, j)
<1>1. /\ o \in Seq(SUBSET Rank) /\ Len(o) = j /\ \A i \in 1..j : o[i] = open[i]
      /\ a \in Seq(Nat) /\ Len(a) = j /\ \A i \in 1..j : a[i] = at[i]
  BY FrontFacts DEF OpenInv
<1>2. /\ Len(open) \in Nat /\ j \in Nat /\ 1 \in 1..j /\ j \in 1..j /\ j # 0
      /\ \A i \in 1..j : i \in 1..Len(open)
      /\ \A i \in 2..j : i \in 1..j /\ i - 1 \in 1..j /\ i \in 2..Len(open)
  BY DEF OpenInv
<1> HIDE DEF o, a
<1>3. \A i \in 1..j : a[i] \in 1..Len(t) /\ t[a[i]].kind = "crb" /\ t[a[i]].ranks = o[i]
  BY <1>1, <1>2 DEF OpenInv
<1>4. \A i, k \in 1..j : i < k => a[i] < a[k]
  BY <1>1, <1>2 DEF OpenInv
<1>5. \A i \in 2..j : LastIn(t, Len(t), a[i - 1], a[i])
  BY <1>1, <1>2 DEF OpenInv
<1>6. o[1] = all /\ IsBlock(t, all)
  BY <1>1, <1>2 DEF OpenInv
<1>7. QED
  BY <1>1, <1>2, <1>3, <1>4, <1>5, <1>6 DEF OpenInv, o, a

(* After the first n entries, s has one in entry p and others inside of it.  *)
Adds(s, t, n, l, p) ==
  /\ n \in Nat /\ l \in Nat /\ l > n /\ p \in 1..n /\ Begins(s, t, n)
  /\ s[n + 1].parent = p /\ \A e \in (n + 2)..l : s[e].parent > n

LEMMA LastAdded ==
  ASSUME NEW s, NEW t, NEW n, NEW l, NEW p, Adds(s, t, n, l, p)
  PROVE  /\ \A q, c : q \in 1..n /\ q # p /\ LastIn(t, n, q, c) => LastIn(s, l, q, c)
         /\ \A c : LastIn(s, l, p, c) => c = n + 1
<1>1. n \in Nat /\ l \in Nat /\ l > n /\ p \in 1..n /\ s[n + 1].parent = p
  BY DEF Adds
<1>2. \A d \in 1..n : s[d] = t[d] /\ d \in 1..l
  BY <1>1 DEF Adds, Begins
<1>3. ASSUME NEW d \in 1..l, d \notin 1..n, d # n + 1
      PROVE  s[d].parent > n
  <2>1. d \in (n + 2)..l
    BY <1>1, <1>3
  <2>2. QED
    BY <2>1 DEF Adds
<1>4. ASSUME NEW q \in 1..n, q # p, NEW c, LastIn(t, n, q, c)
      PROVE  LastIn(s, l, q, c)
  <2>1. c \in 1..n /\ t[c].parent = q /\ \A d \in 1..n : t[d].parent = q => d <= c
    BY <1>4 DEF LastIn
  <2>2. ASSUME NEW d \in 1..l, s[d].parent = q
        PROVE  d \in 1..n
    <3>1. d # n + 1
      BY <1>1, <1>4, <2>2
    <3>2. ~ q > n
      BY <1>1
    <3>3. QED
      BY <1>3, <2>2, <3>1, <3>2
  <2>3. QED
    BY <1>2, <2>1, <2>2 DEF LastIn
<1>5. ASSUME NEW c, LastIn(s, l, p, c)
      PROVE  c = n + 1
  <2>1. n + 1 \in 1..l
    BY <1>1
  <2>2. n + 1 <= c /\ c \in 1..l /\ s[c].parent = p
    BY <1>1, <1>5, <2>1 DEF LastIn
  <2>3. c \notin 1..n /\ ~ p > n
    BY <1>1, <2>2
  <2>4. QED
    BY <1>3, <2>2, <2>3
<1>6. QED
  BY <1>4, <1>5

(* What was put into the innermost open block is a callstack or a loop.      *)
LEMMA ItemPut ==
  ASSUME NEW open, NEW at, NEW t, NEW all, OpenInv(open, at, t, all),
         NEW m, m = Len(open), NEW s \in Seq(Nodes), Begins(s, t, Len(t)), Len(s) > Len(t),
         s[Len(t) + 1].parent = at[m], s[Len(t) + 1].kind \in {"call", "loop"},
         s[Len(t) + 1].ranks = open[m],
         \A e \in (Len(t) + 2)..Len(s) : Fits(s, e) /\ s[e].parent > Len(t)
  PROVE  OpenInv(open, at, s, all) /\ Innermost(at, s)
<1> DEFINE n == Len(t)
           l == Len(s)
           p == at[m]
<1>1. /\ n \in Nat \ {0} /\ l \in Nat /\ l > n /\ n + 1 \in 1..l /\ t \in Seq(Nodes)
      /\ m \in Nat \ {0} /\ p \in 1..n /\ Len(at) = m
      /\ t[p].kind = "crb" /\ t[p].ranks = open[m]
      /\ \A i \in 1..n : s[i] = t[i]
  BY DEF OpenInv, IsBlock, Nested, Begins
<1>2. s[n + 1].kind # "crb" /\ s[n + 1].kind \in {"call", "loop"}
  OBVIOUS
<1>3. Fits(s, n + 1)
  <2>1. n + 1 - 1 = n /\ s[n + 1].parent = p /\ s[p].kind = "crb" /\ s[p].ranks = s[n + 1].ranks
    BY <1>1
  <2> HIDE DEF n, p
  <2>2. QED
    BY <1>1, <1>2, <2>1 DEF Fits
<1>4. \A e \in (n + 1)..l : Fits(s, e)
  <2>1. \A e \in (n + 1)..l : e = n + 1 \/ e \in (n + 2)..l
    BY <1>1
  <2>2. QED
    BY <1>3, <2>1
<1>5. IsBlock(s, all)
  <2>1. Nested(t)
    BY DEF OpenInv, IsBlock
  <2>2. Nested(s)
    BY <1>1, <1>4, <2>1, NestedLonger
  <2>3. s[1] = t[1]
    BY <1>1
  <2>4. QED
    BY <2>2, <2>3 DEF OpenInv, IsBlock
<1>6. Adds(s, t, n, l, p)
  BY <1>1 DEF Adds
<1>7. ASSUME NEW i \in 2..m
      PROVE  LastIn(s, l, at[i - 1], at[i])
  <2>1. LastIn(t, n, at[i - 1], at[i])
    BY <1>7 DEF OpenInv
  <2>2. at[i - 1] \in 1..n /\ at[i - 1] # p
    <3>1. i - 1 \in 1..m /\ m \in 1..m /\ i - 1 < m
      BY <1>1
    <3>2. at[i - 1] < at[m] /\ at[i - 1] \in 1..n
      BY <3>1 DEF OpenInv
    <3>3. at[m] \in 1..n
      BY <1>1
    <3>4. QED
      BY <3>2, <3>3
  <2> HIDE DEF n, l, p
  <2>3. QED
    BY <1>6, <2>1, <2>2, LastAdded
<1>8. Innermost(at, s)
  <2>1. ASSUME NEW c, LastIn(s, l, p, c)
        PROVE  c = n + 1
    <3> HIDE DEF n, l, p
    <3>1. QED
      BY <1>6, <2>1, LastAdded
  <2>2. QED
    BY <1>1, <1>2, <2>1 DEF Innermost
<1>9. \A i \in 1..m : at[i] \in 1..l /\ s[at[i]].kind = "crb" /\ s[at[i]].ranks = open[i]
  <2>1. \A i \in 1..m : at[i] \in 1..n /\ t[at[i]].kind = "crb" /\ t[at[i]].ranks = open[i]
    BY DEF OpenInv
  <2>2. \A k \in 1..n : k \in 1..l /\ s[k] = t[k]
    BY <1>1
  <2> HIDE DEF n, l
  <2>3. QED
    BY <2>1, <2>2, Zenon
<1>10. QED
  BY <1>5, <1>7, <1>8, <1>9 DEF OpenInv

(* A block for fewer ranks is opened in the innermost one.                   *)
LEMMA BlockOpened ==
  ASSUME NEW open, NEW at, NEW t, NEW all, OpenInv(open, at, t, all),
         NEW m, m = Len(open), NEW R \in SUBSET Rank, R \subseteq open[m], R # open[m],
         \A c : LastIn(t, Len(t), at[m], c) /\ t[c].kind = "crb" => t[c].ranks # R
  PROVE  OpenInv(Append(open, R), Append(at, Len(t) + 1),
                 Append(t, Entry("crb", at[m], R, 0, 0)), all)
<1> DEFINE n == Len(t)
           p == at[m]
           x == Entry("crb", p, R, 0, 0)
           s == Append(t, x)
           o == Append(open, R)
           a == Append(at, n + 1)
<1>1. /\ n \in Nat \ {0} /\ t \in Seq(Nodes) /\ open \in Seq(SUBSET Rank) /\ at \in Seq(Nat)
      /\ m \in Nat \ {0} /\ p \in 1..n /\ Len(at) = m
      /\ t[p].kind = "crb" /\ t[p].ranks = open[m]
  BY DEF OpenInv, IsBlock, Nested
<1>2. x \in Nodes /\ x.kind = "crb" /\ x.parent = p /\ x.ranks = R
  BY <1>1 DEF Entry, Nodes, LoopNames
<1> HIDE DEF x
<1>3. s \in Seq(Nodes) /\ Len(s) = n + 1 /\ s[n + 1] = x /\ \A i \in 1..n : s[i] = t[i]
  BY <1>1, <1>2, LongerFacts
<1>4. /\ o \in Seq(SUBSET Rank) /\ Len(o) = m + 1 /\ o[m + 1] = R /\ \A i \in 1..m : o[i] = open[i]
      /\ a \in Seq(Nat) /\ Len(a) = m + 1 /\ a[m + 1] = n + 1 /\ \A i \in 1..m : a[i] = at[i]
  BY <1>1, LongerFacts
<1> HIDE DEF s, o, a
<1>5. Fits(s, n + 1)
  <2>1. n + 1 - 1 = n /\ s[n + 1] = x /\ s[p] = t[p]
    BY <1>1, <1>3
  <2>2. ASSUME NEW b, LastIn(s, n, p, b), s[b].kind = "crb"
        PROVE  s[b].ranks # R
    <3>1. Begins(s, t, n)
      BY <1>3 DEF Begins
    <3>2. LastIn(t, n, p, b)
      BY <2>2, <3>1, LastInSame
    <3>3. s[b] = t[b]
      BY <1>3, <3>2 DEF LastIn
    <3>4. QED
      BY <2>2, <3>2, <3>3
  <2> HIDE DEF n, p
  <2>3. QED
    BY <1>1, <1>2, <2>1, <2>2 DEF Fits
<1>6. IsBlock(s, all)
  <2>1. Nested(t)
    BY DEF OpenInv, IsBlock
  <2>2. Begins(s, t, Len(t)) /\ \A e \in (Len(t) + 1)..Len(s) : Fits(s, e)
    BY <1>1, <1>3, <1>5 DEF Begins
  <2>3. Nested(s)
    BY <1>1, <1>3, <2>1, <2>2, NestedLonger
  <2>4. s[1] = t[1]
    BY <1>1, <1>3
  <2>5. QED
    BY <2>3, <2>4 DEF OpenInv, IsBlock
<1>7. \A i \in 1..(m + 1) : i \in 1..m \/ i = m + 1
  BY <1>1
<1>8. \A i \in 1..m : at[i] \in 1..n /\ t[at[i]].kind = "crb" /\ t[at[i]].ranks = open[i]
  BY DEF OpenInv
<1>9. \A i \in 1..(m + 1) : a[i] \in 1..(n + 1) /\ s[a[i]].kind = "crb" /\ s[a[i]].ranks = o[i]
  <2> HIDE DEF n
  <2>1. \A i \in 1..m : a[i] \in 1..(n + 1) /\ s[a[i]].kind = "crb" /\ s[a[i]].ranks = o[i]
    <3>1. SUFFICES ASSUME NEW i \in 1..m
                   PROVE  a[i] \in 1..(n + 1) /\ s[a[i]].kind = "crb" /\ s[a[i]].ranks = o[i]
      OBVIOUS
    <3>2. at[i] \in 1..n /\ t[at[i]].kind = "crb" /\ t[at[i]].ranks = open[i]
      BY <1>8
    <3>3. a[i] = at[i] /\ o[i] = open[i]
      BY <1>4
    <3>4. s[at[i]] = t[at[i]]
      BY <1>3, <3>2
    <3>5. n \in Nat
      BY <1>1
    <3>6. at[i] \in 1..(n + 1)
      BY <3>2, <3>5
    <3>7. QED
      BY <3>2, <3>3, <3>4, <3>6, Zenon
  <2>2. a[m + 1] \in 1..(n + 1) /\ s[a[m + 1]].kind = "crb" /\ s[a[m + 1]].ranks = o[m + 1]
    <3>1. a[m + 1] = n + 1 /\ o[m + 1] = R
      BY <1>4
    <3>2. s[n + 1].kind = "crb" /\ s[n + 1].ranks = R
      BY <1>2, <1>3
    <3>3. n + 1 \in 1..(n + 1)
      BY <1>1
    <3>4. QED
      BY <3>1, <3>2, <3>3
  <2>3. QED
    BY <1>7, <2>1, <2>2
<1>10. \A i, k \in 1..(m + 1) : i < k => a[i] < a[k]
  <2>1. SUFFICES ASSUME NEW i \in 1..(m + 1), NEW k \in 1..(m + 1), i < k
                 PROVE  a[i] < a[k]
    OBVIOUS
  <2>2. i \in 1..m
    BY <1>1, <2>1
  <2>3. CASE k \in 1..m
    BY <1>4, <2>1, <2>2, <2>3 DEF OpenInv
  <2>4. CASE k = m + 1
    <3>1. a[i] = at[i] /\ a[k] = n + 1
      BY <1>4, <2>2, <2>4
    <3>2. at[i] \in 1..n /\ n \in Nat
      BY <1>1, <1>8, <2>2
    <3> HIDE DEF n
    <3>3. QED
      BY <3>1, <3>2
  <2>5. QED
    BY <1>7, <2>3, <2>4
<1>11. Adds(s, t, n, n + 1, p)
  <2>1. Begins(s, t, n) /\ s[n + 1].parent = p
    BY <1>2, <1>3 DEF Begins
  <2>2. n \in Nat /\ n + 1 \in Nat /\ n + 1 > n /\ p \in 1..n
    BY <1>1
  <2>3. \A e \in (n + 2)..(n + 1) : FALSE
    BY <2>2
  <2> HIDE DEF n, p
  <2>4. QED
    BY <2>1, <2>2, <2>3 DEF Adds
<1>12. ASSUME NEW i \in 2..(m + 1)
       PROVE  LastIn(s, n + 1, a[i - 1], a[i])
  <2>1. Begins(s, t, n)
    BY <1>3 DEF Begins
  <2>2. CASE i = m + 1
    <3>1. a[i - 1] = p /\ a[i] = n + 1
      BY <1>1, <1>4, <2>2
    <3>2. s[n + 1].parent = p /\ n + 1 \in 1..(n + 1) /\ \A d \in 1..(n + 1) : d <= n + 1
      BY <1>1, <1>2, <1>3
    <3> HIDE DEF n, p
    <3>3. QED
      BY <3>1, <3>2 DEF LastIn
  <2>3. CASE i # m + 1
    <3>1. i \in 2..m /\ i - 1 \in 1..m /\ i \in 1..m /\ m \in 1..m /\ i - 1 < m
      BY <1>1, <2>3
    <3>2. LastIn(t, n, at[i - 1], at[i]) /\ a[i - 1] = at[i - 1] /\ a[i] = at[i]
      BY <1>4, <3>1 DEF OpenInv
    <3>3. at[i - 1] \in 1..n /\ at[i - 1] # p
      <4>1. at[i - 1] < at[m] /\ at[i - 1] \in 1..n
        BY <3>1 DEF OpenInv
      <4>2. at[m] \in 1..n
        BY <1>1
      <4>3. QED
        BY <4>1, <4>2
    <3> HIDE DEF n, p
    <3>4. LastIn(s, n + 1, at[i - 1], at[i])
      BY <1>11, <3>2, <3>3, LastAdded
    <3>5. QED
      BY <3>2, <3>4
  <2>4. QED
    BY <2>2, <2>3
<1>13. o[1] = all /\ Len(o) # 0
  <2>1. 1 \in 1..m /\ m + 1 # 0
    BY <1>1
  <2>2. QED
    BY <1>4, <2>1 DEF OpenInv
<1>14. OpenInv(o, a, s, all)
  <2> HIDE DEF n, p
  <2>1. QED
    BY <1>3, <1>4, <1>6, <1>9, <1>10, <1>12, <1>13 DEF OpenInv
<1>15. QED
  BY <1>14 DEF o, a, s, x

(* What an item may be: a callstack, or an inner loop that was grouped into  *)
(* a block of its ranks.                                                     *)
ItemOK(it, inner) ==
  /\ it.ranks \in SUBSET Rank /\ it.flow \in Nat
  /\ it.loop # 0 => it.loop \in LoopNames /\ IsBlock(inner[it.loop], it.ranks)

LEMMA MovedFacts ==
  ASSUME NEW u \in Seq(Nodes), NEW m \in Nat, NEW v, v = Moved(u, m)
  PROVE  /\ v \in Seq(Nodes) /\ Len(v) = Len(u)
         /\ \A i \in 1..Len(u) : v[i] = Lifted(u[i], m)
<1>1. DOMAIN u = 1..Len(u) /\ Len(u) \in Nat
  OBVIOUS
<1>2. \A i \in 1..Len(u) : Lifted(u[i], m) \in Nodes
  <2>1. SUFFICES ASSUME NEW i \in 1..Len(u)
                 PROVE  [u[i] EXCEPT !.parent = @ + m] \in Nodes
    BY DEF Lifted
  <2>2. u[i] \in Nodes
    OBVIOUS
  <2>3. u[i].parent + m \in Nat
    BY <2>2 DEF Nodes
  <2>4. QED
    BY <2>2, <2>3 DEF Nodes
<1>3. v = [i \in 1..Len(u) |-> Lifted(u[i], m)]
  BY <1>1 DEF Moved, Lifted
<1>4. QED
  BY <1>1, <1>2, <1>3

(* The entries that an item becomes. *)
ItemEntries(L, it, p, n, u) ==
  /\ L \in Seq(Nodes) /\ Len(L) # 0 /\ L[1].parent = p /\ L[1].ranks = it.ranks
  /\ it.loop = 0 => Len(L) = 1 /\ L[1].kind = "call" /\ L[1].flow = it.flow
  /\ it.loop # 0 => /\ IsBlock(u, it.ranks) /\ Len(L) = 1 + Len(u) /\ L[1].kind = "loop"
                    /\ \A i \in 1..Len(u) : L[1 + i] = Lifted(u[i], n + 1)

LEMMA EntriesFacts ==
  ASSUME NEW it, NEW inner, ItemOK(it, inner), NEW p \in Nat, NEW n \in Nat,
         NEW L, L = Entries(it, p, n, inner)
  PROVE  ItemEntries(L, it, p, n, inner[it.loop])
<1>1. CASE it.loop = 0
  <2>1. L = <<Entry("call", p, it.ranks, it.flow, 0)>>
    BY <1>1 DEF Entries
  <2>2. Entry("call", p, it.ranks, it.flow, 0) \in Nodes
    BY DEF ItemOK, Nodes, LoopNames, Entry
  <2>3. QED
    BY <1>1, <2>1, <2>2 DEF Entry, ItemEntries
<1>2. CASE it.loop # 0
  <2> DEFINE u == inner[it.loop]
             x == Entry("loop", p, it.ranks, 0, it.loop)
             v == Moved(u, n + 1)
  <2>1. L = <<x>> \o v
    BY <1>2 DEF Entries
  <2>2. x \in Nodes /\ x.kind = "loop" /\ x.parent = p /\ x.ranks = it.ranks
    BY <1>2 DEF ItemOK, Nodes, Entry
  <2>3. IsBlock(u, it.ranks) /\ u \in Seq(Nodes)
    BY <1>2 DEF ItemOK, IsBlock, Nested
  <2>4. /\ v \in Seq(Nodes) /\ Len(v) = Len(u)
        /\ \A i \in 1..Len(u) : v[i] = Lifted(u[i], n + 1)
    <3> HIDE DEF u, v
    <3>1. n + 1 \in Nat /\ v = Moved(u, n + 1)
      BY DEF v
    <3>2. QED
      BY <2>3, <3>1, MovedFacts
  <2> HIDE DEF u, x, v
  <2>5. <<x>> \in Seq(Nodes) /\ Len(<<x>>) = 1 /\ <<x>>[1] = x
    BY <2>2
  <2>6. /\ L \in Seq(Nodes) /\ Len(L) = 1 + Len(v) /\ L[1] = x
        /\ \A i \in 1..Len(v) : L[1 + i] = v[i]
    <3> DEFINE w == <<x>>
    <3>1. w \in Seq(Nodes) /\ Len(w) = 1 /\ w[1] = x /\ L = w \o v
      BY <2>1, <2>5
    <3> HIDE DEF w
    <3>2. /\ w \o v \in Seq(Nodes) /\ Len(w \o v) = Len(w) + Len(v)
          /\ \A i \in 1..Len(w) : (w \o v)[i] = w[i]
          /\ \A i \in 1..Len(v) : (w \o v)[Len(w) + i] = v[i]
      <4>1. w \in Seq(Nodes) /\ v \in Seq(Nodes)
        BY <2>4, <3>1
      <4>2. QED
        BY <4>1, JoinedFacts
    <3> DEFINE c == w \o v
    <3>3. c \in Seq(Nodes) /\ Len(c) = 1 + Len(v)
      BY <3>1, <3>2
    <3>4. c[1] = x
      <4>1. 1 \in 1..Len(w)
        BY <3>1
      <4>2. QED
        BY <3>1, <3>2, <4>1
    <3>5. \A i \in 1..Len(v) : c[1 + i] = v[i]
      BY <3>1, <3>2
    <3>6. L = c
      BY <3>1
    <3> HIDE DEF c
    <3>7. QED
      BY <3>3, <3>4, <3>5, <3>6
  <2>7. Len(v) \in Nat /\ 1 + Len(v) # 0
    BY <2>4
  <2>8. \A i \in 1..Len(u) : L[1 + i] = Lifted(u[i], n + 1)
    BY <2>4, <2>6
  <2>9. QED
    BY <1>2, <2>2, <2>3, <2>4, <2>6, <2>7, <2>8 DEF u, ItemEntries
<1>3. QED
  BY <1>1, <1>2

LEMMA BodyAdded ==
  ASSUME NEW s \in Seq(Nodes), NEW t, Nested(t), NEW n, n = Len(t), Begins(s, t, n),
         NEW u, NEW R, IsBlock(u, R), Len(s) = (n + 1) + Len(u), Holds(s, n + 1, u),
         s[n + 1].kind = "loop", s[n + 1].ranks = R, s[n + 1].parent \in 1..n
  PROVE  \A e \in (n + 2)..Len(s) : Fits(s, e) /\ s[e].parent > n
<1>1. n \in Nat /\ n + 1 \in Nat \ {0} /\ Len(u) \in Nat /\ \A i \in 1..Len(u) : u[i] \in Nodes
  BY DEF Nested, IsBlock
<1>2. \A e \in 1..(n + 1) : s[e].parent \in Nat /\ s[e].parent < e
  <2>1. \A e \in 1..n : t[e].parent \in Nat /\ t[e].parent < e
    BY ParentsBefore
  <2>2. \A e \in 1..n : s[e] = t[e]
    BY DEF Begins
  <2>3. s[n + 1].parent \in Nat /\ s[n + 1].parent < n + 1
    BY <1>1
  <2>4. \A e \in 1..(n + 1) : e \in 1..n \/ e = n + 1
    BY <1>1
  <2>5. QED
    BY <2>1, <2>2, <2>3, <2>4
<1>3. \A e \in ((n + 1) + 1)..Len(s) : Fits(s, e)
  <2> DEFINE m == n + 1
  <2>1. /\ m \in Nat \ {0} /\ Len(s) = m + Len(u) /\ Holds(s, m, u)
        /\ s[m].kind = "loop" /\ s[m].ranks = R
        /\ \A e \in 1..m : s[e].parent \in Nat /\ s[e].parent < e
    BY <1>1, <1>2
  <2> HIDE DEF m
  <2>2. \A e \in (m + 1)..Len(s) : Fits(s, e)
    BY <2>1, BodyFits
  <2>3. QED
    BY <2>2 DEF m
<1>4. ASSUME NEW e \in (n + 2)..Len(s)
      PROVE  Fits(s, e) /\ s[e].parent > n
  <2>1. e \in ((n + 1) + 1)..Len(s)
    BY <1>1
  <2>2. PICK i \in 1..Len(u) : e = (n + 1) + i
    <3>1. e - (n + 1) \in 1..Len(u) /\ e = (n + 1) + (e - (n + 1))
      BY <1>1
    <3>2. QED
      BY <3>1
  <2>3. s[e] = Lifted(u[i], n + 1)
    BY <2>2 DEF Holds
  <2>4. s[e].parent = u[i].parent + (n + 1) /\ u[i].parent \in Nat
    <3>1. u[i] \in Nodes
      BY <1>1
    <3>2. QED
      BY <2>3, <3>1 DEF Nodes, Lifted
  <2>5. s[e].parent > n
    BY <1>1, <2>4
  <2>6. QED
    BY <1>3, <2>1, <2>5
<1>5. QED
  BY <1>4

(* An item is put into the innermost open block, which is for its ranks.     *)
LEMMA ItemAdded ==
  ASSUME NEW open, NEW at, NEW t, NEW all, OpenInv(open, at, t, all),
         NEW it, NEW inner, ItemOK(it, inner), NEW m, m = Len(open), it.ranks = open[m],
         NEW s, s = t \o Entries(it, at[m], Len(t), inner)
  PROVE  OpenInv(open, at, s, all) /\ Innermost(at, s)
<1> DEFINE n == Len(t)
           p == at[m]
           L == Entries(it, p, n, inner)
           u == inner[it.loop]
<1>1. /\ n \in Nat \ {0} /\ t \in Seq(Nodes) /\ m \in 1..Len(open) /\ p \in 1..n /\ p \in Nat
      /\ Nested(t)
  BY DEF OpenInv, IsBlock, Nested
<1>2. /\ L \in Seq(Nodes) /\ Len(L) # 0 /\ L[1].parent = p /\ L[1].ranks = it.ranks
      /\ it.loop = 0 => Len(L) = 1 /\ L[1].kind = "call"
      /\ it.loop # 0 => /\ IsBlock(u, it.ranks) /\ Len(L) = 1 + Len(u) /\ L[1].kind = "loop"
                        /\ \A i \in 1..Len(u) : L[1 + i] = Lifted(u[i], n + 1)
  <2>1. n \in Nat /\ p \in Nat /\ L = Entries(it, p, n, inner)
    BY <1>1
  <2> HIDE DEF n, p, L, u
  <2>2. ItemEntries(L, it, p, n, inner[it.loop])
    BY <2>1, EntriesFacts
  <2>3. ItemEntries(L, it, p, n, u)
    BY <2>2 DEF u
  <2>4. QED
    BY <2>3 DEF ItemEntries
<1> HIDE DEF L
<1>3. Len(L) \in Nat /\ 1 \in 1..Len(L)
  BY <1>2
<1>4. /\ s \in Seq(Nodes) /\ Len(s) = n + Len(L)
      /\ \A i \in 1..n : s[i] = t[i]
      /\ \A i \in 1..Len(L) : s[n + i] = L[i]
  BY <1>1, <1>2, JoinedFacts DEF L
<1>5. Begins(s, t, n) /\ Len(s) > n /\ s[n + 1] = L[1]
  BY <1>1, <1>3, <1>4 DEF Begins
<1>6. \A e \in (n + 2)..Len(s) : Fits(s, e) /\ s[e].parent > n
  <2>1. CASE it.loop = 0
    <3>1. \A e \in (n + 2)..Len(s) : FALSE
      <4>1. n \in Nat /\ Len(L) = 1
        BY <1>1, <1>2, <2>1
      <4>2. Len(s) = n + 1
        BY <1>4, <4>1
      <4>3. QED
        BY <4>1, <4>2
    <3>2. QED
      BY <3>1
  <2>2. CASE it.loop # 0
    <3>1. IsBlock(u, it.ranks) /\ Len(L) = 1 + Len(u) /\ L[1].kind = "loop"
          /\ \A i \in 1..Len(u) : L[1 + i] = Lifted(u[i], n + 1)
      BY <1>2, <2>2
    <3>2. Holds(s, n + 1, u)
      <4>1. Len(u) \in Nat /\ n \in Nat
        BY <1>1, <3>1 DEF IsBlock, Nested
      <4> HIDE DEF n, p, u
      <4>2. ASSUME NEW i \in 1..Len(u)
            PROVE  s[(n + 1) + i] = Lifted(u[i], n + 1)
        <5>1. 1 + i \in 1..Len(L) /\ n + (1 + i) = (n + 1) + i
          BY <3>1, <4>1
        <5>2. s[n + (1 + i)] = L[1 + i]
          BY <1>4, <5>1
        <5>3. s[(n + 1) + i] = L[1 + i]
          BY <5>1, <5>2
        <5>4. L[1 + i] = Lifted(u[i], n + 1)
          BY <3>1
        <5>5. QED
          BY <5>3, <5>4
      <4>3. QED
        BY <4>2 DEF Holds
    <3>3. Len(s) = (n + 1) + Len(u)
      <4>1. Len(u) \in Nat /\ n \in Nat
        BY <1>1, <3>1 DEF IsBlock, Nested
      <4> HIDE DEF n, p, u
      <4>2. QED
        BY <1>4, <3>1, <4>1
    <3>4. s[n + 1].kind = "loop" /\ s[n + 1].ranks = it.ranks /\ s[n + 1].parent \in 1..n
      BY <1>1, <1>2, <1>5, <3>1
    <3> DEFINE R == it.ranks
    <3>5. IsBlock(u, R) /\ s[n + 1].ranks = R
      BY <3>1, <3>4
    <3> HIDE DEF n, p, u, R
    <3>6. QED
      BY <1>1, <1>4, <1>5, <3>2, <3>3, <3>4, <3>5, BodyAdded DEF n
  <2>3. QED
    BY <2>1, <2>2
<1>7. /\ s[n + 1].parent = p /\ s[n + 1].kind \in {"call", "loop"} /\ s[n + 1].ranks = open[m]
  BY <1>2, <1>5
<1>8. QED
  <2>1. s \in Seq(Nodes)
    BY <1>4
  <2>2. QED
    BY <1>5, <1>6, <1>7, <2>1, ItemPut

Grouping(g, all) ==
  OpenInv(g.open, g.at, g.entries, all) /\ Innermost(g.at, g.entries)

(* add_callstack keeps the blocks nested and knows the innermost ones.       *)
LEMMA CallstackAdded ==
  ASSUME NEW g, NEW all, Grouping(g, all),
         NEW it, NEW inner, ItemOK(it, inner), it.ranks \subseteq all
  PROVE  Grouping(add_callstack(g, it, inner), all)
<1> DEFINE j == Place(g.open, it.ranks)
           t == g.entries
           n == Len(t)
           o == SubSeq(g.open, 1, j)
           a == SubSeq(g.at, 1, j)
           R == it.ranks
<1>1. /\ OpenInv(g.open, g.at, t, all) /\ Innermost(g.at, t)
      /\ g.open \in Seq(SUBSET Rank) /\ Len(g.open) # 0 /\ R \subseteq g.open[1] /\ R \in SUBSET Rank
      /\ n \in Nat \ {0} /\ Len(g.at) = Len(g.open)
  BY DEF Grouping, OpenInv, IsBlock, Nested, ItemOK
<1>2. /\ j \in 1..Len(g.open) /\ R \subseteq g.open[j]
      /\ j < Len(g.open) /\ g.open[j] # R => ~ R \subseteq g.open[j + 1]
  <2> DEFINE open == g.open
  <2>1. open \in Seq(SUBSET Rank) /\ Len(open) # 0 /\ R \subseteq open[1] /\ j = Place(open, R)
    BY <1>1
  <2> HIDE DEF R, j, open
  <2>2. /\ j \in 1..Len(open) /\ R \subseteq open[j]
        /\ j < Len(open) /\ open[j] # R => ~ R \subseteq open[j + 1]
    BY <2>1, PlaceFacts
  <2>3. QED
    BY <2>2 DEF open
<1> HIDE DEF j
<1>3. /\ OpenInv(o, a, t, all) /\ Len(o) = j /\ Len(a) = j
      /\ o[j] = g.open[j] /\ a[j] = g.at[j]
  BY <1>1, <1>2, BlocksClosed
<1> HIDE DEF o, a
<1>4. CASE g.open[j] = R
  <2> DEFINE s == t \o Entries(it, g.at[j], n, inner)
  <2>1. add_callstack(g, it, inner) = [open |-> o, at |-> a, entries |-> s]
    BY <1>4 DEF add_callstack, j, o, a
  <2>2. R = o[j] /\ s = t \o Entries(it, a[j], Len(t), inner)
    BY <1>3, <1>4
  <2> HIDE DEF s
  <2>3. OpenInv(o, a, s, all) /\ Innermost(a, s)
    BY <1>3, <2>2, ItemAdded
  <2>4. QED
    BY <2>1, <2>3 DEF Grouping
<1>5. CASE g.open[j] # R
  <2> DEFINE b  == Append(t, Entry("crb", a[j], R, 0, 0))
             o2 == Append(o, R)
             a2 == Append(a, n + 1)
             s  == b \o Entries(it, n + 1, n + 1, inner)
  <2>1. add_callstack(g, it, inner) = [open |-> o2, at |-> a2, entries |-> s]
    BY <1>3, <1>5 DEF add_callstack, j, o, a
  <2>2. ASSUME NEW c, LastIn(t, n, a[j], c), t[c].kind = "crb"
        PROVE  t[c].ranks # R
    <3>1. CASE j = Len(g.open)
      <4>1. LastIn(t, Len(t), g.at[Len(g.at)], c)
        BY <1>1, <1>3, <2>2, <3>1
      <4>2. QED
        BY <1>1, <2>2, <4>1 DEF Innermost
    <3>2. CASE j # Len(g.open)
      <4>1. j + 1 \in 2..Len(g.open) /\ (j + 1) - 1 = j /\ j < Len(g.open) /\ j + 1 \in 1..Len(g.open)
        BY <1>1, <1>2, <3>2
      <4>2. LastIn(t, n, g.at[(j + 1) - 1], g.at[j + 1]) /\ t[g.at[j + 1]].ranks = g.open[j + 1]
        <5>1. \A i \in 2..Len(g.open) : LastIn(t, n, g.at[i - 1], g.at[i])
          BY <1>1 DEF OpenInv
        <5>2. \A i \in 1..Len(g.open) : t[g.at[i]].ranks = g.open[i]
          BY <1>1 DEF OpenInv
        <5> HIDE DEF n, t
        <5>3. QED
          BY <4>1, <5>1, <5>2
      <4>3. LastIn(t, n, a[j], g.at[j + 1])
        BY <1>3, <4>1, <4>2
      <4>4. c \in 1..n /\ g.at[j + 1] \in 1..n /\ c <= g.at[j + 1] /\ g.at[j + 1] <= c
        BY <2>2, <4>3 DEF LastIn
      <4>5. c = g.at[j + 1]
        BY <1>1, <4>4
      <4>6. ~ R \subseteq g.open[j + 1]
        BY <1>2, <1>5, <4>1
      <4>7. QED
        BY <4>2, <4>5, <4>6
    <3>3. QED
      BY <3>1, <3>2
  <2>3. R \subseteq o[j] /\ R # o[j]
    BY <1>2, <1>3, <1>5
  <2>4. OpenInv(o2, a2, b, all)
    <3> HIDE DEF R
    <3>1. QED
      BY <1>1, <1>3, <2>2, <2>3, BlockOpened
  <2>5. /\ Len(o2) = j + 1 /\ o2[j + 1] = R /\ a2[j + 1] = n + 1 /\ Len(b) = n + 1
    <3>1. o \in Seq(SUBSET Rank) /\ a \in Seq(Nat) /\ t \in Seq(Nodes)
      BY <1>3 DEF OpenInv, IsBlock, Nested
    <3>2. Len(o2) = j + 1 /\ o2[j + 1] = R
      BY <1>1, <1>3, <3>1, LongerFacts
    <3>3. a2[j + 1] = n + 1
      <4>1. n + 1 \in Nat
        BY <1>1
      <4>2. QED
        BY <1>3, <3>1, <4>1, LongerFacts
    <3>4. Len(b) = n + 1
      BY <3>1
    <3>5. QED
      BY <3>2, <3>3, <3>4
  <2>6. s = b \o Entries(it, a2[j + 1], Len(b), inner)
    BY <2>5
  <2> HIDE DEF s, b, a2, o2
  <2>7. OpenInv(o2, a2, s, all) /\ Innermost(a2, s)
    BY <2>4, <2>5, <2>6, ItemAdded
  <2>8. QED
    BY <2>1, <2>7 DEF Grouping
<1>6. QED
  BY <1>4, <1>5

-----------------------------------------------------------------------------
(* Grouped. *)

(* A loop before its first item. *)
Opened(all) == [open |-> <<all>>, at |-> <<1>>, entries |-> <<Entry("crb", 0, all, 0, 0)>>]

LEMMA OpenedFacts ==
  ASSUME NEW all \in SUBSET Rank
  PROVE  Grouping(Opened(all), all)
<1> DEFINE x == Entry("crb", 0, all, 0, 0)
           t == <<x>>
           open == <<all>>
           at == <<1>>
<1>1. x \in Nodes /\ x.kind = "crb" /\ x.parent = 0 /\ x.ranks = all
  BY DEF Entry, Nodes, LoopNames
<1> HIDE DEF x
<1>2. t \in Seq(Nodes) /\ Len(t) = 1 /\ t[1] = x
  BY <1>1
<1>3. /\ open \in Seq(SUBSET Rank) /\ Len(open) = 1 /\ open[1] = all
      /\ at \in Seq(Nat) /\ Len(at) = 1 /\ at[1] = 1
  OBVIOUS
<1>4. Opened(all) = [open |-> open, at |-> at, entries |-> t]
  BY DEF Opened, x
<1> HIDE DEF t, open, at
<1>5. \A e \in 2..1 : FALSE
  OBVIOUS
<1>6. IsBlock(t, all)
  BY <1>1, <1>2, <1>5 DEF IsBlock, Nested
<1>7. \A i \in 1..1 : i = 1
  OBVIOUS
<1>8. OpenInv(open, at, t, all)
  <2>1. \A i \in 1..1 : at[i] \in 1..1 /\ t[at[i]].kind = "crb" /\ t[at[i]].ranks = open[i]
    BY <1>1, <1>2, <1>3, <1>7
  <2>2. \A i, k \in 1..1 : ~ i < k
    OBVIOUS
  <2>3. QED
    BY <1>2, <1>3, <1>5, <1>6, <2>1, <2>2 DEF OpenInv
<1>9. Innermost(at, t)
  <2>1. \A c : ~LastIn(t, 1, 1, c)
    BY <1>1, <1>2, <1>7 DEF LastIn
  <2>2. QED
    BY <1>2, <1>3, <2>1 DEF Innermost
<1>10. QED
  BY <1>4, <1>8, <1>9 DEF Grouping

(* The items put into a loop one by one. *)
Adding(f, list, inner, all, n) ==
  f = [k \in 0..n |-> IF k = 0 THEN Opened(all) ELSE add_callstack(f[k - 1], list[k], inner)]

LEMMA AddingAt ==
  ASSUME NEW f, NEW list, NEW inner, NEW all, NEW n, Adding(f, list, inner, all, n), NEW k \in 0..n
  PROVE  f[k] = IF k = 0 THEN Opened(all) ELSE add_callstack(f[k - 1], list[k], inner)
<1> DEFINE g == [i \in 0..n |-> IF i = 0 THEN Opened(all) ELSE add_callstack(f[i - 1], list[i], inner)]
<1>1. f = g
  BY Zenon DEF Adding
<1>2. g[k] = IF k = 0 THEN Opened(all) ELSE add_callstack(f[k - 1], list[k], inner)
  OBVIOUS
<1> HIDE DEF g
<1>3. QED
  BY <1>1, <1>2, Zenon

LEMMA AddingExists ==
  ASSUME NEW list, NEW inner, NEW all, NEW n \in Nat
  PROVE  \E f : Adding(f, list, inner, all, n)
<1> DEFINE T == {m \in Nat : \E f : Adding(f, list, inner, all, m)}
<1>1. 0 \in T
  <2> DEFINE f == [k \in 0..0 |-> Opened(all)]
  <2>1. f = [k \in 0..0 |-> IF k = 0 THEN Opened(all) ELSE add_callstack(f[k - 1], list[k], inner)]
    OBVIOUS
  <2> HIDE DEF f
  <2>2. Adding(f, list, inner, all, 0)
    BY <2>1 DEF Adding
  <2>3. QED
    BY <2>2
<1>2. ASSUME NEW m \in Nat, m \in T
      PROVE  m + 1 \in T
  <2>1. PICK f : Adding(f, list, inner, all, m)
    BY <1>2
  <2> DEFINE new == add_callstack(f[m], list[m + 1], inner)
             g   == [i \in 0..(m + 1) |-> IF i = m + 1 THEN new ELSE f[i]]
  <2>2. ASSUME NEW i \in 0..(m + 1)
        PROVE  g[i] = IF i = 0 THEN Opened(all) ELSE add_callstack(g[i - 1], list[i], inner)
    <3>1. CASE i = m + 1
      <4>1. i # 0 /\ g[i - 1] = f[m] /\ g[i] = new
        BY <3>1
      <4> HIDE DEF g
      <4>2. QED
        BY <3>1, <4>1
    <3>2. CASE i # m + 1
      <4>1. i \in 0..m /\ (i = 0 \/ i - 1 \in 0..m) /\ i - 1 # m + 1
        BY <3>2
      <4>2. f[i] = IF i = 0 THEN Opened(all) ELSE add_callstack(f[i - 1], list[i], inner)
        BY <2>1, <4>1, AddingAt
      <4>3. g[i] = f[i] /\ (i = 0 \/ g[i - 1] = f[i - 1])
        BY <4>1
      <4> HIDE DEF g
      <4>4. QED
        BY <4>2, <4>3
    <3>3. QED
      BY <3>1, <3>2
  <2>3. g = [i \in 0..(m + 1) |-> g[i]]
    OBVIOUS
  <2> HIDE DEF g
  <2>4. Adding(g, list, inner, all, m + 1)
    BY <2>2, <2>3 DEF Adding
  <2>5. QED
    BY <2>4
<1>3. n \in T
  <2> HIDE DEF T
  <2>1. QED
    BY <1>1, <1>2, SetInduction
<1>4. QED
  BY <1>3

(* The ranks of the items of a list. *)
RanksOf(list) == UNION {list[i].ranks : i \in DOMAIN list}

(* A grouped loop is one block of nested blocks. *)
LEMMA GroupedIsBlock ==
  ASSUME NEW list, NEW inner, Len(list) \in Nat, DOMAIN list = 1..Len(list),
         \A i \in DOMAIN list : ItemOK(list[i], inner)
  PROVE  IsBlock(Grouped(list, inner), RanksOf(list))
<1> DEFINE all == RanksOf(list)
           f == CHOOSE g : g = [k \in 0..Len(list) |->
                                  IF k = 0 THEN Opened(all) ELSE add_callstack(g[k - 1], list[k], inner)]
           T == {k \in Nat : k \in 0..Len(list) => Grouping(f[k], all)}
<1>1. Grouped(list, inner) = f[Len(list)].entries
  BY Zenon DEF Grouped, RanksOf, Opened
<1>2. all \in SUBSET Rank /\ \A i \in DOMAIN list : list[i].ranks \subseteq all
  BY DEF RanksOf, ItemOK
<1> HIDE DEF all
<1>3. Adding(f, list, inner, all, Len(list))
  <2>1. \E g : g = [k \in 0..Len(list) |->
                      IF k = 0 THEN Opened(all) ELSE add_callstack(g[k - 1], list[k], inner)]
    <3>1. \E g : Adding(g, list, inner, all, Len(list))
      <4> HIDE DEF f
      <4>1. QED
        BY AddingExists
    <3>2. QED
      BY <3>1, Zenon DEF Adding
  <2>2. QED
    BY <2>1, Zenon DEF Adding
<1> HIDE DEF f
<1>4. 0 \in T
  <2>1. 0 \in 0..Len(list)
    OBVIOUS
  <2>2. f[0] = Opened(all)
    BY <1>3, <2>1, AddingAt
  <2>3. QED
    BY <1>2, <2>2, OpenedFacts
<1>5. ASSUME NEW k \in Nat, k \in T
      PROVE  k + 1 \in T
  <2> SUFFICES ASSUME k + 1 \in 0..Len(list)
               PROVE  Grouping(f[k + 1], all)
    OBVIOUS
  <2>1. k \in 0..Len(list) /\ k + 1 \in 1..Len(list) /\ k + 1 - 1 = k /\ k + 1 # 0
    OBVIOUS
  <2>2. f[k + 1] = add_callstack(f[k], list[k + 1], inner)
    <3>1. f[k + 1] = IF k + 1 = 0 THEN Opened(all) ELSE add_callstack(f[k + 1 - 1], list[k + 1], inner)
      BY <1>3, AddingAt
    <3>2. QED
      BY <2>1, <3>1
  <2>3. Grouping(f[k], all)
    BY <1>5, <2>1
  <2>4. ItemOK(list[k + 1], inner) /\ list[k + 1].ranks \subseteq all
    BY <1>2, <2>1
  <2> DEFINE g == f[k]
             it == list[k + 1]
  <2>5. Grouping(g, all) /\ ItemOK(it, inner) /\ it.ranks \subseteq all
    BY <2>3, <2>4
  <2> HIDE DEF g, it
  <2>6. Grouping(add_callstack(g, it, inner), all)
    BY <2>5, CallstackAdded
  <2>7. QED
    BY <2>2, <2>6 DEF g, it
<1>6. Len(list) \in T
  <2> HIDE DEF T
  <2>1. QED
    BY <1>4, <1>5, SetInduction
<1>7. Grouping(f[Len(list)], all)
  BY <1>6
<1>8. QED
  BY <1>1, <1>7 DEF Grouping, OpenInv, all

-----------------------------------------------------------------------------
(* What the entries are for: each is executed by some rank, a callstack is   *)
(* one of the program, and a block or loop is followed by the first entry it *)
(* holds, so that there is a callstack in it.                                *)
Whole(s, F, a, b) ==
  \A i \in a..b : /\ s[i].ranks # {}
                  /\ s[i].kind = "call" => s[i].flow \in F
                  /\ s[i].kind # "call" => i < b /\ s[i + 1].parent = i

Sound(t, F) == Whole(t, F, 1, Len(t))

LEMMA WholeJoined ==
  ASSUME NEW s, NEW F, NEW a \in Nat, NEW b \in Nat, NEW c \in Nat, b <= c,
         Whole(s, F, a, b), Whole(s, F, b + 1, c)
  PROVE  Whole(s, F, a, c)
<1> SUFFICES ASSUME NEW i \in a..c
             PROVE  /\ s[i].ranks # {}
                    /\ s[i].kind = "call" => s[i].flow \in F
                    /\ s[i].kind # "call" => i < c /\ s[i + 1].parent = i
  BY DEF Whole
<1>1. CASE i <= b
  <2>1. i \in a..b
    BY <1>1
  <2>2. i < b => i < c
    OBVIOUS
  <2>3. QED
    BY <2>1, <2>2 DEF Whole
<1>2. CASE ~ i <= b
  <2>1. i \in (b + 1)..c
    BY <1>2
  <2>2. QED
    BY <2>1 DEF Whole
<1>3. QED
  BY <1>1, <1>2

(* A block or loop before the first entry it holds. *)
LEMMA WholeBefore ==
  ASSUME NEW s, NEW F, NEW a \in Nat, NEW c \in Nat, a < c, Whole(s, F, a + 1, c),
         s[a].kind # "call", s[a].ranks # {}, s[a + 1].parent = a
  PROVE  Whole(s, F, a, c)
<1> SUFFICES ASSUME NEW i \in a..c
             PROVE  /\ s[i].ranks # {}
                    /\ s[i].kind = "call" => s[i].flow \in F
                    /\ s[i].kind # "call" => i < c /\ s[i + 1].parent = i
  BY DEF Whole
<1>1. i = a \/ i \in (a + 1)..c
  OBVIOUS
<1>2. QED
  BY <1>1 DEF Whole

LEMMA WholeSame ==
  ASSUME NEW s, NEW t, NEW F, NEW a \in Nat, NEW b \in Nat,
         Whole(t, F, a, b), \A i \in a..b : s[i] = t[i]
  PROVE  Whole(s, F, a, b)
<1> SUFFICES ASSUME NEW i \in a..b
             PROVE  /\ s[i].ranks # {}
                    /\ s[i].kind = "call" => s[i].flow \in F
                    /\ s[i].kind # "call" => i < b /\ s[i + 1].parent = i
  BY DEF Whole
<1>1. s[i] = t[i] /\ (i < b => i + 1 \in a..b)
  OBVIOUS
<1>2. i < b => s[i + 1] = t[i + 1]
  BY <1>1
<1>3. QED
  BY <1>1, <1>2 DEF Whole

LEMMA WholeLifted ==
  ASSUME NEW s, NEW F, NEW m \in Nat, NEW u \in Seq(Nodes), Sound(u, F), Holds(s, m, u),
         NEW l, l = m + Len(u)
  PROVE  Whole(s, F, m + 1, l)
<1> SUFFICES ASSUME NEW k \in (m + 1)..l
             PROVE  /\ s[k].ranks # {}
                    /\ s[k].kind = "call" => s[k].flow \in F
                    /\ s[k].kind # "call" => k < l /\ s[k + 1].parent = k
  BY DEF Whole
<1>1. Len(u) \in Nat /\ k - m \in 1..Len(u) /\ k \in Nat
  OBVIOUS
<1> DEFINE i == k - m
<1>2. i \in 1..Len(u) /\ k = m + i /\ i \in Nat /\ k + 1 = m + (i + 1)
  BY <1>1
<1> HIDE DEF i
<1>3. \A j \in 1..Len(u) : /\ s[m + j].ranks = u[j].ranks /\ s[m + j].kind = u[j].kind
                           /\ s[m + j].flow = u[j].flow
                           /\ s[m + j].parent = u[j].parent + m
  <2> SUFFICES ASSUME NEW j \in 1..Len(u)
               PROVE  /\ s[m + j].ranks = u[j].ranks /\ s[m + j].kind = u[j].kind
                      /\ s[m + j].flow = u[j].flow
                      /\ s[m + j].parent = u[j].parent + m
    OBVIOUS
  <2>1. s[m + j] = Lifted(u[j], m)
    BY DEF Holds
  <2> DEFINE x == u[j]
  <2>2. x \in Nodes
    OBVIOUS
  <2> HIDE DEF x
  <2>3. /\ Lifted(x, m).ranks = x.ranks /\ Lifted(x, m).kind = x.kind
        /\ Lifted(x, m).flow = x.flow /\ Lifted(x, m).parent = x.parent + m
    BY <2>2 DEF Lifted, Nodes
  <2>4. QED
    BY <2>1, <2>3 DEF x
<1>4. /\ u[i].ranks # {} /\ (u[i].kind = "call" => u[i].flow \in F)
      /\ u[i].kind # "call" => i < Len(u) /\ u[i + 1].parent = i
  BY <1>2 DEF Sound, Whole
<1>5. ASSUME u[i].kind # "call"
      PROVE  k < l /\ s[k + 1].parent = k
  <2>1. i < Len(u) /\ u[i + 1].parent = i
    BY <1>4, <1>5
  <2>2. i + 1 \in 1..Len(u)
    BY <1>1, <1>2, <2>1
  <2>3. s[m + (i + 1)].parent = u[i + 1].parent + m
    BY <1>3, <2>2
  <2>4. s[k + 1].parent = i + m
    BY <1>2, <2>1, <2>3
  <2>5. i + m = k /\ k < l
    BY <1>1, <1>2, <2>1
  <2>6. QED
    BY <2>4, <2>5
<1>6. s[k].ranks = u[i].ranks /\ s[k].kind = u[i].kind /\ s[k].flow = u[i].flow
  BY <1>2, <1>3
<1>7. QED
  BY <1>4, <1>5, <1>6

(* What an item becomes at the end of a tree. *)
ItemSound(it, inner, F) ==
  /\ it.ranks # {}
  /\ it.loop = 0 => it.flow \in F
  /\ it.loop # 0 => Sound(inner[it.loop], F)

Continues(s, n, L) == \A i \in 1..Len(L) : s[n + i] = L[i]

LEMMA ItemWhole ==
  ASSUME NEW s, NEW F, NEW n \in Nat, NEW it, NEW inner, ItemOK(it, inner), ItemSound(it, inner, F),
         NEW p, NEW L, ItemEntries(L, it, p, n, inner[it.loop]),
         NEW l, l = n + Len(L), Continues(s, n, L)
  PROVE  Whole(s, F, n + 1, l) /\ n < l /\ l \in Nat /\ s[n + 1].parent = p
<1>1. Len(L) \in Nat \ {0} /\ L \in Seq(Nodes) /\ L[1].parent = p /\ L[1].ranks = it.ranks
  BY DEF ItemEntries
<1>2. n < l /\ l \in Nat /\ s[n + 1] = L[1]
  BY <1>1 DEF Continues
<1>3. CASE it.loop = 0
  <2>1. Len(L) = 1 /\ L[1].kind = "call" /\ L[1].flow = it.flow
    BY <1>3 DEF ItemEntries
  <2>2. l = n + 1 /\ \A k \in (n + 1)..l : k = n + 1
    BY <2>1
  <2>3. QED
    BY <1>1, <1>2, <1>3, <2>1, <2>2 DEF Whole, ItemSound
<1>4. CASE it.loop # 0
  <2> DEFINE u == inner[it.loop]
             m == n + 1
  <2>1. IsBlock(u, it.ranks) /\ Len(L) = 1 + Len(u) /\ L[1].kind = "loop"
        /\ (\A i \in 1..Len(u) : L[1 + i] = Lifted(u[i], n + 1)) /\ Sound(u, F)
    BY <1>4 DEF ItemEntries, ItemSound
  <2>2. u \in Seq(Nodes) /\ Len(u) \in Nat \ {0} /\ u[1].parent = 0 /\ u[1] \in Nodes
    BY <2>1 DEF IsBlock, Nested
  <2> HIDE DEF u
  <2>3. m \in Nat /\ l = m + Len(u) /\ m < l
    BY <1>1, <2>1, <2>2
  <2>4. Holds(s, m, u)
    <3>1. ASSUME NEW i \in 1..Len(u)
          PROVE  s[m + i] = Lifted(u[i], m)
      <4>1. 1 + i \in 1..Len(L) /\ n + (1 + i) = m + i
        <5>1. Len(L) = 1 + Len(u) /\ Len(u) \in Nat /\ i \in 1..Len(u)
          BY <2>1, <2>2, <3>1
        <5>2. 1 + i \in 1..Len(L)
          BY <5>1
        <5>3. n + (1 + i) = m + i
          BY <5>1
        <5>4. QED
          BY <5>2, <5>3
      <4>2. s[n + (1 + i)] = L[1 + i]
        BY <4>1 DEF Continues
      <4>3. QED
        BY <2>1, <4>1, <4>2
    <3> HIDE DEF m
    <3>2. QED
      BY <3>1 DEF Holds
  <2>5. s[m + 1].parent = m
    <3>1. s[m + 1] = Lifted(u[1], m)
      BY <2>2, <2>4 DEF Holds
    <3>2. Lifted(u[1], m).parent = 0 + m
      BY <2>2 DEF Lifted, Nodes
    <3>3. QED
      BY <2>3, <3>1, <3>2
  <2>6. s[m].kind # "call" /\ s[m].ranks # {}
    BY <1>1, <1>2, <2>1 DEF ItemSound
  <2> HIDE DEF m
  <2>7. Whole(s, F, m + 1, l)
    BY <2>1, <2>2, <2>3, <2>4, WholeLifted
  <2>8. l \in Nat
    BY <1>2
  <2>9. Whole(s, F, m, l)
    BY <2>3, <2>5, <2>6, <2>7, <2>8, WholeBefore
  <2>10. QED
    BY <1>1, <1>2, <2>9 DEF m
<1>5. QED
  BY <1>3, <1>4

(* A tree before its first item is a block that holds nothing yet. *)
AlmostSound(t, F) ==
  Sound(t, F) \/ (Len(t) = 1 /\ t[1].kind = "crb" /\ t[1].ranks # {})

LEMMA TreeGrown ==
  ASSUME NEW s, NEW t, NEW F, AlmostSound(t, F), NEW n, n = Len(t), n \in Nat \ {0}, NEW l \in Nat,
         n < l, \A i \in 1..n : s[i] = t[i], Whole(s, F, n + 1, l), s[n + 1].parent \in 1..n
  PROVE  Whole(s, F, 1, l)
<1>1. CASE Sound(t, F)
  <2>1. Whole(s, F, 1, n)
    BY <1>1, WholeSame DEF Sound
  <2>2. QED
    BY <2>1, WholeJoined
<1>2. CASE Len(t) = 1 /\ t[1].kind = "crb" /\ t[1].ranks # {}
  <2>1. s[1].kind # "call" /\ s[1].ranks # {} /\ s[1 + 1].parent = 1 /\ 1 < l /\ Whole(s, F, 1 + 1, l)
    BY <1>2
  <2>2. QED
    BY <2>1, WholeBefore
<1>3. QED
  BY <1>1, <1>2 DEF AlmostSound

(* s is t and, after that, something whole in its entry p. *)
Grown(s, t, F, p) ==
  /\ s \in Seq(Nodes) /\ Len(s) \in Nat /\ Len(t) < Len(s)
  /\ \A i \in 1..Len(t) : s[i] = t[i]
  /\ Whole(s, F, Len(t) + 1, Len(s)) /\ s[Len(t) + 1].parent = p

(* An item put into block p of a tree. *)
LEMMA ItemGrown ==
  ASSUME NEW t \in Seq(Nodes), NEW F, NEW it, NEW inner, ItemOK(it, inner), ItemSound(it, inner, F),
         NEW p \in Nat, NEW s, s = t \o Entries(it, p, Len(t), inner)
  PROVE  Grown(s, t, F, p)
<1> DEFINE n == Len(t)
           L == Entries(it, p, n, inner)
<1>1. n \in Nat
  OBVIOUS
<1> HIDE DEF n, L
<1>2. ItemEntries(L, it, p, n, inner[it.loop])
  BY <1>1, EntriesFacts DEF L
<1>3. L \in Seq(Nodes) /\ s = t \o L
  BY <1>2 DEF ItemEntries, L, n
<1>4. /\ s \in Seq(Nodes) /\ Len(s) = n + Len(L)
      /\ \A i \in 1..n : s[i] = t[i]
      /\ \A i \in 1..Len(L) : s[n + i] = L[i]
  BY <1>3, JoinedFacts DEF n
<1> DEFINE l == Len(s)
<1> HIDE DEF l
<1>5. l = n + Len(L) /\ Continues(s, n, L)
  BY <1>4 DEF l, Continues
<1>6. Whole(s, F, n + 1, l) /\ n < l /\ l \in Nat /\ s[n + 1].parent = p
  BY <1>1, <1>2, <1>5, ItemWhole
<1>7. QED
  BY <1>4, <1>6 DEF n, l, Grown

LEMMA CallstackSound ==
  ASSUME NEW g, NEW all, Grouping(g, all), NEW F, AlmostSound(g.entries, F),
         NEW it, NEW inner, ItemOK(it, inner), ItemSound(it, inner, F), it.ranks \subseteq all
  PROVE  Sound(add_callstack(g, it, inner).entries, F)
<1> DEFINE t == g.entries
           n == Len(t)
           open == g.open
           j == Place(open, it.ranks)
           p == g.at[j]
           R == it.ranks
<1>1. /\ OpenInv(open, g.at, t, all)
      /\ open \in Seq(SUBSET Rank) /\ Len(open) # 0 /\ R \subseteq open[1] /\ R \in SUBSET Rank
      /\ n \in Nat \ {0} /\ t \in Seq(Nodes) /\ R # {}
  BY DEF Grouping, OpenInv, IsBlock, Nested, ItemOK, ItemSound
<1>2. j \in 1..Len(open)
  <2>1. open \in Seq(SUBSET Rank) /\ Len(open) # 0 /\ R \subseteq open[1] /\ j = Place(open, R)
    BY <1>1
  <2> HIDE DEF R, j, open
  <2>2. QED
    BY <2>1, PlaceFacts
<1> HIDE DEF j
<1>3. p \in 1..n /\ p \in Nat
  BY <1>1, <1>2 DEF OpenInv
<1>4. CASE open[j] = R
  <2> DEFINE s == t \o Entries(it, p, Len(t), inner)
  <2>1. add_callstack(g, it, inner).entries = s
    BY <1>4 DEF add_callstack, j
  <2>6. s = t \o Entries(it, p, Len(t), inner) /\ t \in Seq(Nodes) /\ p \in Nat
    BY <1>1, <1>3
  <2> HIDE DEF s, p, t
  <2>2. /\ s \in Seq(Nodes) /\ Len(s) \in Nat /\ n < Len(s)
        /\ \A i \in 1..n : s[i] = t[i]
        /\ Whole(s, F, n + 1, Len(s)) /\ s[n + 1].parent = p
    <3>1. Grown(s, t, F, p)
      BY <2>6, ItemGrown
    <3>2. QED
      BY <3>1 DEF Grown
  <2>3. AlmostSound(t, F)
    BY DEF t
  <2>4. Whole(s, F, 1, Len(s))
    <3> DEFINE l == Len(s)
    <3>1. l \in Nat /\ n < l /\ Whole(s, F, n + 1, l) /\ n = Len(t)
      BY <2>2
    <3> HIDE DEF l, n
    <3>2. Whole(s, F, 1, l)
      BY <1>1, <1>3, <2>2, <2>3, <3>1, TreeGrown
    <3>3. QED
      BY <3>2 DEF l
  <2>5. QED
    BY <2>1, <2>4 DEF Sound
<1>5. CASE open[j] # R
  <2> DEFINE x == Entry("crb", p, R, 0, 0)
             b == Append(t, x)
             s == b \o Entries(it, n + 1, n + 1, inner)
  <2>1. add_callstack(g, it, inner).entries = s
    BY <1>5 DEF add_callstack, j
  <2>2. x \in Nodes /\ x.kind # "call" /\ x.ranks = R /\ x.parent = p
    BY <1>1, <1>3 DEF Entry, Nodes, LoopNames
  <2> HIDE DEF x
  <2>3. b \in Seq(Nodes) /\ Len(b) = n + 1 /\ b[n + 1] = x /\ \A i \in 1..n : b[i] = t[i]
    BY <1>1, <2>2, LongerFacts
  <2> DEFINE m == n + 1
  <2>4. m \in Nat /\ m = Len(b) /\ n < m
    BY <1>1, <2>3
  <2>5. s = b \o Entries(it, m, Len(b), inner)
    BY <2>3
  <2>15. b \in Seq(Nodes)
    BY <2>3
  <2> HIDE DEF s, b, p, t, n, m, R
  <2>6. /\ s \in Seq(Nodes) /\ Len(s) \in Nat /\ m < Len(s)
        /\ \A i \in 1..m : s[i] = b[i]
        /\ Whole(s, F, m + 1, Len(s)) /\ s[m + 1].parent = m
    <3>1. Grown(s, b, F, m)
      BY <2>4, <2>5, <2>15, ItemGrown
    <3>2. QED
      BY <2>4, <3>1 DEF Grown
  <2> DEFINE l == Len(s)
  <2>7. l \in Nat /\ m < l /\ Whole(s, F, m + 1, l)
    BY <2>6
  <2> HIDE DEF l
  <2>8. m \in 1..m /\ s[m] = x
    BY <1>1, <2>3, <2>4, <2>6 DEF m
  <2>9. Whole(s, F, m, l)
    BY <1>1, <2>2, <2>4, <2>6, <2>7, <2>8, WholeBefore
  <2>10. \A i \in 1..n : s[i] = t[i]
    <3>1. \A i \in 1..n : i \in 1..m
      BY <1>1, <2>4
    <3>2. QED
      BY <2>3, <2>6, <3>1
  <2>11. Whole(s, F, n + 1, l) /\ n < l /\ s[n + 1].parent \in 1..n
    BY <1>1, <1>3, <2>2, <2>4, <2>7, <2>8, <2>9 DEF m
  <2>12. AlmostSound(t, F) /\ n = Len(t)
    BY DEF t, n
  <2>13. Whole(s, F, 1, l)
    BY <1>1, <2>7, <2>10, <2>11, <2>12, TreeGrown
  <2>14. QED
    BY <2>1, <2>13 DEF Sound, l
<1>6. QED
  BY <1>4, <1>5

(* A loop with callstacks is grouped into a sound tree. *)
LEMMA GroupedIsSound ==
  ASSUME NEW list, NEW inner, NEW F, Len(list) \in Nat, DOMAIN list = 1..Len(list), Len(list) # 0,
         \A i \in DOMAIN list : ItemOK(list[i], inner) /\ ItemSound(list[i], inner, F)
  PROVE  Sound(Grouped(list, inner), F)
<1> DEFINE all == RanksOf(list)
           f == CHOOSE g : g = [k \in 0..Len(list) |->
                                  IF k = 0 THEN Opened(all) ELSE add_callstack(g[k - 1], list[k], inner)]
           Good(g) == Grouping(g, all) /\ AlmostSound(g.entries, F)
           T == {k \in Nat : k \in 0..Len(list) =>
                               Good(f[k]) /\ (k # 0 => Sound(f[k].entries, F))}
<1>1. Grouped(list, inner) = f[Len(list)].entries
  BY Zenon DEF Grouped, RanksOf, Opened
<1>2. all \in SUBSET Rank /\ (\A i \in DOMAIN list : list[i].ranks \subseteq all) /\ all # {}
  <2>1. all \in SUBSET Rank /\ \A i \in DOMAIN list : list[i].ranks \subseteq all
    BY DEF RanksOf, ItemOK
  <2>2. 1 \in DOMAIN list /\ list[1].ranks # {}
    BY DEF ItemSound
  <2> HIDE DEF all
  <2>3. QED
    BY <2>1, <2>2
<1> HIDE DEF all
<1>3. Adding(f, list, inner, all, Len(list))
  <2>1. \E g : g = [k \in 0..Len(list) |->
                      IF k = 0 THEN Opened(all) ELSE add_callstack(g[k - 1], list[k], inner)]
    <3>1. \E g : Adding(g, list, inner, all, Len(list))
      <4> HIDE DEF f
      <4>1. QED
        BY AddingExists
    <3>2. QED
      BY <3>1, Zenon DEF Adding
  <2>2. QED
    BY <2>1, Zenon DEF Adding
<1> HIDE DEF f
<1>4. 0 \in T
  <2>1. 0 \in 0..Len(list)
    OBVIOUS
  <2>2. f[0] = Opened(all)
    BY <1>3, <2>1, AddingAt
  <2>3. AlmostSound(Opened(all).entries, F)
    BY <1>2 DEF AlmostSound, Opened, Entry
  <2>4. QED
    BY <1>2, <2>2, <2>3, OpenedFacts
<1>5. ASSUME NEW k \in Nat, k \in T
      PROVE  k + 1 \in T
  <2> SUFFICES ASSUME k + 1 \in 0..Len(list)
               PROVE  Good(f[k + 1]) /\ Sound(f[k + 1].entries, F)
    OBVIOUS
  <2>1. k \in 0..Len(list) /\ k + 1 \in 1..Len(list) /\ k + 1 - 1 = k /\ k + 1 # 0
    OBVIOUS
  <2>2. f[k + 1] = add_callstack(f[k], list[k + 1], inner)
    <3>1. f[k + 1] = IF k + 1 = 0 THEN Opened(all) ELSE add_callstack(f[k + 1 - 1], list[k + 1], inner)
      BY <1>3, AddingAt
    <3>2. QED
      BY <2>1, <3>1
  <2>3. Good(f[k])
    BY <1>5, <2>1
  <2> DEFINE g == f[k]
             it == list[k + 1]
  <2>4. /\ Grouping(g, all) /\ AlmostSound(g.entries, F)
        /\ ItemOK(it, inner) /\ ItemSound(it, inner, F) /\ it.ranks \subseteq all
    BY <1>2, <2>1, <2>3
  <2> HIDE DEF g, it
  <2>5. Grouping(add_callstack(g, it, inner), all)
    BY <2>4, CallstackAdded
  <2>6. Sound(add_callstack(g, it, inner).entries, F)
    BY <2>4, CallstackSound
  <2>7. QED
    BY <2>2, <2>5, <2>6 DEF g, it, AlmostSound
<1>6. Len(list) \in T
  <2> HIDE DEF T
  <2>1. QED
    BY <1>4, <1>5, SetInduction
<1>7. QED
  BY <1>1, <1>6

(* The blocks in the outer loop. *)
LEMMA TreeNested ==
  ASSUME NEW blocks, NEW R \in SUBSET Rank, IsBlock(blocks, R), NEW F, Sound(blocks, F),
         NEW t, t = <<Entry("loop", 0, blocks[1].ranks, 0, 0)>> \o Moved(blocks, 1)
  PROVE  Nested(t) /\ Sound(t, F)
<1> DEFINE x == Entry("loop", 0, R, 0, 0)
           w == <<x>>
           v == Moved(blocks, 1)
<1>1. /\ blocks \in Seq(Nodes) /\ blocks[1].ranks = R /\ Len(blocks) \in Nat
  BY DEF IsBlock, Nested
<1>2. x \in Nodes /\ x.kind = "loop" /\ x.parent = 0 /\ x.ranks = R
  BY DEF Entry, Nodes, LoopNames
<1>3. t = w \o v
  BY <1>1
<1> HIDE DEF x
<1>4. w \in Seq(Nodes) /\ Len(w) = 1 /\ w[1] = x
  BY <1>2
<1>5. /\ v \in Seq(Nodes) /\ Len(v) = Len(blocks)
      /\ \A i \in 1..Len(blocks) : v[i] = Lifted(blocks[i], 1)
  <2>1. 1 \in Nat
    OBVIOUS
  <2> HIDE DEF w
  <2>2. QED
    BY <1>1, <2>1, MovedFacts
<1> HIDE DEF w, v
<1>6. /\ w \o v \in Seq(Nodes) /\ Len(w \o v) = Len(w) + Len(v)
      /\ \A i \in 1..Len(w) : (w \o v)[i] = w[i]
      /\ \A i \in 1..Len(v) : (w \o v)[Len(w) + i] = v[i]
  <2>1. w \in Seq(Nodes)
    BY <1>4
  <2>2. v \in Seq(Nodes)
    BY <1>5
  <2>3. QED
    BY ONLY <2>1, <2>2, JoinedFacts
<1>7. t \in Seq(Nodes) /\ Len(t) = 1 + Len(blocks) /\ t[1] = x
  <2> DEFINE c == w \o v
  <2>1. c \in Seq(Nodes) /\ Len(c) = Len(w) + Len(v) /\ \A i \in 1..Len(w) : c[i] = w[i]
    BY <1>6
  <2>2. t = c
    BY <1>3
  <2> HIDE DEF c
  <2>3. 1 \in 1..Len(w)
    BY <1>4
  <2>4. c[1] = x /\ Len(c) = 1 + Len(blocks)
    BY <1>4, <1>5, <2>1, <2>3
  <2>5. QED
    BY <2>1, <2>2, <2>4
<1>8. Holds(t, 1, blocks)
  BY <1>3, <1>4, <1>5, <1>6 DEF Holds
<1>9. \A e \in 1..1 : t[e].parent \in Nat /\ t[e].parent < e
  BY <1>2, <1>7
<1>10. \A e \in (1 + 1)..Len(t) : Fits(t, e)
  <2>1. 1 \in Nat \ {0} /\ t[1].kind = "loop" /\ t[1].ranks = R
    BY <1>2, <1>7
  <2>2. QED
    BY <1>7, <1>8, <1>9, <2>1, BodyFits
<1>11. Sound(t, F)
  <2> DEFINE l == Len(t)
  <2>1. l = 1 + Len(blocks) /\ l \in Nat /\ Len(blocks) \in Nat \ {0} /\ 1 < l
    BY <1>1, <1>7 DEF IsBlock, Nested
  <2> HIDE DEF l
  <2>2. Whole(t, F, 1 + 1, l)
    BY <1>1, <1>8, <2>1, WholeLifted
  <2>3. R # {}
    BY <1>1, <2>1 DEF Sound, Whole
  <2>4. t[1 + 1].parent = 1
    <3>1. 1 \in 1..Len(blocks)
      BY <2>1
    <3>2. t[1 + 1] = Lifted(blocks[1], 1)
      BY <1>8, <3>1 DEF Holds
    <3>3. blocks[1] \in Nodes /\ blocks[1].parent = 0
      BY <1>1, <3>1 DEF IsBlock, Nested
    <3> DEFINE y == blocks[1]
    <3>4. y \in Nodes /\ y.parent = 0
      BY <3>3
    <3> HIDE DEF y
    <3>5. Lifted(y, 1).parent = y.parent + 1
      BY <3>4 DEF Lifted, Nodes
    <3>6. Lifted(y, 1).parent = 1
      BY <3>4, <3>5
    <3>7. QED
      BY <3>2, <3>6 DEF y
  <2>5. Whole(t, F, 1, l)
    BY <1>2, <1>7, <2>1, <2>2, <2>3, <2>4, WholeBefore
  <2>6. QED
    BY <2>5 DEF Sound, l
<1>12. QED
  BY <1>1, <1>2, <1>7, <1>10, <1>11 DEF Nested

LEMMA NestedBlocks ==
  ASSUME Nested(tree)
  PROVE  BlocksNest
<1>1. Len(tree) \in Nat /\ DOMAIN tree = 1..Len(tree)
  BY DEF Nested
<1>2. SUFFICES ASSUME NEW e \in DOMAIN tree \ {1}
               PROVE  LET p        == tree[e].parent
                          siblings == {b \in DOMAIN tree : b < e /\ tree[b].parent = p}
                          last     == CHOOSE b \in siblings : \A c \in siblings : c <= b
                      IN /\ tree[p].kind = "loop" => tree[e].kind = "crb" /\ tree[e].ranks = tree[p].ranks
                         /\ tree[p].kind = "crb" =>
                              /\ tree[e].ranks \subseteq tree[p].ranks
                              /\ (tree[e].kind = "crb") <=> (tree[e].ranks # tree[p].ranks)
                         /\ tree[e].kind = "crb" /\ siblings # {} /\ tree[last].kind = "crb"
                            => tree[last].ranks # tree[e].ranks
  BY Zenon DEF BlocksNest
<1> DEFINE p        == tree[e].parent
           siblings == {b \in DOMAIN tree : b < e /\ tree[b].parent = p}
           last     == CHOOSE b \in siblings : \A c \in siblings : c <= b
<1>3. Fits(tree, e) /\ e \in Nat /\ e - 1 \in Nat
  BY <1>1 DEF Nested
<1>4. ASSUME siblings # {}
      PROVE  LastIn(tree, e - 1, p, last)
  <2>1. \A b : b \in siblings <=> b \in 1..(e - 1) /\ tree[b].parent = p
    BY <1>1
  <2>2. siblings \in SUBSET (1..(e - 1))
    BY <2>1
  <2> HIDE DEF p, siblings
  <2>3. \E b \in siblings : \A c \in siblings : c <= b
    <3> DEFINE n == e - 1
    <3>1. n \in Nat /\ siblings \in SUBSET (1..n)
      BY <1>3, <2>2
    <3> HIDE DEF n
    <3>2. QED
      BY <1>4, <3>1, GreatestExists
  <2>4. last \in siblings /\ \A c \in siblings : c <= last
    BY <2>3, Zenon
  <2> HIDE DEF last
  <2>5. QED
    BY <2>1, <2>4 DEF LastIn
<1>5. ASSUME tree[e].kind = "crb", siblings # {}, tree[last].kind = "crb"
      PROVE  tree[last].ranks # tree[e].ranks
  <2>1. LastIn(tree, e - 1, p, last)
    BY <1>4, <1>5
  <2> HIDE DEF last, siblings
  <2>2. QED
    BY <1>3, <1>5, <2>1 DEF Fits
<1>6. /\ tree[p].kind = "loop" => tree[e].kind = "crb" /\ tree[e].ranks = tree[p].ranks
      /\ tree[p].kind = "crb" => /\ tree[e].ranks \subseteq tree[p].ranks
                                 /\ (tree[e].kind = "crb") <=> (tree[e].ranks # tree[p].ranks)
  BY <1>3 DEF Fits
<1>7. QED
  <2> HIDE DEF last, siblings, p
  <2>1. QED
    BY <1>5, <1>6, Zenon DEF p, siblings, last

-----------------------------------------------------------------------------
(* The elements of lists. *)

LEMMA FlattenElements ==
  ASSUME NEW S
  PROVE  \A q \in Seq(Seq(S)) : \A x :
           x \in ToSet(FlattenSeq(q)) <=> \E i \in 1..Len(q) : x \in ToSet(q[i])
<1> DEFINE Same(q) == \A x : x \in ToSet(FlattenSeq(q)) <=> \E i \in 1..Len(q) : x \in ToSet(q[i])
           T == {n \in Nat : \A q \in Seq(Seq(S)) : Len(q) = n => Same(q)}
<1>1. 0 \in T
  <2> SUFFICES ASSUME NEW q \in Seq(Seq(S)), Len(q) = 0
               PROVE  Same(q)
    OBVIOUS
  <2>1. FlattenSeq(q) = q
    BY FlattenSeqDef
  <2>2. ToSet(q) = {}
    BY DEF ToSet
  <2>3. QED
    BY <2>1, <2>2
<1>2. ASSUME NEW n \in Nat, n \in T
      PROVE  n + 1 \in T
  <2> SUFFICES ASSUME NEW q \in Seq(Seq(S)), Len(q) = n + 1
               PROVE  Same(q)
    OBVIOUS
  <2> DEFINE h == Head(q)
             r == Tail(q)
  <2>1. /\ q # <<>> /\ h = q[1] /\ h \in Seq(S) /\ r \in Seq(Seq(S)) /\ Len(r) = n
        /\ \A i \in 1..n : r[i] = q[i + 1]
    <3> DEFINE A == Seq(S)
    <3>1. q \in Seq(A) /\ q # <<>>
      OBVIOUS
    <3> HIDE DEF A
    <3>2. /\ h = q[1] /\ h \in A /\ r \in Seq(A) /\ Len(r) = Len(q) - 1
          /\ \A i \in 1..Len(r) : r[i] = q[i + 1]
      BY <3>1, HeadAndRest
    <3>3. Len(r) = n
      BY <3>2
    <3>4. QED
      BY <3>1, <3>2, <3>3 DEF A
  <2>2. FlattenSeq(q) = h \o FlattenSeq(r)
    BY <2>1, FlattenHead
  <2> HIDE DEF h, r
  <2>3. FlattenSeq(r) \in Seq(S) /\ Same(r)
    BY <1>2, <2>1, FlattenType
  <2>4. ToSet(FlattenSeq(q)) = ToSet(h) \cup ToSet(FlattenSeq(r))
    BY <2>1, <2>2, <2>3, RangeConcat
  <2>5. ASSUME NEW x
        PROVE  (\E i \in 1..Len(q) : x \in ToSet(q[i])) <=>
                 x \in ToSet(q[1]) \/ \E i \in 1..n : x \in ToSet(q[i + 1])
    <3>1. \A i \in 1..Len(q) : i = 1 \/ (i - 1 \in 1..n /\ (i - 1) + 1 = i)
      OBVIOUS
    <3>2. 1 \in 1..Len(q) /\ \A i \in 1..n : i + 1 \in 1..Len(q)
      OBVIOUS
    <3>3. ASSUME NEW i \in 1..Len(q), x \in ToSet(q[i])
          PROVE  x \in ToSet(q[1]) \/ \E k \in 1..n : x \in ToSet(q[k + 1])
      <4>1. CASE i = 1
        BY <3>3, <4>1
      <4>2. CASE i # 1
        <5>1. PICK k \in 1..n : k + 1 = i
          BY <3>1, <4>2
        <5>2. QED
          BY <3>3, <5>1
      <4>3. QED
        BY <4>1, <4>2
    <3>4. QED
      BY <3>2, <3>3
  <2>6. QED
    BY <2>1, <2>3, <2>4, <2>5
<1>3. ASSUME NEW q \in Seq(Seq(S))
      PROVE  Same(q)
  <2>1. \A n \in Nat : n \in T
    <3> HIDE DEF T
    <3>1. QED
      BY <1>1, <1>2, SetInduction
  <2>2. Len(q) \in T
    BY <2>1
  <2>3. QED
    BY <2>2
<1>4. QED
  BY <1>3

LEMMA LeastExists ==
  ASSUME NEW S \in SUBSET Nat, S # {}
  PROVE  \E m \in S : \A k \in S : m <= k
<1> DEFINE T == {n \in Nat : \A k \in Nat : k <= n => k \notin S}
<1>1. SUFFICES ASSUME \A m \in S : \E k \in S : ~ m <= k
               PROVE  FALSE
  OBVIOUS
<1>2. 0 \in T
  <2>1. \A k \in Nat : k <= 0 => k = 0
    OBVIOUS
  <2>2. 0 \notin S
    BY <1>1
  <2>3. QED
    BY <2>1, <2>2
<1>3. ASSUME NEW n \in Nat, n \in T
      PROVE  n + 1 \in T
  <2>1. \A k \in Nat : k <= n + 1 => k <= n \/ k = n + 1
    OBVIOUS
  <2>2. n + 1 \notin S
    <3>1. SUFFICES ASSUME n + 1 \in S
                   PROVE  FALSE
      OBVIOUS
    <3>2. PICK k \in S : ~ n + 1 <= k
      BY <1>1, <3>1
    <3>3. k \in Nat /\ k <= n
      BY <3>2
    <3>4. QED
      BY <1>3, <3>3
  <2>3. QED
    BY <1>3, <2>1, <2>2
<1>4. \A n \in Nat : n \in T
  <2> HIDE DEF T
  <2>1. QED
    BY <1>2, <1>3, SetInduction
<1>5. PICK x \in S : TRUE
  OBVIOUS
<1>6. x \in T
  BY <1>4
<1>7. QED
  BY <1>6

(* The ranks of a callstack can be put in order. *)
Downwards(down) == \A i, j \in DOMAIN down : i < j => down[i] > down[j]

LEMMA DownExists ==
  ASSUME NEW S \in SUBSET Nat, IsFiniteSet(S)
  PROVE  \E down \in [1..Cardinality(S) -> S] : Downwards(down)
<1> DEFINE T == {n \in Nat : \A R \in SUBSET Nat : IsFiniteSet(R) /\ Cardinality(R) = n =>
                               \E down \in [1..n -> R] : Downwards(down)}
<1>1. 0 \in T
  <2> SUFFICES ASSUME NEW R \in SUBSET Nat
               PROVE  \E down \in [1..0 -> R] : Downwards(down)
    OBVIOUS
  <2> DEFINE down == [i \in 1..0 |-> 0]
  <2>1. \A i \in 1..0 : FALSE
    OBVIOUS
  <2>2. down \in [1..0 -> R] /\ DOMAIN down = 1..0
    BY <2>1
  <2> HIDE DEF down
  <2>3. Downwards(down)
    BY <2>1, <2>2 DEF Downwards
  <2>4. QED
    BY <2>2, <2>3
<1>2. ASSUME NEW n \in Nat, n \in T
      PROVE  n + 1 \in T
  <2> SUFFICES ASSUME NEW R \in SUBSET Nat, IsFiniteSet(R), Cardinality(R) = n + 1
               PROVE  \E down \in [1..(n + 1) -> R] : Downwards(down)
    OBVIOUS
  <2>1. R # {}
    BY FS_EmptySet
  <2>2. PICK m \in R : \A k \in R : m <= k
    BY <2>1, LeastExists
  <2>3. IsFiniteSet(R \ {m}) /\ Cardinality(R \ {m}) = n
    <3>1. IsFiniteSet(R \ {m}) /\ Cardinality(R \ {m}) = Cardinality(R) - 1
      BY <2>2, FS_RemoveElement
    <3>2. QED
      BY <3>1
  <2>4. PICK d \in [1..n -> R \ {m}] : Downwards(d)
    BY <1>2, <2>3
  <2> DEFINE down == [i \in 1..(n + 1) |-> IF i = n + 1 THEN m ELSE d[i]]
  <2>5. \A i \in 1..(n + 1) : i = n + 1 \/ i \in 1..n
    OBVIOUS
  <2>6. /\ DOMAIN down = 1..(n + 1) /\ down[n + 1] = m
        /\ \A i \in 1..n : down[i] = d[i] /\ d[i] \in R /\ d[i] # m /\ d[i] \in Nat
    <3>1. n + 1 \in 1..(n + 1) /\ \A i \in 1..n : i \in 1..(n + 1) /\ i # n + 1
      OBVIOUS
    <3>2. \A i \in 1..n : d[i] \in R \ {m}
      OBVIOUS
    <3>3. QED
      BY <3>1, <3>2
  <2>7. down \in [1..(n + 1) -> R]
    BY <2>2, <2>5, <2>6
  <2> HIDE DEF down
  <2>8. ASSUME NEW i \in 1..(n + 1), NEW j \in 1..(n + 1), i < j
        PROVE  down[i] > down[j]
    <3>1. i \in 1..n
      BY <2>8
    <3>2. CASE j = n + 1
      <4>1. down[j] = m /\ down[i] = d[i] /\ d[i] \in R /\ d[i] # m /\ d[i] \in Nat /\ m \in Nat
        BY <2>2, <2>6, <3>1, <3>2
      <4>2. m <= d[i]
        BY <2>2, <4>1
      <4>3. QED
        BY <4>1, <4>2
    <3>3. CASE j # n + 1
      <4>1. j \in 1..n /\ down[i] = d[i] /\ down[j] = d[j]
        BY <2>5, <2>6, <3>1, <3>3
      <4>2. DOMAIN d = 1..n
        OBVIOUS
      <4>3. d[i] > d[j]
        BY <2>4, <2>8, <3>1, <4>1, <4>2 DEF Downwards
      <4>4. QED
        BY <4>1, <4>3
    <3>4. QED
      BY <3>2, <3>3
  <2>9. Downwards(down)
    BY <2>6, <2>8 DEF Downwards
  <2>10. QED
    BY <2>7, <2>9
<1>3. \A n \in Nat : n \in T
  <2> HIDE DEF T
  <2>1. QED
    BY <1>1, <1>2, SetInduction
<1>4. Cardinality(S) \in T
  <2>1. Cardinality(S) \in Nat
    BY FS_CardinalityType
  <2>2. QED
    BY <1>3, <2>1
<1>5. QED
  BY <1>4

LEMMA RanksDownFacts ==
  ASSUME NEW R \in SUBSET Rank
  PROVE  /\ Cardinality(R) \in Nat
         /\ \A i \in 1..Cardinality(R) : RanksDown(R)[i] \in R
         /\ \A r \in R : \E i \in 1..Cardinality(R) : RanksDown(R)[i] = r
<1> DEFINE n == Cardinality(R)
           down == RanksDown(R)
<1>1. R \in SUBSET Nat /\ IsFiniteSet(R)
  BY RankAssumption, FS_Subset
<1>2. n \in Nat /\ IsFiniteSet(1..n) /\ Cardinality(1..n) = n
  <2>1. n \in Nat
    BY <1>1, FS_CardinalityType
  <2> HIDE DEF n
  <2>2. IsFiniteSet(1..n) /\ Cardinality(1..n) = IF 1 > n THEN 0 ELSE n - 1 + 1
    BY <2>1, FS_Interval
  <2>3. QED
    BY <2>1, <2>2
<1>3. \E d \in [1..n -> R] : \A i, j \in DOMAIN d : i < j => d[i] > d[j]
  BY <1>1, DownExists DEF Downwards
<1>4. down \in [1..n -> R] /\ \A i, j \in DOMAIN down : i < j => down[i] > down[j]
  BY <1>3, Zenon DEF RanksDown
<1> HIDE DEF n, down
<1>5. ASSUME NEW r \in R, \A i \in 1..n : down[i] # r
      PROVE  FALSE
  <2> DEFINE Q == R \ {r}
             I == 1..n
  <2>1. down \in [I -> Q]
    BY <1>4, <1>5
  <2>2. IsFiniteSet(Q) /\ Cardinality(Q) = Cardinality(R) - 1
    BY <1>1, <1>5, FS_RemoveElement
  <2>3. Cardinality(Q) < Cardinality(I) /\ IsFiniteSet(I)
    BY <1>2, <2>2 DEF n
  <2> HIDE DEF Q, I
  <2>4. PICK x \in I, y \in I : x # y /\ down[x] = down[y]
    BY <2>1, <2>2, <2>3, FS_PigeonHole
  <2>5. x \in 1..n /\ y \in 1..n /\ DOMAIN down = 1..n
    BY <1>4 DEF I
  <2>6. down[x] \in Nat
    BY <1>1, <1>4, <2>5
  <2>7. x < y \/ y < x
    BY <1>2, <2>4, <2>5
  <2>8. down[x] > down[y] \/ down[y] > down[x]
    BY <1>4, <2>5, <2>7
  <2>9. QED
    BY <2>4, <2>6, <2>8
<1>6. QED
  BY <1>2, <1>4, <1>5 DEF n, down

-----------------------------------------------------------------------------
(* The lists of a loop's callstacks. *)

LoopsOf(src)             == {src[f].loop : f \in DOMAIN src}
BlockRanks(src, rks, n)  == UNION {rks[g] : g \in {f \in DOMAIN src : src[f].loop = n}}

(* In the list of an inner loop there are callstacks only; in that of the    *)
(* outer loop, inner loops for the ranks that execute any of their           *)
(* callstacks.                                                               *)
Items(src, rks, n) ==
  {it \in [flow : Nat, loop : LoopNames, ranks : SUBSET Rank] :
     it.loop # 0 => n = 0 /\ it.loop \in LoopsOf(src) /\ it.ranks = BlockRanks(src, rks, it.loop)}

ListOK(list, src, rks, n) ==
  /\ list \in Seq(Items(src, rks, n))
  /\ n # 0 => RanksOf(list) = BlockRanks(src, rks, n)

LEMMA RanksOfFacts ==
  ASSUME NEW list
  PROVE  \A r : r \in RanksOf(list) <=> \E it \in ToSet(list) : r \in it.ranks
BY DEF RanksOf, ToSet

SourceOK ==
  /\ source \in Source
  /\ ranks \in [DOMAIN source -> (SUBSET Rank) \ {{}}]

LEMMA SourceFacts ==
  ASSUME SourceOK
  PROVE  /\ Len(source) \in Nat /\ DOMAIN source = 1..Len(source)
         /\ \A f \in DOMAIN source : /\ f \in Nat /\ source[f].loop \in LoopNames
                                     /\ source[f].loop \in LoopsOf(source)
                                     /\ ranks[f] \in SUBSET Rank
         /\ \A n : BlockRanks(source, ranks, n) \in SUBSET Rank
         /\ Loops = LoopsOf(source) /\ Loops \subseteq LoopNames
<1>1. source \in Seq(ToSet(source))
  BY SourceAssumption DEF SourceOK
<1>2. Len(source) \in Nat /\ DOMAIN source = 1..Len(source)
  BY <1>1
<1>3. \A f \in DOMAIN source : f \in Nat
  BY <1>2
<1>4. \A f \in DOMAIN source : source[f].loop \in LoopNames
  BY <1>3 DEF SourceOK, LoopNames
<1>5. \A f \in DOMAIN source : source[f].loop \in LoopsOf(source)
  BY DEF LoopsOf
<1>6. \A f \in DOMAIN source : ranks[f] \in SUBSET Rank
  BY DEF SourceOK
<1>7. \A n : BlockRanks(source, ranks, n) \in SUBSET Rank
  BY <1>6 DEF BlockRanks
<1>8. Loops = LoopsOf(source) /\ Loops \subseteq LoopNames
  BY <1>4 DEF Loops, LoopsOf
<1>9. QED
  BY <1>2, <1>3, <1>4, <1>5, <1>6, <1>7, <1>8

LEMMA BlockHasRanks ==
  ASSUME NEW src, NEW rks, NEW f \in DOMAIN src
  PROVE  rks[f] \subseteq BlockRanks(src, rks, src[f].loop)
<1> DEFINE n == src[f].loop
           G == {g \in DOMAIN src : src[g].loop = n}
<1>1. f \in G
  OBVIOUS
<1>2. BlockRanks(src, rks, n) = UNION {rks[g] : g \in G}
  BY DEF BlockRanks
<1> HIDE DEF G, n
<1>3. rks[f] \subseteq BlockRanks(src, rks, n)
  BY <1>1, <1>2
<1>4. QED
  BY <1>3 DEF n

(* Every item of a list is executed by some rank and stands for a callstack. *)
Full(list, src) == \A it \in ToSet(list) : it.ranks # {} /\ it.flow \in DOMAIN src

(* The merge of the ranks. *)
LEMMA MergedFacts ==
  ASSUME SourceOK, NEW n
  PROVE  /\ ListOK(Merged(n), source, ranks, n)
         /\ Full(Merged(n), source)
         /\ n = 0 => RanksOf(Merged(n)) # {}
<1> DEFINE S == Items(source, ranks, n)
           Leaves(f) == [i \in 1..Cardinality(ranks[f]) |-> Item(f, n, {RanksDown(ranks[f])[i]})]
           Inner(f)  == <<Item(f, n, UNION {ranks[g] : g \in In(source[f].loop)})>>
           First(f)  == \A g \in In(source[f].loop) : f <= g
           Q(f) == IF source[f].loop = n THEN Leaves(f)
                   ELSE IF n = 0 /\ First(f) THEN Inner(f) ELSE <<>>
           q == [f \in DOMAIN source |-> Q(f)]
<1>1. Merged(n) = FlattenSeq(q)
  BY DEF Merged
<1>2. ASSUME NEW f \in DOMAIN source, source[f].loop = n
      PROVE  /\ Leaves(f) \in Seq(S)
             /\ \A it \in ToSet(Leaves(f)) : /\ it.ranks \subseteq ranks[f]
                                             /\ it.ranks # {} /\ it.flow = f
             /\ \A r \in ranks[f] : \E it \in ToSet(Leaves(f)) : r \in it.ranks
  <2> DEFINE R == ranks[f]
             c == Cardinality(R)
             down == RanksDown(R)
             X(i) == [flow |-> f, loop |-> 0, ranks |-> {down[i]}]
  <2>1. R \in SUBSET Rank /\ f \in Nat
    BY SourceFacts
  <2>2. c \in Nat /\ (\A i \in 1..c : down[i] \in R) /\ \A r \in R : \E i \in 1..c : down[i] = r
    <3> HIDE DEF R
    <3>1. QED
      BY <2>1, RanksDownFacts
  <2>3. Leaves(f) = [i \in 1..c |-> X(i)]
    BY <1>2 DEF Item
  <2> HIDE DEF R, c, down
  <2>4. \A i \in 1..c : X(i) \in S
    <3>1. SUFFICES ASSUME NEW i \in 1..c
                   PROVE  X(i) \in S
      OBVIOUS
    <3>2. {down[i]} \in SUBSET Rank
      BY <2>1, <2>2
    <3>3. 0 \in LoopNames
      BY DEF LoopNames
    <3>4. QED
      BY <2>1, <3>2, <3>3 DEF Items
  <2> HIDE DEF S
  <2>5. [i \in 1..c |-> X(i)] \in Seq(S)
    BY <2>2, <2>4
  <2>6. ToSet([i \in 1..c |-> X(i)]) = {X(i) : i \in 1..c}
    BY DEF ToSet
  <2>7. \A it \in {X(i) : i \in 1..c} : it.ranks \subseteq R /\ it.ranks # {} /\ it.flow = f
    BY <2>2
  <2>8. \A r \in R : \E it \in {X(i) : i \in 1..c} : r \in it.ranks
    <3>1. SUFFICES ASSUME NEW r \in R
                   PROVE  \E it \in {X(i) : i \in 1..c} : r \in it.ranks
      OBVIOUS
    <3>2. PICK i \in 1..c : down[i] = r
      BY <2>2
    <3>3. r \in X(i).ranks
      BY <3>2
    <3>4. QED
      BY <3>3
  <2> HIDE DEF X, Leaves
  <2>9. QED
    BY <2>3, <2>5, <2>6, <2>7, <2>8 DEF R
<1>3. ASSUME NEW f \in DOMAIN source, source[f].loop # n, n = 0
      PROVE  /\ Inner(f) \in Seq(S)
             /\ \E it : /\ ToSet(Inner(f)) = {it} /\ it.flow = f
                       /\ it.ranks = BlockRanks(source, ranks, source[f].loop)
  <2> DEFINE m == source[f].loop
             x == [flow |-> f, loop |-> m, ranks |-> BlockRanks(source, ranks, m)]
  <2>1. Item(f, n, UNION {ranks[g] : g \in In(m)}) = x
    BY <1>3 DEF Item, In, BlockRanks
  <2>2. x \in S
    <3>1. f \in Nat /\ m \in LoopNames /\ m \in LoopsOf(source) /\ BlockRanks(source, ranks, m) \in SUBSET Rank
      BY SourceFacts
    <3>2. QED
      BY <1>3, <3>1 DEF Items
  <2>3. x.flow = f /\ x.ranks = BlockRanks(source, ranks, source[f].loop)
    OBVIOUS
  <2> HIDE DEF S, x
  <2>4. Inner(f) = <<x>>
    BY <2>1
  <2>5. ToSet(<<x>>) = {x}
    BY DEF ToSet
  <2> HIDE DEF Inner
  <2>6. QED
    BY <2>2, <2>3, <2>4, <2>5
<1> HIDE DEF Leaves, Inner
<1>4. ASSUME NEW f \in DOMAIN source
      PROVE  Q(f) \in Seq(S)
  <2>1. <<>> \in Seq(S)
    OBVIOUS
  <2> HIDE DEF S, First
  <2>2. QED
    BY <1>2, <1>3, <2>1
<1>5. q \in Seq(Seq(S)) /\ Len(q) = Len(source) /\ \A f \in DOMAIN source : q[f] = Q(f)
  <2>1. Len(source) \in Nat /\ DOMAIN source = 1..Len(source)
    BY SourceFacts
  <2> HIDE DEF S, Q
  <2>2. QED
    BY <1>4, <2>1
<1> HIDE DEF S, q
<1>6. Merged(n) \in Seq(S)
  BY <1>1, <1>5, FlattenType
<1>9. \A x : x \in ToSet(Merged(n)) <=> \E f \in DOMAIN source : x \in ToSet(Q(f))
  <2>1. \A x : x \in ToSet(FlattenSeq(q)) <=> \E f \in 1..Len(q) : x \in ToSet(q[f])
    BY <1>5, FlattenElements
  <2>2. DOMAIN source = 1..Len(q)
    BY <1>5, SourceFacts
  <2> HIDE DEF Q
  <2>3. QED
    BY <1>1, <1>5, <2>1, <2>2
<1>7. ASSUME n # 0
      PROVE  RanksOf(Merged(n)) = BlockRanks(source, ranks, n)
  <2>1. \A x : x \in ToSet(Merged(n)) <=> \E f \in DOMAIN source : x \in ToSet(Q(f))
    BY <1>9
  <2>2. ASSUME NEW f \in DOMAIN source
        PROVE  \A r : (\E it \in ToSet(Q(f)) : r \in it.ranks) <=> source[f].loop = n /\ r \in ranks[f]
    <3>1. CASE source[f].loop = n
      BY <1>2, <3>1
    <3>2. CASE source[f].loop # n
      <4>1. Q(f) = <<>> /\ ToSet(<<>>) = {}
        BY <1>7, <3>2 DEF ToSet
      <4>2. QED
        BY <3>2, <4>1
    <3>3. QED
      BY <3>1, <3>2
  <2> HIDE DEF Q
  <2>3. \A r : r \in RanksOf(Merged(n)) <=> \E f \in DOMAIN source : source[f].loop = n /\ r \in ranks[f]
    BY <2>1, <2>2, RanksOfFacts
  <2>4. \A r : r \in BlockRanks(source, ranks, n) <=> \E f \in DOMAIN source : source[f].loop = n /\ r \in ranks[f]
    BY DEF BlockRanks
  <2>5. QED
    BY <2>3, <2>4
<1>10. ASSUME NEW f \in DOMAIN source
       PROVE  ranks[f] # {} /\ ranks[f] \subseteq BlockRanks(source, ranks, source[f].loop)
  <2>1. ranks[f] \in (SUBSET Rank) \ {{}}
    BY DEF SourceOK
  <2>2. QED
    BY <2>1, BlockHasRanks
<1>11. ASSUME NEW f \in DOMAIN source, NEW it \in ToSet(Q(f))
       PROVE  it.ranks # {} /\ it.flow = f
  <2>1. ToSet(<<>>) = {}
    BY DEF ToSet
  <2> HIDE DEF First
  <2>2. CASE source[f].loop = n
    BY <1>2, <1>11, <2>2
  <2>3. CASE source[f].loop # n /\ n = 0
    <3>1. Q(f) = Inner(f) \/ Q(f) = <<>>
      BY <2>3
    <3>2. BlockRanks(source, ranks, source[f].loop) # {}
      BY <1>10
    <3> HIDE DEF Q
    <3>3. QED
      BY <1>3, <1>11, <2>1, <2>3, <3>1, <3>2
  <2>4. CASE source[f].loop # n /\ n # 0
    <3>1. Q(f) = <<>>
      BY <2>4
    <3> HIDE DEF Q
    <3>2. QED
      BY <1>11, <2>1, <3>1
  <2>5. QED
    BY <2>2, <2>3, <2>4
<1>12. ASSUME n = 0
       PROVE  RanksOf(Merged(n)) # {}
  <2>1. 1 \in DOMAIN source /\ \A g \in DOMAIN source : 1 <= g
    <3>1. source # <<>> /\ source \in Seq(ToSet(source))
      BY SourceAssumption DEF SourceOK
    <3>2. Len(source) \in Nat /\ DOMAIN source = 1..Len(source)
      BY SourceFacts
    <3>3. QED
      BY <3>1, <3>2
  <2>2. First(1)
    BY <2>1 DEF In
  <2>3. \E it \in ToSet(Q(1)) : it.ranks # {}
    <3>1. CASE source[1].loop = n
      <4>1. Q(1) = Leaves(1)
        BY <3>1
      <4>2. PICK r : r \in ranks[1]
        BY <1>10, <2>1
      <4> HIDE DEF Q
      <4>3. QED
        BY <1>2, <2>1, <3>1, <4>1, <4>2
    <3>2. CASE source[1].loop # n
      <4>1. Q(1) = Inner(1)
        BY <1>12, <2>2, <3>2
      <4>2. BlockRanks(source, ranks, source[1].loop) # {}
        BY <1>10, <2>1
      <4> HIDE DEF Q
      <4>3. QED
        BY <1>3, <1>12, <2>1, <3>2, <4>1, <4>2
    <3>3. QED
      BY <3>1, <3>2
  <2> HIDE DEF Q
  <2>4. PICK it \in ToSet(Merged(n)) : it.ranks # {}
    BY <1>9, <2>1, <2>3
  <2>5. QED
    BY <2>4, RanksOfFacts
<1>13. Full(Merged(n), source)
  <2> HIDE DEF Q
  <2>1. QED
    BY <1>9, <1>11 DEF Full
<1>14. QED
  BY <1>6, <1>7, <1>12, <1>13 DEF ListOK, S

LEMMA SameFlowTransitive ==
  ASSUME NEW list, NEW h \in Nat, NEW i \in Nat, NEW j \in Nat, h <= i, i <= j,
         SameFlow(list, h, i), SameFlow(list, i, j)
  PROVE  SameFlow(list, h, j)
<1>1. \A k \in h..j : k \in h..i \/ k \in i..j
  OBVIOUS
<1>2. QED
  BY <1>1 DEF SameFlow

(* Compaction neither adds nor loses ranks, nor touches inner loops.         *)
LEMMA CompactFacts ==
  ASSUME NEW list, NEW src, NEW rks, NEW n, ListOK(list, src, rks, n)
  PROVE  /\ ListOK(compact_callstacks(list), src, rks, n)
         /\ RanksOf(compact_callstacks(list)) = RanksOf(list)
         /\ Full(list, src) => Full(compact_callstacks(list), src)
<1> DEFINE S == Items(src, rks, n)
           Removed(j) == \E i \in 1..(j - 1) : SameFlow(list, i, j)
           Twins(i)   == {j \in i..Len(list) : j = i \/ SameFlow(list, i, j)}
           Taken(i)   == [list[i] EXCEPT !.ranks = UNION {list[j].ranks : j \in Twins(i)}]
           Q(i)       == IF Removed(i) THEN <<>> ELSE <<Taken(i)>>
           q          == [i \in DOMAIN list |-> Q(i)]
<1>1. compact_callstacks(list) = FlattenSeq(q)
  BY DEF compact_callstacks
<1>2. /\ list \in Seq(S) /\ Len(list) \in Nat /\ DOMAIN list = 1..Len(list)
      /\ \A i \in 1..Len(list) : list[i] \in S
  BY DEF ListOK
<1>3. \A i \in 1..Len(list) : Twins(i) \subseteq 1..Len(list) /\ i \in Twins(i)
  BY <1>2
<1>4. ASSUME NEW i \in 1..Len(list)
      PROVE  Taken(i) \in S /\ Taken(i).ranks = UNION {list[j].ranks : j \in Twins(i)}
  <2> DEFINE U == UNION {list[j].ranks : j \in Twins(i)}
             x == list[i]
  <2>1. list[i] \in S /\ \A j \in Twins(i) : list[j] \in S
    BY <1>2, <1>3
  <2>2. \A it \in S : it \in [flow : Nat, loop : LoopNames, ranks : SUBSET Rank]
    BY DEF Items
  <2>3. U \in SUBSET Rank
    <3>1. \A j \in Twins(i) : list[j].ranks \in SUBSET Rank
      BY <2>1, <2>2
    <3> HIDE DEF Twins, S
    <3>2. QED
      BY <3>1
  <2>4. x.loop # 0 => U = x.ranks
    <3>1. SUFFICES ASSUME list[i].loop # 0
                   PROVE  U = list[i].ranks
      OBVIOUS
    <3>2. \A j \in i..Len(list) : ~ SameFlow(list, i, j)
      BY <3>1 DEF SameFlow
    <3>3. Twins(i) = {i}
      BY <1>2, <3>2
    <3> HIDE DEF Twins
    <3>4. QED
      BY <3>3
  <2>5. x \in [flow : Nat, loop : LoopNames, ranks : SUBSET Rank]
    BY <2>1, <2>2
  <2>6. x.loop # 0 => n = 0 /\ x.loop \in LoopsOf(src) /\ x.ranks = BlockRanks(src, rks, x.loop)
    BY <2>1 DEF Items
  <2> HIDE DEF U, x
  <2>7. /\ [x EXCEPT !.ranks = U] \in [flow : Nat, loop : LoopNames, ranks : SUBSET Rank]
        /\ [x EXCEPT !.ranks = U].ranks = U /\ [x EXCEPT !.ranks = U].loop = x.loop
    BY <2>3, <2>5
  <2>8. [x EXCEPT !.ranks = U] \in S
    BY <2>4, <2>6, <2>7 DEF Items
  <2>9. Taken(i) = [x EXCEPT !.ranks = U]
    BY DEF U, x
  <2> HIDE DEF Taken, S
  <2>10. QED
    BY <2>7, <2>8, <2>9 DEF U
<1> HIDE DEF Taken
<1>5. q \in Seq(Seq(S)) /\ Len(q) = Len(list) /\ \A i \in 1..Len(list) : q[i] = Q(i)
  <2>1. \A i \in 1..Len(list) : Q(i) \in Seq(S)
    <3> HIDE DEF S, Removed
    <3>1. \A i \in 1..Len(list) : <<Taken(i)>> \in Seq(S)
      BY <1>4
    <3>2. <<>> \in Seq(S)
      OBVIOUS
    <3>3. QED
      BY <3>1, <3>2
  <2> HIDE DEF S, Q
  <2>2. QED
    BY <1>2, <2>1
<1> HIDE DEF S, q
<1>6. compact_callstacks(list) \in Seq(S)
  BY <1>1, <1>5, FlattenType
<1>7. \A x : x \in ToSet(compact_callstacks(list)) <=>
               \E i \in 1..Len(list) : ~Removed(i) /\ x = Taken(i)
  <2>1. \A x : x \in ToSet(FlattenSeq(q)) <=> \E i \in 1..Len(q) : x \in ToSet(q[i])
    BY <1>5, FlattenElements
  <2>2. \A i : \A x : x \in ToSet(Q(i)) <=> ~Removed(i) /\ x = Taken(i)
    <3> HIDE DEF Removed
    <3>1. ToSet(<<>>) = {} /\ \A y : ToSet(<<y>>) = {y}
      BY DEF ToSet
    <3>2. QED
      BY <3>1
  <2> HIDE DEF Q, Removed
  <2>3. QED
    BY <1>1, <1>5, <2>1, <2>2
<1>8. RanksOf(compact_callstacks(list)) = RanksOf(list)
  <2>1. ASSUME NEW r, r \in RanksOf(compact_callstacks(list))
        PROVE  r \in RanksOf(list)
    <3>1. PICK i \in 1..Len(list) : r \in Taken(i).ranks
      BY <1>7, <2>1, RanksOfFacts
    <3>2. PICK j \in Twins(i) : r \in list[j].ranks
      BY <1>4, <3>1
    <3>3. j \in DOMAIN list
      BY <1>2, <1>3
    <3>4. QED
      BY <3>2, <3>3 DEF RanksOf
  <2>2. ASSUME NEW r, r \in RanksOf(list)
        PROVE  r \in RanksOf(compact_callstacks(list))
    <3>1. PICK j \in 1..Len(list) : r \in list[j].ranks
      BY <1>2, <2>2 DEF RanksOf
    <3> DEFINE H == {i \in 1..j : i = j \/ SameFlow(list, i, j)}
    <3>2. j \in H /\ H \in SUBSET Nat
      OBVIOUS
    <3>3. PICK i \in H : \A h \in H : i <= h
      <4> HIDE DEF H
      <4>1. H # {}
        BY <3>2
      <4>2. QED
        BY <3>2, <4>1, LeastExists
    <3>4. i \in 1..Len(list) /\ i \in Nat /\ i <= j
      BY <1>2
    <3>5. j \in Twins(i)
      BY <1>2, <3>4
    <3>6. ~Removed(i)
      <4>1. SUFFICES ASSUME NEW h \in 1..(i - 1), SameFlow(list, h, i)
                     PROVE  FALSE
        OBVIOUS
      <4>2. h \in Nat /\ h <= i /\ h \in 1..j /\ j \in Nat /\ h < i
        BY <1>2, <3>4
      <4>3. SameFlow(list, h, j)
        BY <3>4, <4>1, <4>2, SameFlowTransitive
      <4>4. i <= h
        BY <3>3, <4>2, <4>3
      <4>5. QED
        BY <3>4, <4>2, <4>4
    <3>7. r \in Taken(i).ranks
      BY <1>4, <3>1, <3>4, <3>5
    <3>8. Taken(i) \in ToSet(compact_callstacks(list))
      BY <1>7, <3>4, <3>6
    <3>9. QED
      BY <3>7, <3>8, RanksOfFacts
  <2>3. QED
    BY <2>1, <2>2
<1>9. ASSUME Full(list, src)
      PROVE  Full(compact_callstacks(list), src)
  <2>1. SUFFICES ASSUME NEW i \in 1..Len(list)
                 PROVE  Taken(i).ranks # {} /\ Taken(i).flow \in DOMAIN src
    <3> HIDE DEF Taken, Removed
    <3>1. QED
      BY <1>7 DEF Full
  <2>2. list[i] \in ToSet(list) /\ i \in Twins(i) /\ list[i] \in S
    BY <1>2, <1>3 DEF ToSet
  <2>3. list[i].ranks # {} /\ list[i].flow \in DOMAIN src
    BY <1>9, <2>2 DEF Full
  <2>4. Taken(i).ranks # {}
    <3>1. list[i].ranks \subseteq Taken(i).ranks
      BY <1>4, <2>2
    <3> HIDE DEF Taken
    <3>2. QED
      BY <2>3, <3>1
  <2>5. Taken(i).flow = list[i].flow
    <3> DEFINE U == UNION {list[j].ranks : j \in Twins(i)}
               x == list[i]
    <3>1. x \in [flow : Nat, loop : LoopNames, ranks : SUBSET Rank]
      BY <2>2 DEF S, Items
    <3>2. Taken(i) = [x EXCEPT !.ranks = U]
      BY Zenon DEF Taken
    <3> HIDE DEF U, x, Taken
    <3>3. [x EXCEPT !.ranks = U].flow = x.flow
      BY <3>1
    <3>4. QED
      BY <3>2, <3>3 DEF x
  <2>6. QED
    BY <2>3, <2>4, <2>5
<1>10. QED
  BY <1>6, <1>8, <1>9 DEF ListOK, S

(* The tree of lists with these items. *)
LEMMA TreeFacts ==
  ASSUME SourceOK, NEW ls, \A n \in Loops \cup {0} : ListOK(ls[n], source, ranks, n),
         \A n \in Loops \cup {0} : Full(ls[n], source), RanksOf(ls[0]) # {},
         NEW inner, inner = [n \in Loops \ {0} |-> Grouped(ls[n], <<>>)],
         NEW blocks, blocks = Grouped(ls[0], inner),
         NEW t, t = <<Entry("loop", 0, blocks[1].ranks, 0, 0)>> \o Moved(blocks, 1)
  PROVE  Nested(t) /\ Sound(t, DOMAIN source)
<1>1. ASSUME NEW n \in Loops \cup {0}, NEW i \in DOMAIN ls[n]
      PROVE  /\ ls[n][i].flow \in Nat /\ ls[n][i].loop \in LoopNames /\ ls[n][i].ranks \in SUBSET Rank
             /\ ls[n][i].loop # 0 => n = 0 /\ ls[n][i].loop \in Loops
                                     /\ ls[n][i].ranks = BlockRanks(source, ranks, ls[n][i].loop)
             /\ ls[n][i].ranks # {} /\ ls[n][i].flow \in DOMAIN source
  <2>1. ls[n][i] \in Items(source, ranks, n)
    BY DEF ListOK
  <2>2. Loops = LoopsOf(source)
    BY SourceFacts
  <2>3. ls[n][i].ranks # {} /\ ls[n][i].flow \in DOMAIN source
    BY DEF Full, ToSet
  <2>4. QED
    BY <2>1, <2>2, <2>3 DEF Items
<1>2. \A n \in Loops \cup {0} : Len(ls[n]) \in Nat /\ DOMAIN ls[n] = 1..Len(ls[n])
  BY DEF ListOK
<1>3. ASSUME NEW n \in Loops \ {0}
      PROVE  IsBlock(inner[n], BlockRanks(source, ranks, n)) /\ Sound(inner[n], DOMAIN source)
  <2> DEFINE list == ls[n]
             none == <<>>
             F == DOMAIN source
  <2>1. \A i \in DOMAIN list : ItemOK(list[i], none) /\ ItemSound(list[i], none, F)
    BY <1>1, <1>3 DEF ItemOK, ItemSound
  <2>2. Len(list) \in Nat /\ DOMAIN list = 1..Len(list)
    BY <1>2
  <2>3. inner[n] = Grouped(list, none)
    OBVIOUS
  <2>4. RanksOf(list) = BlockRanks(source, ranks, n)
    BY DEF ListOK
  <2>5. BlockRanks(source, ranks, n) # {}
    <3>1. PICK f \in DOMAIN source : source[f].loop = n
      BY <1>3 DEF Loops
    <3>2. ranks[f] # {} /\ ranks[f] \subseteq BlockRanks(source, ranks, n)
      <4>1. ranks[f] \in (SUBSET Rank) \ {{}}
        BY DEF SourceOK
      <4>2. QED
        BY <3>1, <4>1, BlockHasRanks
    <3>3. QED
      BY <3>2
  <2>6. Len(list) # 0
    BY <2>2, <2>4, <2>5 DEF RanksOf
  <2> HIDE DEF list, none, F
  <2>7. IsBlock(Grouped(list, none), RanksOf(list))
    BY <2>1, <2>2, GroupedIsBlock
  <2>8. Sound(Grouped(list, none), F)
    BY <2>1, <2>2, <2>6, GroupedIsSound
  <2>9. QED
    BY <2>3, <2>4, <2>7, <2>8 DEF F
<1>4. \A i \in DOMAIN ls[0] : ItemOK(ls[0][i], inner) /\ ItemSound(ls[0][i], inner, DOMAIN source)
  <2>1. SUFFICES ASSUME NEW i \in DOMAIN ls[0]
                 PROVE  ItemOK(ls[0][i], inner) /\ ItemSound(ls[0][i], inner, DOMAIN source)
    OBVIOUS
  <2>2. /\ ls[0][i].flow \in Nat /\ ls[0][i].loop \in LoopNames /\ ls[0][i].ranks \in SUBSET Rank
        /\ ls[0][i].loop # 0 => ls[0][i].loop \in Loops \ {0}
                                /\ ls[0][i].ranks = BlockRanks(source, ranks, ls[0][i].loop)
        /\ ls[0][i].ranks # {} /\ ls[0][i].flow \in DOMAIN source
    BY <1>1
  <2>3. QED
    BY <1>3, <2>2 DEF ItemOK, ItemSound
<1>5. IsBlock(blocks, RanksOf(ls[0])) /\ Sound(blocks, DOMAIN source)
  <2> DEFINE list == ls[0]
             F == DOMAIN source
  <2>1. Len(list) \in Nat /\ DOMAIN list = 1..Len(list)
    BY <1>2
  <2>2. \A i \in DOMAIN list : ItemOK(list[i], inner) /\ ItemSound(list[i], inner, F)
    BY <1>4
  <2>3. blocks = Grouped(list, inner)
    OBVIOUS
  <2>4. Len(list) # 0
    BY <2>1 DEF RanksOf
  <2> HIDE DEF list, F
  <2>5. IsBlock(Grouped(list, inner), RanksOf(list))
    BY <2>1, <2>2, GroupedIsBlock
  <2>6. Sound(Grouped(list, inner), F)
    BY <2>1, <2>2, <2>4, GroupedIsSound
  <2>7. QED
    BY <2>3, <2>5, <2>6 DEF list, F
<1>6. RanksOf(ls[0]) \in SUBSET Rank
  BY <1>4 DEF RanksOf, ItemOK
<1>7. QED
  BY <1>5, <1>6, TreeNested

-----------------------------------------------------------------------------
(* The lists are in order until they are grouped, and the blocks from then   *)
(* on.                                                                       *)
BlocksInv ==
  /\ SourceOK
  /\ DOMAIN lists = Loops \cup {0}
  /\ \A n \in Loops \cup {0} : ListOK(lists[n], source, ranks, n) /\ Full(lists[n], source)
  /\ RanksOf(lists[0]) # {}
  /\ tree = <<>> \/ (Nested(tree) /\ Sound(tree, DOMAIN source))

LEMMA BlocksInvInit == Init => BlocksInv
<1> SUFFICES ASSUME Init
             PROVE  BlocksInv
  OBVIOUS
<1>1. SourceOK /\ tree = <<>> /\ lists = [n \in Loops \cup {0} |-> Merged(n)]
  BY DEF Init, BlocksInit, SourceOK
<1>2. /\ \A n \in Loops \cup {0} : ListOK(lists[n], source, ranks, n) /\ Full(lists[n], source)
      /\ RanksOf(lists[0]) # {}
  BY <1>1, MergedFacts
<1>3. QED
  BY <1>1, <1>2 DEF BlocksInv

LEMMA BlocksInvSame ==
  BlocksInv /\ UNCHANGED <<source, ranks, lists, tree>> => BlocksInv'
BY DEF BlocksInv, SourceOK, Loops

LEMMA BlocksInvNext == BlocksInv /\ [Next]_vars => BlocksInv'
<1> SUFFICES ASSUME BlocksInv, [Next]_vars
             PROVE  BlocksInv'
  OBVIOUS
<1>1. CASE Compact
  <2>1. /\ source' = source /\ ranks' = ranks /\ tree' = tree /\ Loops' = Loops
        /\ lists' = [n \in DOMAIN lists |-> compact_callstacks(lists[n])]
    BY <1>1 DEF Compact, Loops
  <2>2. \A n \in Loops \cup {0} :
          /\ ListOK(compact_callstacks(lists[n]), source, ranks, n)
          /\ Full(compact_callstacks(lists[n]), source)
          /\ RanksOf(compact_callstacks(lists[n])) = RanksOf(lists[n])
    <3>1. SUFFICES ASSUME NEW n \in Loops \cup {0}
                   PROVE  /\ ListOK(compact_callstacks(lists[n]), source, ranks, n)
                          /\ Full(compact_callstacks(lists[n]), source)
                          /\ RanksOf(compact_callstacks(lists[n])) = RanksOf(lists[n])
      OBVIOUS
    <3>2. ListOK(lists[n], source, ranks, n) /\ Full(lists[n], source)
      BY DEF BlocksInv
    <3> DEFINE list == lists[n]
    <3> HIDE DEF list
    <3>3. ListOK(list, source, ranks, n) /\ Full(list, source)
      BY <3>2 DEF list
    <3>4. /\ ListOK(compact_callstacks(list), source, ranks, n)
          /\ Full(compact_callstacks(list), source)
          /\ RanksOf(compact_callstacks(list)) = RanksOf(list)
      BY <3>3, CompactFacts
    <3>5. QED
      BY <3>4 DEF list
  <2>3. DOMAIN lists' = Loops' \cup {0}
    BY <2>1 DEF BlocksInv
  <2>4. /\ \A n \in Loops' \cup {0} : /\ ListOK(lists'[n], source', ranks', n)
                                       /\ Full(lists'[n], source')
        /\ RanksOf(lists'[0]) # {}
    BY <2>1, <2>2 DEF BlocksInv
  <2>5. SourceOK' /\ (tree' = <<>> \/ (Nested(tree') /\ Sound(tree', DOMAIN source')))
    BY <2>1 DEF BlocksInv, SourceOK
  <2>6. QED
    BY <2>3, <2>4, <2>5 DEF BlocksInv
<1>2. CASE Group
  <2> DEFINE inner  == [n \in Loops \ {0} |-> Grouped(lists[n], <<>>)]
             blocks == Grouped(lists[0], inner)
  <2>1. /\ source' = source /\ ranks' = ranks /\ lists' = lists /\ Loops' = Loops
        /\ tree' = <<Entry("loop", 0, blocks[1].ranks, 0, 0)>> \o Moved(blocks, 1)
    BY <1>2 DEF Group, Loops
  <2>2. inner = [n \in Loops \ {0} |-> Grouped(lists[n], <<>>)] /\ blocks = Grouped(lists[0], inner)
    OBVIOUS
  <2> HIDE DEF inner, blocks
  <2> DEFINE t == <<Entry("loop", 0, blocks[1].ranks, 0, 0)>> \o Moved(blocks, 1)
  <2>3. Nested(t) /\ Sound(t, DOMAIN source)
    BY <2>2, TreeFacts DEF BlocksInv
  <2>4. Nested(tree') /\ Sound(tree', DOMAIN source')
    BY <2>1, <2>3
  <2>5. QED
    BY <2>1, <2>4 DEF BlocksInv, SourceOK
<1>3. CASE Beautify
  BY <1>3, BlocksInvSame DEF Beautify
<1>4. ASSUME NEW show, NEW mpi, Generate(show, mpi)
      PROVE  BlocksInv'
  BY <1>4, BlocksInvSame DEF Generate
<1>5. CASE UNCHANGED vars
  BY <1>5, BlocksInvSame DEF vars, blockvars
<1>6. QED
  BY <1>1, <1>2, <1>3, <1>4, <1>5 DEF Next, Analyse

(* Blocks nest (BlocksNest), whatever the callstacks of the loops and the    *)
(* ranks that execute them: what add_callstack puts into a block is executed *)
(* by ranks of the block only, a callstack or loop by all of them, and no    *)
(* condition is opened twice in a row.                                       *)
THEOREM BlocksCorrect == Spec => []BlocksNest
<1>1. BlocksInv => BlocksNest
  <2>1. tree = <<>> => BlocksNest
    BY DEF BlocksNest
  <2>2. QED
    BY <2>1, NestedBlocks DEF BlocksInv
<1>2. QED
  BY <1>1, BlocksInvInit, BlocksInvNext, PTL DEF Spec

-----------------------------------------------------------------------------
(* The entries an entry is in: the recursion goes from an entry to the one   *)
(* it is in, which stands before it.                                         *)
Climbs(f, t, n) ==
  f = [e \in 1..n |-> IF e = 1 THEN {} ELSE {t[e].parent} \cup f[t[e].parent]]

LEMMA ClimbsAt ==
  ASSUME NEW f, NEW t, NEW n, Climbs(f, t, n), NEW e \in 1..n
  PROVE  f[e] = IF e = 1 THEN {} ELSE {t[e].parent} \cup f[t[e].parent]
<1> DEFINE g == [i \in 1..n |-> IF i = 1 THEN {} ELSE {t[i].parent} \cup f[t[i].parent]]
<1>1. f = g
  BY Zenon DEF Climbs
<1>2. g[e] = IF e = 1 THEN {} ELSE {t[e].parent} \cup f[t[e].parent]
  OBVIOUS
<1> HIDE DEF g
<1>3. QED
  BY <1>1, <1>2, Zenon

LEMMA ClimbsExists ==
  ASSUME NEW t, Nested(t)
  PROVE  \E f : Climbs(f, t, Len(t))
<1> DEFINE T == {m \in Nat : m <= Len(t) => \E f : Climbs(f, t, m)}
<1>1. 0 \in T
  <2> DEFINE f == [e \in 1..0 |-> {}]
  <2>1. f = [e \in 1..0 |-> IF e = 1 THEN {} ELSE {t[e].parent} \cup f[t[e].parent]]
    OBVIOUS
  <2> HIDE DEF f
  <2>2. Climbs(f, t, 0)
    BY <2>1 DEF Climbs
  <2>3. QED
    BY <2>2
<1>2. ASSUME NEW m \in Nat, m \in T
      PROVE  m + 1 \in T
  <2> SUFFICES ASSUME m + 1 <= Len(t)
               PROVE  \E f : Climbs(f, t, m + 1)
    OBVIOUS
  <2>1. Len(t) \in Nat
    BY DEF Nested
  <2>2. PICK f : Climbs(f, t, m)
    BY <1>2, <2>1
  <2> DEFINE last == IF m + 1 = 1 THEN {} ELSE {t[m + 1].parent} \cup f[t[m + 1].parent]
             g    == [e \in 1..(m + 1) |-> IF e = m + 1 THEN last ELSE f[e]]
  <2>3. ASSUME NEW e \in 1..(m + 1)
        PROVE  g[e] = IF e = 1 THEN {} ELSE {t[e].parent} \cup g[t[e].parent]
    <3>1. e # 1 => t[e].parent \in 1..m /\ t[e].parent \in 1..(m + 1) /\ t[e].parent # m + 1
      <4>1. SUFFICES ASSUME e # 1
                     PROVE  t[e].parent \in 1..m /\ t[e].parent \in 1..(m + 1) /\ t[e].parent # m + 1
        OBVIOUS
      <4>2. e \in 2..Len(t)
        BY <2>1, <4>1
      <4>3. t[e].parent \in 1..(e - 1)
        BY <4>2 DEF Nested, Fits
      <4>4. QED
        BY <4>2, <4>3
    <3>2. e # 1 => g[t[e].parent] = f[t[e].parent]
      BY <3>1
    <3>3. CASE e = m + 1
      <4>1. g[e] = last
        BY <3>3
      <4> HIDE DEF g
      <4>2. QED
        BY <3>2, <3>3, <4>1
    <3>4. CASE e # m + 1
      <4>1. g[e] = f[e] /\ e \in 1..m
        BY <3>4
      <4>2. f[e] = IF e = 1 THEN {} ELSE {t[e].parent} \cup f[t[e].parent]
        <5>1. e \in 1..m /\ Climbs(f, t, m)
          BY <2>2, <4>1
        <5> HIDE DEF g, last
        <5>2. QED
          BY ONLY <5>1, ClimbsAt
      <4> HIDE DEF g
      <4>3. QED
        BY <3>2, <4>1, <4>2
    <3>5. QED
      BY <3>3, <3>4
  <2>4. g = [e \in 1..(m + 1) |-> g[e]]
    OBVIOUS
  <2> HIDE DEF g
  <2>5. Climbs(g, t, m + 1)
    BY <2>3, <2>4 DEF Climbs
  <2>6. QED
    BY <2>5
<1>3. Len(t) \in Nat
  BY DEF Nested
<1>4. Len(t) \in T
  <2> HIDE DEF T
  <2>1. QED
    BY <1>1, <1>2, <1>3, SetInduction
<1>5. QED
  BY <1>3, <1>4

LEMMA AboveFacts ==
  ASSUME NEW t, Nested(t)
  PROVE  \A e \in 1..Len(t) :
           Above(t)[e] = IF e = 1 THEN {} ELSE {t[e].parent} \cup Above(t)[t[e].parent]
<1> DEFINE n == Len(t)
           h == Above(t)
<1>1. DOMAIN t = 1..n
  BY DEF Nested
<1>2. h = CHOOSE f : f = [e \in DOMAIN t |-> IF e = 1 THEN {} ELSE {t[e].parent} \cup f[t[e].parent]]
  BY Zenon DEF Above
<1>3. h = CHOOSE f : f = [e \in 1..n |-> IF e = 1 THEN {} ELSE {t[e].parent} \cup f[t[e].parent]]
  BY <1>1, <1>2
<1> HIDE DEF h, n
<1>4. \E f : f = [e \in 1..n |-> IF e = 1 THEN {} ELSE {t[e].parent} \cup f[t[e].parent]]
  <2>1. \E f : Climbs(f, t, n)
    BY ClimbsExists DEF n
  <2>2. QED
    BY <2>1, Zenon DEF Climbs
<1>5. h = [e \in 1..n |-> IF e = 1 THEN {} ELSE {t[e].parent} \cup h[t[e].parent]]
  BY <1>3, <1>4, Zenon
<1>6. Climbs(h, t, n)
  BY <1>5 DEF Climbs
<1>7. \A e \in 1..n : h[e] = IF e = 1 THEN {} ELSE {t[e].parent} \cup h[t[e].parent]
  BY <1>6, ClimbsAt
<1>8. QED
  BY <1>7 DEF h, n

(* In every block and loop there is a callstack.                             *)
LEMMA CallUnder ==
  ASSUME NEW t, NEW F, Nested(t), Sound(t, F), NEW e \in 1..Len(t), t[e].kind # "call"
  PROVE  \E c \in 1..Len(t) : t[c].kind = "call" /\ e \in Above(t)[c]
<1> DEFINE n == Len(t)
           Up(d) == {d} \cup Above(t)[d]
           Under(d) == \E c \in 1..n : t[c].kind = "call" /\ Up(d) \subseteq Above(t)[c]
           T == {k \in Nat : \A d \in 1..n : n - d <= k /\ t[d].kind # "call" => Under(d)}
<1>1. n \in Nat
  BY DEF Nested
<1>2. ASSUME NEW d \in 1..n, t[d].kind # "call"
      PROVE  d + 1 \in 1..n /\ t[d + 1].parent = d /\ Above(t)[d + 1] = Up(d)
  <2>1. d < n /\ t[d + 1].parent = d
    BY <1>2 DEF Sound, Whole
  <2>2. d + 1 \in 1..n /\ d + 1 # 1
    BY <1>1, <2>1
  <2>3. Above(t)[d + 1] = IF d + 1 = 1 THEN {} ELSE {t[d + 1].parent} \cup Above(t)[t[d + 1].parent]
    BY <2>2, AboveFacts
  <2>4. QED
    BY <2>1, <2>2, <2>3
<1> HIDE DEF Up
<1>3. 0 \in T
  <2>1. SUFFICES ASSUME NEW d \in 1..n, n - d <= 0, t[d].kind # "call"
                 PROVE  FALSE
    OBVIOUS
  <2>2. d + 1 \in 1..n
    BY <1>2, <2>1
  <2>3. QED
    BY <1>1, <2>1, <2>2
<1>4. ASSUME NEW k \in Nat, k \in T
      PROVE  k + 1 \in T
  <2>1. SUFFICES ASSUME NEW d \in 1..n, n - d <= k + 1, t[d].kind # "call"
                 PROVE  Under(d)
    OBVIOUS
  <2>2. d + 1 \in 1..n /\ Above(t)[d + 1] = Up(d)
    BY <1>2, <2>1
  <2>3. CASE t[d + 1].kind = "call"
    BY <2>2, <2>3
  <2>4. CASE t[d + 1].kind # "call"
    <3>1. n - (d + 1) <= k
      BY <1>1, <2>1
    <3>2. PICK c \in 1..n : t[c].kind = "call" /\ Up(d + 1) \subseteq Above(t)[c]
      BY <1>4, <2>2, <2>4, <3>1
    <3>3. Above(t)[d + 1] \subseteq Up(d + 1)
      BY DEF Up
    <3>4. QED
      BY <2>2, <3>2, <3>3
  <2>5. QED
    BY <2>3, <2>4
<1>5. \A k \in Nat : k \in T
  <2> HIDE DEF T
  <2>1. QED
    BY <1>3, <1>4, SetInduction
<1>6. n \in T
  BY <1>1, <1>5
<1>7. Under(e)
  BY <1>1, <1>6
<1>8. QED
  BY <1>7 DEF Up

-----------------------------------------------------------------------------
(* The calls of the callstacks, and what is left of them.                    *)
AllCalls == UNION {ToSet(source[f].path) : f \in DOMAIN source}

LEMMA PathFacts ==
  ASSUME SourceOK, NEW f \in DOMAIN source
  PROVE  Path(f) \in Seq(AllCalls) /\ Len(Path(f)) \in Nat \ {0}
<1> DEFINE p == source[f].path
<1>1. p \in Seq(ToSet(p)) /\ p # <<>>
  BY SourceAssumption DEF SourceOK
<1>2. ToSet(p) \subseteq AllCalls
  BY DEF AllCalls
<1> HIDE DEF p
<1>3. p \in Seq(AllCalls)
  <2>1. Len(p) \in Nat /\ p = [i \in 1..Len(p) |-> p[i]] /\ \A i \in 1..Len(p) : p[i] \in ToSet(p)
    BY <1>1
  <2>2. \A i \in 1..Len(p) : p[i] \in AllCalls
    BY <1>2, <2>1
  <2>3. QED
    BY <2>1, <2>2
<1>4. Len(p) \in Nat \ {0}
  BY <1>1, EmptySeq
<1>5. QED
  BY <1>3, <1>4 DEF Path, p

LEMMA PrefixFacts ==
  ASSUME NEW S, NEW q \in Seq(S), NEW n \in Nat, n <= Len(q)
  PROVE  SubSeq(q, 1, n) \in Seq(S) /\ Len(SubSeq(q, 1, n)) = n
<1>1. CASE n = 0
  <2>1. SubSeq(q, 1, 0) = <<>>
    OBVIOUS
  <2>2. QED
    BY <1>1, <2>1
<1>2. CASE n # 0
  <2>1. n \in 1..Len(q)
    BY <1>2
  <2>2. QED
    BY <2>1, FrontFacts
<1>3. QED
  BY <1>1, <1>2

LEMMA WithoutMpiFacts ==
  ASSUME NEW S, NEW q \in Seq(S)
  PROVE  WithoutMpi(q) \in Seq(S) /\ Len(WithoutMpi(q)) <= Len(q)
<1>1. Len(q) \in Nat
  OBVIOUS
<1>2. CASE Len(q) = 0
  <2>1. WithoutMpi(q) = SubSeq(q, 1, Len(q) - 1)
    BY DEF WithoutMpi, Front
  <2>2. q = <<>>
    BY <1>2, EmptySeq
  <2>3. SubSeq(q, 1, Len(q) - 1) = <<>>
    BY <1>2, <2>2
  <2>4. QED
    BY <1>2, <2>1, <2>3
<1>3. CASE Len(q) # 0
  <2> DEFINE n == Len(q) - 1
  <2>1. n \in Nat /\ n <= Len(q)
    BY <1>1, <1>3
  <2>2. WithoutMpi(q) = SubSeq(q, 1, n)
    BY DEF WithoutMpi, Front
  <2> HIDE DEF n
  <2>3. QED
    BY <2>1, <2>2, PrefixFacts
<1>4. QED
  BY <1>2, <1>3

LEMMA AgreeFacts ==
  ASSUME NEW a, NEW b, Len(a) \in Nat, Len(b) \in Nat
  PROVE  Agree(a, b) \in Nat /\ Agree(a, b) <= Len(a) /\ Agree(a, b) <= Len(b)
<1> DEFINE A == {i \in 1..Len(a) : i <= Len(b) /\ SubSeq(a, 1, i) = SubSeq(b, 1, i)}
<1>1. A \subseteq 1..Len(a) /\ A \subseteq 1..Len(b)
  OBVIOUS
<1>2. Agree(a, b) = Cardinality(A)
  BY DEF Agree
<1> HIDE DEF A
<1>3. \A n \in Nat : A \subseteq 1..n => Cardinality(A) \in Nat /\ Cardinality(A) <= n
  <2> SUFFICES ASSUME NEW n \in Nat, A \subseteq 1..n
               PROVE  Cardinality(A) \in Nat /\ Cardinality(A) <= n
    OBVIOUS
  <2>1. IsFiniteSet(1..n) /\ Cardinality(1..n) = n
    <3>1. Cardinality(1..n) = IF 1 > n THEN 0 ELSE n - 1 + 1
      BY FS_Interval
    <3>2. QED
      BY <3>1, FS_Interval
  <2>2. QED
    BY <2>1, FS_Subset, FS_CardinalityType
<1>4. QED
  BY <1>1, <1>2, <1>3

(* Two paths that begin with the same call agree on that one.                *)
LEMMA AgreeOnFirst ==
  ASSUME NEW S, NEW p \in Seq(S), NEW q \in Seq(S),
         Len(p) > 1, Len(q) > 1, p[1] = q[1]
  PROVE  Agree(WithoutMpi(p), WithoutMpi(q)) >= 1
<1> DEFINE a == WithoutMpi(p)
           b == WithoutMpi(q)
           A == {i \in 1..Len(a) : i <= Len(b) /\ SubSeq(a, 1, i) = SubSeq(b, 1, i)}
<1>1. ASSUME NEW r \in Seq(S), Len(r) > 1
      PROVE  /\ Len(WithoutMpi(r)) \in Nat /\ Len(WithoutMpi(r)) >= 1
             /\ SubSeq(WithoutMpi(r), 1, 1) \in Seq(S)
             /\ Len(SubSeq(WithoutMpi(r), 1, 1)) = 1 /\ SubSeq(WithoutMpi(r), 1, 1)[1] = r[1]
  <2> DEFINE n == Len(r) - 1
             w == SubSeq(r, 1, n)
  <2>1. n \in 1..Len(r)
    BY <1>1
  <2>2. w \in Seq(S) /\ Len(w) = n /\ w[1] = r[1]
    BY <2>1
  <2> HIDE DEF w, n
  <2>3. 1 \in 1..Len(w)
    BY <2>1, <2>2
  <2>4. /\ SubSeq(w, 1, 1) \in Seq(S) /\ Len(SubSeq(w, 1, 1)) = 1
        /\ \A i \in 1..1 : SubSeq(w, 1, 1)[i] = w[i]
    BY <2>2, <2>3, FrontFacts
  <2>5. WithoutMpi(r) = w
    BY DEF WithoutMpi, Front, w, n
  <2>6. QED
    BY <2>1, <2>2, <2>4, <2>5
<1>2. /\ Len(a) \in Nat /\ Len(b) \in Nat /\ Len(a) >= 1 /\ Len(b) >= 1
      /\ SubSeq(a, 1, 1) = SubSeq(b, 1, 1)
  <2>1. /\ Len(a) \in Nat /\ Len(a) >= 1 /\ SubSeq(a, 1, 1) \in Seq(S)
        /\ Len(SubSeq(a, 1, 1)) = 1 /\ SubSeq(a, 1, 1)[1] = p[1]
    BY <1>1
  <2>2. /\ Len(b) \in Nat /\ Len(b) >= 1 /\ SubSeq(b, 1, 1) \in Seq(S)
        /\ Len(SubSeq(b, 1, 1)) = 1 /\ SubSeq(b, 1, 1)[1] = q[1]
    BY <1>1
  <2> HIDE DEF a, b
  <2>3. \A i \in 1..1 : SubSeq(a, 1, 1)[i] = SubSeq(b, 1, 1)[i]
    BY <2>1, <2>2
  <2>4. SubSeq(a, 1, 1) = SubSeq(b, 1, 1)
    BY <2>1, <2>2, <2>3, SeqEqual
  <2>5. QED
    BY <2>1, <2>2, <2>4
<1> HIDE DEF a, b
<1>3. 1 \in A /\ A \subseteq 1..Len(a)
  BY <1>2
<1>4. Agree(a, b) = Cardinality(A)
  BY DEF Agree
<1> HIDE DEF A
<1>5. IsFiniteSet(A) /\ Cardinality(A) \in Nat
  <2>1. IsFiniteSet(1..Len(a))
    BY <1>2, FS_Interval
  <2>2. QED
    BY <1>3, <2>1, FS_Subset, FS_CardinalityType
<1>6. Cardinality(A) # 0
  BY <1>3, <1>5, FS_EmptySet
<1>7. QED
  BY <1>4, <1>5, <1>6 DEF a, b

(* What the callstacks of an entry begin with is a sequence of calls, and    *)
(* there is one if all callstacks of the loop begin with the same call.      *)
LEMMA CommonsFacts ==
  ASSUME SourceOK, NEW t, Nested(t), Sound(t, DOMAIN source)
  PROVE  /\ DOMAIN Commons(t) = 1..Len(t)
         /\ \A e \in 1..Len(t) : Commons(t)[e] \in Seq(AllCalls)
         /\ ~NoCommonCall => \A e \in 1..Len(t) : t[e].kind # "call" => Commons(t)[e] # <<>>
<1> DEFINE n == Len(t)
           above == Above(t)
           Under(e) == {Path(t[b].flow) : b \in {c \in DOMAIN t : t[c].kind = "call" /\ e \in above[c]}}
           First(S) == WithoutMpi(CHOOSE p \in S : TRUE)
           Least(S) == CHOOSE m \in {Agree(First(S), WithoutMpi(p)) : p \in S} :
                         \A p \in S : m <= Agree(First(S), WithoutMpi(p))
           Prefix(S) == SubSeq(First(S), 1, Least(S))
           Share(S) == \A p \in S : Len(p) > 1 /\ p[1] = Path(1)[1]
           C == [e \in DOMAIN t |-> IF t[e].kind = "call" THEN Path(t[e].flow) ELSE Prefix(Under(e))]
<1>1. Commons(t) = C
  BY Zenon DEF Commons
<1>2. DOMAIN t = 1..n
  BY DEF Nested
<1>3. ASSUME NEW e \in 1..n, t[e].kind = "call"
      PROVE  Path(t[e].flow) \in Seq(AllCalls)
  <2>1. t[e].flow \in DOMAIN source
    BY <1>3 DEF Sound, Whole
  <2>2. QED
    BY <2>1, PathFacts
<1>4. ASSUME NEW e \in 1..n, t[e].kind # "call"
      PROVE  /\ Under(e) # {} /\ Under(e) \subseteq Seq(AllCalls)
             /\ ~NoCommonCall => Share(Under(e))
  <2>1. \E c \in 1..n : t[c].kind = "call" /\ e \in above[c]
    BY <1>4, CallUnder
  <2>2. \A b \in {c \in DOMAIN t : t[c].kind = "call" /\ e \in above[c]} : Path(t[b].flow) \in Seq(AllCalls)
    BY <1>2, <1>3
  <2>3. ASSUME ~NoCommonCall, NEW b \in DOMAIN t, t[b].kind = "call"
        PROVE  Len(Path(t[b].flow)) > 1 /\ Path(t[b].flow)[1] = Path(1)[1]
    <3>1. t[b].flow \in DOMAIN source
      BY <1>2, <2>3 DEF Sound, Whole
    <3>2. Len(Path(t[b].flow)) \in Nat \ {0}
      BY <3>1, PathFacts
    <3>3. Len(Path(t[b].flow)) # 1 /\ Path(t[b].flow)[1] = Path(1)[1]
      BY <2>3, <3>1 DEF NoCommonCall
    <3>4. \A k \in Nat \ {0} : k # 1 => k > 1
      OBVIOUS
    <3>5. QED
      BY ONLY <3>2, <3>3, <3>4
  <2> HIDE DEF above
  <2>4. ~NoCommonCall => Share(Under(e))
    BY <2>3
  <2>5. QED
    BY <1>2, <2>1, <2>2, <2>4
<1>5. ASSUME NEW S, S # {}, S \subseteq Seq(AllCalls)
      PROVE  Prefix(S) \in Seq(AllCalls) /\ (Share(S) => Prefix(S) # <<>>)
  <2> DEFINE x == CHOOSE p \in S : TRUE
             q == WithoutMpi(x)
             M == {Agree(q, WithoutMpi(p)) : p \in S}
             m == CHOOSE k \in M : \A p \in S : k <= Agree(q, WithoutMpi(p))
  <2>1. x \in S
    BY <1>5
  <2> HIDE DEF x
  <2>2. q \in Seq(AllCalls) /\ Len(q) \in Nat
    BY <1>5, <2>1, WithoutMpiFacts
  <2> HIDE DEF q
  <2>3. \A p \in S : Agree(q, WithoutMpi(p)) \in Nat /\ Agree(q, WithoutMpi(p)) <= Len(q)
    <3> SUFFICES ASSUME NEW p \in S
                 PROVE  Agree(q, WithoutMpi(p)) \in Nat /\ Agree(q, WithoutMpi(p)) <= Len(q)
      OBVIOUS
    <3>1. WithoutMpi(p) \in Seq(AllCalls) /\ Len(WithoutMpi(p)) \in Nat
      BY <1>5, WithoutMpiFacts
    <3>2. QED
      BY <2>2, <3>1, AgreeFacts
  <2>4. \E k \in M : \A p \in S : k <= Agree(q, WithoutMpi(p))
    <3>1. M \in SUBSET Nat /\ M # {}
      BY <2>1, <2>3
    <3>2. PICK k \in M : \A j \in M : k <= j
      <4> HIDE DEF M
      <4>1. QED
        BY <3>1, LeastExists
    <3>3. QED
      BY <3>2
  <2>5. m \in M
    <3> HIDE DEF M
    <3>1. QED
      BY <2>4, Zenon
  <2>6. m \in Nat /\ m <= Len(q)
    <3> HIDE DEF m
    <3>1. QED
      BY <2>3, <2>5
  <2>7. Prefix(S) = SubSeq(q, 1, m)
    BY Zenon DEF q, x
  <2>8. Share(S) => m >= 1
    <3>1. SUFFICES ASSUME Share(S), NEW p \in S
                   PROVE  Agree(q, WithoutMpi(p)) >= 1
      <4> HIDE DEF m, Share
      <4>1. QED
        BY <2>5, <3>1
    <3>2. /\ x \in Seq(AllCalls) /\ p \in Seq(AllCalls)
          /\ Len(x) > 1 /\ Len(p) > 1 /\ x[1] = p[1]
      BY <1>5, <2>1, <3>1
    <3>3. Agree(WithoutMpi(x), WithoutMpi(p)) >= 1
      BY <3>2, AgreeOnFirst
    <3>4. QED
      BY <3>3 DEF q
  <2> HIDE DEF m, Prefix
  <2>9. SubSeq(q, 1, m) \in Seq(AllCalls) /\ Len(SubSeq(q, 1, m)) = m
    BY <2>2, <2>6, PrefixFacts
  <2>10. m >= 1 => SubSeq(q, 1, m) # <<>>
    BY <2>6, <2>9
  <2> HIDE DEF Share
  <2>11. QED
    BY <2>7, <2>8, <2>9, <2>10
<1> HIDE DEF Prefix, Under, n, Share
<1>6. /\ \A e \in 1..n : C[e] \in Seq(AllCalls)
      /\ ~NoCommonCall => \A e \in 1..n : t[e].kind # "call" => C[e] # <<>>
  BY <1>2, <1>3, <1>4, <1>5
<1>7. DOMAIN C = 1..n
  BY <1>2
<1> HIDE DEF C
<1>8. QED
  BY <1>1, <1>6, <1>7 DEF n

LEMMA LessFacts ==
  ASSUME NEW S, NEW calls \in Seq(S), NEW common
  PROVE  Less(calls, common) \in Seq(S)
<1> DEFINE q == [i \in DOMAIN calls |-> IF calls[i] \in ToSet(common) THEN <<>> ELSE <<calls[i]>>]
<1>1. Len(calls) \in Nat /\ DOMAIN calls = 1..Len(calls) /\ \A i \in DOMAIN calls : calls[i] \in S
  OBVIOUS
<1>2. \A i \in DOMAIN calls : (IF calls[i] \in ToSet(common) THEN <<>> ELSE <<calls[i]>>) \in Seq(S)
  BY <1>1
<1>3. q \in Seq(Seq(S))
  BY <1>1, <1>2
<1> HIDE DEF q
<1>4. FlattenSeq(q) \in Seq(S)
  BY <1>3, FlattenType
<1>5. Less(calls, common) = FlattenSeq(q)
  BY DEF Less, q
<1>6. QED
  BY <1>4, <1>5

(* The calls left to the entries of a tree, and how many are hidden.         *)
CallsOK(t, calls) ==
  DOMAIN calls = 1..Len(t) /\ \A e \in 1..Len(t) : calls[e] \in Seq(AllCalls)

LEMMA ExtractFacts ==
  ASSUME SourceOK, NEW t, Nested(t), Sound(t, DOMAIN source)
  PROVE  CallsOK(t, extract_common_callstack(t))
<1> DEFINE common == Commons(t)
           n == Len(t)
           C == [e \in DOMAIN t |-> IF e = 1 THEN common[e] ELSE Less(common[e], common[t[e].parent])]
<1>1. \A e \in 1..n : common[e] \in Seq(AllCalls)
  BY CommonsFacts
<1>2. extract_common_callstack(t) = C
  BY DEF extract_common_callstack
<1>3. DOMAIN t = 1..n
  BY DEF Nested
<1> HIDE DEF common, n
<1>4. \A e \in 1..n : C[e] \in Seq(AllCalls)
  BY <1>1, <1>3, LessFacts
<1>5. DOMAIN C = 1..n
  BY <1>3
<1> HIDE DEF C
<1>6. QED
  BY <1>2, <1>4, <1>5 DEF CallsOK, n

LEMMA HideFacts ==
  ASSUME NEW t, Nested(t), NEW calls, CallsOK(t, calls),
         NEW h, h = hide_contiguous_callstacks(t, calls)
  PROVE  DOMAIN h = 1..Len(t) /\ \A e \in 1..Len(t) : h[e] \in Nat /\ h[e] <= Len(calls[e])
<1> DEFINE n == Len(t)
<1>1. n \in Nat /\ DOMAIN t = 1..n
  BY DEF Nested
<1>2. ASSUME NEW e \in 1..n
      PROVE  /\ Plain(t, calls, e) \in Seq(AllCalls) /\ Len(Plain(t, calls, e)) \in Nat
             /\ Len(Plain(t, calls, e)) <= Len(calls[e])
  <2>1. calls[e] \in Seq(AllCalls)
    BY DEF CallsOK
  <2>2. QED
    BY <2>1, WithoutMpiFacts DEF Plain
<1>3. ASSUME NEW e \in 1..n, e # 1, Before(t, e) # {}
      PROVE  Greatest(Before(t, e)) \in 1..n
  <2>1. Before(t, e) \in SUBSET (1..n)
    <3>1. e \in 2..n
      BY <1>1, <1>3
    <3>2. t[e].parent \in 1..(e - 1)
      BY <3>1 DEF Nested, Fits
    <3>3. \A i : i \in 1..(e - 1) \/ i \in 2..(e - 1) => i \in 1..n
      BY <1>1, <3>1
    <3>4. QED
      BY <3>2, <3>3 DEF Before
  <2>2. \E m \in Before(t, e) : \A k \in Before(t, e) : k <= m
    BY <1>1, <1>3, <2>1, GreatestExists
  <2>3. Greatest(Before(t, e)) \in Before(t, e)
    BY <2>2, Zenon DEF Greatest
  <2>4. QED
    BY <2>1, <2>3
<1>4. ASSUME NEW e \in 1..n
      PROVE  h[e] \in Nat /\ h[e] <= Len(calls[e])
  <2>1. calls[e] \in Seq(AllCalls) /\ Len(calls[e]) \in Nat
    BY DEF CallsOK
  <2>2. h[e] = IF e = 1 \/ Before(t, e) = {} THEN 0
               ELSE Agree(Plain(t, calls, Greatest(Before(t, e))), Plain(t, calls, e))
    BY <1>1 DEF hide_contiguous_callstacks
  <2>3. CASE e = 1 \/ Before(t, e) = {}
    BY <2>1, <2>2, <2>3
  <2>4. CASE ~(e = 1 \/ Before(t, e) = {})
    <3> DEFINE a == Plain(t, calls, Greatest(Before(t, e)))
               b == Plain(t, calls, e)
    <3>1. h[e] = Agree(a, b)
      BY <2>2, <2>4
    <3>2. Len(a) \in Nat /\ Len(b) \in Nat /\ Len(b) <= Len(calls[e])
      BY <1>2, <1>3, <2>4
    <3> HIDE DEF a, b
    <3>3. QED
      BY <2>1, <3>1, <3>2, AgreeFacts
  <2>5. QED
    BY <2>3, <2>4
<1>5. DOMAIN h = 1..n
  BY <1>1 DEF hide_contiguous_callstacks
<1>6. QED
  BY <1>4, <1>5

-----------------------------------------------------------------------------
(* The lines.  First where an entry stands: right of what it is in.          *)
Indent(x, p, show, mpi) ==
  x + Width(p, mpi) + IF tree[p].kind = "loop" \/ Condition(tree[p].ranks, show) THEN 1 ELSE 0

Indents(f, show, mpi, n) ==
  f = [e \in 1..n |-> IF e = 1 THEN 0 ELSE Indent(f[tree[e].parent], tree[e].parent, show, mpi)]

LEMMA IndentsAt ==
  ASSUME NEW f, NEW show, NEW mpi, NEW n, Indents(f, show, mpi, n), NEW e \in 1..n
  PROVE  f[e] = IF e = 1 THEN 0 ELSE Indent(f[tree[e].parent], tree[e].parent, show, mpi)
<1> DEFINE g == [i \in 1..n |-> IF i = 1 THEN 0
                                ELSE Indent(f[tree[i].parent], tree[i].parent, show, mpi)]
<1>1. f = g
  BY Zenon DEF Indents
<1>2. g[e] = IF e = 1 THEN 0 ELSE Indent(f[tree[e].parent], tree[e].parent, show, mpi)
  OBVIOUS
<1> HIDE DEF g
<1>3. QED
  BY <1>1, <1>2, Zenon

LEMMA IndentsExist ==
  ASSUME Nested(tree), NEW show, NEW mpi
  PROVE  \E f : Indents(f, show, mpi, Len(tree))
<1> DEFINE T == {m \in Nat : m <= Len(tree) => \E f : Indents(f, show, mpi, m)}
<1>1. 0 \in T
  <2> DEFINE f == [e \in 1..0 |-> 0]
  <2>1. f = [e \in 1..0 |-> IF e = 1 THEN 0 ELSE Indent(f[tree[e].parent], tree[e].parent, show, mpi)]
    OBVIOUS
  <2> HIDE DEF f
  <2>2. Indents(f, show, mpi, 0)
    BY <2>1 DEF Indents
  <2>3. QED
    BY <2>2
<1>2. ASSUME NEW m \in Nat, m \in T
      PROVE  m + 1 \in T
  <2> SUFFICES ASSUME m + 1 <= Len(tree)
               PROVE  \E f : Indents(f, show, mpi, m + 1)
    OBVIOUS
  <2>1. Len(tree) \in Nat
    BY DEF Nested
  <2>2. PICK f : Indents(f, show, mpi, m)
    BY <1>2, <2>1
  <2> DEFINE last == IF m + 1 = 1 THEN 0
                     ELSE Indent(f[tree[m + 1].parent], tree[m + 1].parent, show, mpi)
             g    == [e \in 1..(m + 1) |-> IF e = m + 1 THEN last ELSE f[e]]
  <2>3. ASSUME NEW e \in 1..(m + 1)
        PROVE  g[e] = IF e = 1 THEN 0 ELSE Indent(g[tree[e].parent], tree[e].parent, show, mpi)
    <3>1. e # 1 => tree[e].parent \in 1..m /\ tree[e].parent \in 1..(m + 1) /\ tree[e].parent # m + 1
      <4>1. SUFFICES ASSUME e # 1
                     PROVE  /\ tree[e].parent \in 1..m /\ tree[e].parent \in 1..(m + 1)
                            /\ tree[e].parent # m + 1
        OBVIOUS
      <4>2. e \in 2..Len(tree)
        BY <2>1, <4>1
      <4>3. tree[e].parent \in 1..(e - 1)
        BY <4>2 DEF Nested, Fits
      <4>4. QED
        BY <4>2, <4>3
    <3>2. e # 1 => g[tree[e].parent] = f[tree[e].parent]
      BY <3>1
    <3>3. CASE e = m + 1
      <4>1. g[e] = last
        BY <3>3
      <4> HIDE DEF g
      <4>2. QED
        BY <3>2, <3>3, <4>1
    <3>4. CASE e # m + 1
      <4>1. g[e] = f[e] /\ e \in 1..m
        BY <3>4
      <4>2. f[e] = IF e = 1 THEN 0 ELSE Indent(f[tree[e].parent], tree[e].parent, show, mpi)
        <5>1. e \in 1..m /\ Indents(f, show, mpi, m)
          BY <2>2, <4>1
        <5> HIDE DEF g, last
        <5>2. QED
          BY ONLY <5>1, IndentsAt
      <4> HIDE DEF g
      <4>3. QED
        BY <3>2, <4>1, <4>2
    <3>5. QED
      BY <3>3, <3>4
  <2>4. g = [e \in 1..(m + 1) |-> g[e]]
    OBVIOUS
  <2> HIDE DEF g
  <2>5. Indents(g, show, mpi, m + 1)
    BY <2>3, <2>4 DEF Indents
  <2>6. QED
    BY <2>5
<1>3. Len(tree) \in Nat
  BY DEF Nested
<1>4. Len(tree) \in T
  <2> HIDE DEF T
  <2>1. QED
    BY <1>1, <1>2, <1>3, SetInduction
<1>5. QED
  BY <1>3, <1>4

LEMMA WidthFacts ==
  ASSUME CallsOK(tree, own), NEW e \in 1..Len(tree), NEW mpi
  PROVE  Width(e, mpi) \in Nat
<1>1. own[e] \in Seq(AllCalls)
  BY DEF CallsOK
<1>2. Len(own[e]) \in Nat
  BY <1>1
<1>3. QED
  BY <1>2 DEF Width

LEMMA TabsFacts ==
  ASSUME Nested(tree), CallsOK(tree, own), NEW show, NEW mpi
  PROVE  \A e \in 1..Len(tree) : Tabs(show, mpi)[e] \in Nat
<1> DEFINE n == Len(tree)
           h == Tabs(show, mpi)
<1>1. n \in Nat /\ DOMAIN tree = 1..n
  BY DEF Nested
<1>2. h = CHOOSE f : f = [e \in DOMAIN tree |->
                            IF e = 1 THEN 0 ELSE Indent(f[tree[e].parent], tree[e].parent, show, mpi)]
  BY Zenon DEF Tabs, Indent
<1>3. h = CHOOSE f : f = [e \in 1..n |->
                            IF e = 1 THEN 0 ELSE Indent(f[tree[e].parent], tree[e].parent, show, mpi)]
  BY <1>1, <1>2
<1> HIDE DEF h, n
<1>4. \E f : f = [e \in 1..n |-> IF e = 1 THEN 0
                                 ELSE Indent(f[tree[e].parent], tree[e].parent, show, mpi)]
  <2>1. \E f : Indents(f, show, mpi, n)
    BY IndentsExist DEF n
  <2>2. QED
    BY <2>1, Zenon DEF Indents
<1>5. h = [e \in 1..n |-> IF e = 1 THEN 0 ELSE Indent(h[tree[e].parent], tree[e].parent, show, mpi)]
  BY <1>3, <1>4, Zenon
<1>6. Indents(h, show, mpi, n)
  BY <1>5 DEF Indents
<1>7. \A e \in 1..n : h[e] = IF e = 1 THEN 0 ELSE Indent(h[tree[e].parent], tree[e].parent, show, mpi)
  BY <1>6, IndentsAt
<1> DEFINE T == {m \in Nat : \A e \in 1..n : e <= m => h[e] \in Nat}
<1>8. 0 \in T
  OBVIOUS
<1>9. ASSUME NEW m \in Nat, m \in T
      PROVE  m + 1 \in T
  <2>1. SUFFICES ASSUME NEW e \in 1..n, e <= m + 1
                 PROVE  h[e] \in Nat
    OBVIOUS
  <2>2. CASE e = 1
    BY <1>7, <2>2
  <2>3. CASE e # 1
    <3> DEFINE p == tree[e].parent
    <3>1. e \in 2..n
      BY <1>1, <2>1, <2>3
    <3>2. p \in 1..(e - 1)
      BY <3>1 DEF Nested, Fits, n
    <3> HIDE DEF p
    <3>3. p \in 1..n /\ p <= m
      BY <1>1, <2>1, <3>2
    <3>4. h[p] \in Nat
      BY <1>9, <3>3
    <3>5. Width(p, mpi) \in Nat
      BY <3>3, WidthFacts DEF n
    <3>6. Indent(h[p], p, show, mpi) \in Nat
      BY <3>4, <3>5 DEF Indent
    <3>7. h[e] = Indent(h[p], p, show, mpi)
      BY <1>7, <2>3 DEF p
    <3>8. QED
      BY <3>6, <3>7
  <2>4. QED
    BY <2>2, <2>3
<1>10. \A m \in Nat : m \in T
  <2> HIDE DEF T
  <2>1. QED
    BY <1>8, <1>9, SetInduction
<1>11. \A e \in 1..n : h[e] \in Nat
  <2>1. n \in T
    BY <1>1, <1>10
  <2>2. QED
    BY <1>1, <2>1
<1>12. QED
  BY <1>11 DEF h, n

(* Lines are indented by a number of columns.                                *)
AreLines(q) == q \in Seq(ToSet(q)) /\ \A x \in ToSet(q) : x.tabs \in Nat

LEMMA LineFacts ==
  ASSUME NEW kind, NEW tabs, NEW what
  PROVE  Line(kind, tabs, what).tabs = tabs
BY DEF Line

LEMMA NoLines == AreLines(<<>>)
BY DEF AreLines, ToSet

LEMMA SomeLines ==
  ASSUME NEW n \in Nat, NEW q, q = [i \in 1..n |-> q[i]], \A i \in 1..n : q[i].tabs \in Nat
  PROVE  AreLines(q)
<1>1. DOMAIN q = 1..n
  OBVIOUS
<1>2. \A i \in 1..n : q[i] \in ToSet(q)
  BY <1>1 DEF ToSet
<1>3. q \in Seq(ToSet(q))
  BY <1>2
<1>4. \A x \in ToSet(q) : x.tabs \in Nat
  BY <1>1 DEF ToSet
<1>5. QED
  BY <1>3, <1>4 DEF AreLines

LEMMA OneLine ==
  ASSUME NEW kind, NEW tabs \in Nat, NEW what
  PROVE  AreLines(<<Line(kind, tabs, what)>>)
<1> DEFINE x == Line(kind, tabs, what)
<1>1. x.tabs \in Nat
  BY LineFacts
<1> HIDE DEF x
<1>2. ToSet(<<x>>) = {x}
  BY DEF ToSet
<1>3. AreLines(<<x>>)
  BY <1>1, <1>2 DEF AreLines
<1>4. QED
  BY <1>3 DEF x

LEMMA LinesFlattened ==
  ASSUME NEW n \in Nat, NEW q, q = [i \in 1..n |-> q[i]], \A i \in 1..n : AreLines(q[i])
  PROVE  AreLines(FlattenSeq(q))
<1> DEFINE U == UNION {ToSet(q[i]) : i \in 1..n}
<1>1. \A x \in U : x.tabs \in Nat
  BY DEF AreLines
<1>2. \A i \in 1..n : ToSet(q[i]) \subseteq U
  OBVIOUS
<1> HIDE DEF U
<1>3. ASSUME NEW i \in 1..n
      PROVE  q[i] \in Seq(U)
  <2> DEFINE r == q[i]
  <2>1. r \in Seq(ToSet(r)) /\ ToSet(r) \subseteq U
    BY <1>2 DEF AreLines
  <2> HIDE DEF r
  <2>2. r \in Seq(U)
    BY <2>1
  <2>3. QED
    BY <2>2 DEF r
<1>4. q \in Seq(Seq(U)) /\ Len(q) = n
  BY <1>3
<1> DEFINE v == FlattenSeq(q)
<1>5. v \in Seq(U)
  BY <1>4, FlattenType
<1> HIDE DEF v
<1>6. Len(v) \in Nat /\ v = [i \in 1..Len(v) |-> v[i]] /\ \A i \in 1..Len(v) : v[i] \in U
  BY <1>5
<1>7. AreLines(v)
  BY <1>1, <1>6, SomeLines
<1>8. QED
  BY <1>7 DEF v

LEMMA LinesJoined ==
  ASSUME NEW a, NEW b, AreLines(a), AreLines(b)
  PROVE  AreLines(a \o b)
<1> DEFINE U == ToSet(a) \cup ToSet(b)
           v == a \o b
<1>1. \A x \in U : x.tabs \in Nat
  BY DEF AreLines
<1>2. ToSet(a) \subseteq U /\ ToSet(b) \subseteq U /\ a \in Seq(ToSet(a)) /\ b \in Seq(ToSet(b))
  BY DEF AreLines
<1> HIDE DEF U
<1>3. a \in Seq(U) /\ b \in Seq(U)
  BY <1>2
<1>4. v \in Seq(U)
  BY <1>3
<1> HIDE DEF v
<1>5. Len(v) \in Nat /\ v = [i \in 1..Len(v) |-> v[i]] /\ \A i \in 1..Len(v) : v[i] \in U
  BY <1>4
<1>6. AreLines(v)
  BY <1>1, <1>5, SomeLines
<1>7. QED
  BY <1>6 DEF v

LEMMA CallstackLines ==
  ASSUME NEW e, NEW S, own[e] \in Seq(S), hidden[e] \in Nat, hidden[e] <= Len(own[e]),
         NEW tabs \in Nat, NEW mpi
  PROVE  AreLines(parse_callstack(e, tabs, mpi))
<1> DEFINE calls == own[e]
           Kind(i) == IF tree[e].kind = "call" /\ i = Len(calls) THEN "mpi" ELSE "call"
           q == [i \in 1..(Len(calls) - hidden[e]) |->
                   Line(Kind(hidden[e] + i), tabs + hidden[e] + i - 1, calls[hidden[e] + i])]
<1>1. CASE mpi
  <2>1. parse_callstack(e, tabs, mpi)
          = IF tree[e].kind = "call" THEN <<Line("mpi", tabs, Last(calls))>> ELSE <<>>
    BY <1>1 DEF parse_callstack
  <2>2. AreLines(<<Line("mpi", tabs, Last(calls))>>)
    BY OneLine
  <2>3. QED
    BY <2>1, <2>2, NoLines
<1>2. CASE ~mpi
  <2>1. parse_callstack(e, tabs, mpi) = q
    BY <1>2 DEF parse_callstack
  <2> DEFINE n == Len(calls) - hidden[e]
  <2>2. n \in Nat
    OBVIOUS
  <2>3. \A i \in 1..n : q[i] = Line(Kind(hidden[e] + i), tabs + hidden[e] + i - 1, calls[hidden[e] + i])
    OBVIOUS
  <2>4. q = [i \in 1..n |-> q[i]]
    OBVIOUS
  <2> HIDE DEF q, n, Kind, calls
  <2>5. \A i \in 1..n : q[i].tabs \in Nat
    <3> SUFFICES ASSUME NEW i \in 1..n
                 PROVE  q[i].tabs \in Nat
      OBVIOUS
    <3>1. q[i].tabs = tabs + hidden[e] + i - 1
      BY <2>3, LineFacts
    <3>2. QED
      BY <2>2, <3>1
  <2>6. AreLines(q)
    BY <2>2, <2>4, <2>5, SomeLines
  <2>7. QED
    BY <2>1, <2>6
<1>3. QED
  BY <1>1, <1>2

(* What the entries of a grouped tree are left with.                         *)
Beautified ==
  /\ Nested(tree) /\ CallsOK(tree, own) /\ DOMAIN hidden = 1..Len(tree)
  /\ \A e \in 1..Len(tree) : hidden[e] \in Nat /\ hidden[e] <= Len(own[e])

LEMMA OpeningLines ==
  ASSUME Beautified, NEW e \in 1..Len(tree), NEW tabs \in Nat, NEW show, NEW mpi
  PROVE  AreLines(Opening(e, tabs, show, mpi))
<1> DEFINE a == parse_callstack(e, tabs, mpi)
           b == CASE tree[e].kind = "loop" -> <<Line("for", tabs + Width(e, mpi), tree[e].loop)>>
                  [] tree[e].kind = "crb"  ->
                       IF Condition(tree[e].ranks, show)
                       THEN <<Line("if", tabs + Width(e, mpi), tree[e].ranks \cap show)>> ELSE <<>>
                  [] tree[e].kind = "call" -> <<>>
<1>1. Opening(e, tabs, show, mpi) = a \o b
  BY DEF Opening
<1>2. AreLines(a)
  <2>1. own[e] \in Seq(AllCalls) /\ hidden[e] \in Nat /\ hidden[e] <= Len(own[e])
    BY DEF Beautified, CallsOK
  <2>2. QED
    BY <2>1, CallstackLines
<1>3. AreLines(b)
  <2>1. tree[e].kind \in {"loop", "crb", "call"}
    <3>1. tree[e] \in Nodes
      BY DEF Beautified, Nested
    <3>2. QED
      BY <3>1 DEF Nodes
  <2> DEFINE m == tabs + Width(e, mpi)
  <2>2. m \in Nat
    <3>1. Width(e, mpi) \in Nat
      BY WidthFacts DEF Beautified
    <3>2. QED
      BY <3>1
  <2> DEFINE for == <<Line("for", m, tree[e].loop)>>
             if  == <<Line("if", m, tree[e].ranks \cap show)>>
  <2>3. b = for \/ b = if \/ b = <<>>
    BY <2>1
  <2> HIDE DEF b, m
  <2>4. AreLines(for) /\ AreLines(if)
    BY <2>2, OneLine
  <2> HIDE DEF for, if
  <2>5. QED
    BY <2>3, <2>4, NoLines
<1> HIDE DEF a, b
<1>4. QED
  BY <1>1, <1>2, <1>3, LinesJoined

LEMMA InOrderFacts ==
  ASSUME NEW S, NEW n \in Nat
  PROVE  InOrder(S, n) \in Seq(1..n)
<1> DEFINE q == [i \in 1..n |-> IF i \in S THEN <<i>> ELSE <<>>]
           N == 1..n
<1>1. \A i \in 1..n : (IF i \in S THEN <<i>> ELSE <<>>) \in Seq(1..n)
  <2>1. \A i \in N : i \in N
    OBVIOUS
  <2> HIDE DEF N
  <2>2. \A i \in N : <<i>> \in Seq(N)
    OBVIOUS
  <2>3. <<>> \in Seq(N)
    OBVIOUS
  <2>4. \A i \in N : (IF i \in S THEN <<i>> ELSE <<>>) \in Seq(N)
    BY <2>2, <2>3
  <2>5. QED
    BY <2>4 DEF N
<1>2. q \in Seq(Seq(1..n))
  BY <1>1
<1>3. InOrder(S, n) = FlattenSeq(q)
  BY DEF InOrder
<1> HIDE DEF q
<1>4. QED
  BY <1>2, <1>3, FlattenType

LEMMA ClosingLines ==
  ASSUME Beautified, NEW e, NEW tabs, \A i \in 1..Len(tree) : tabs[i] \in Nat, NEW shown, NEW mpi
  PROVE  AreLines(Closing(e, tabs, shown, mpi))
<1> DEFINE above == Above(tree)
           Ends  == {a \in above[e] : /\ tree[a].kind = "loop" /\ shown[a]
                                      /\ \A b \in (e + 1)..Len(tree) : a \notin above[b]}
           first == InOrder(Ends, Len(tree))
           order == Reverse(first)
           q == [i \in DOMAIN order |-> Line("end", tabs[order[i]] + Width(order[i], mpi), 0)]
<1>1. Closing(e, tabs, shown, mpi) = q
  BY DEF Closing
<1>2. Len(tree) \in Nat
  BY DEF Beautified, Nested
<1> HIDE DEF Ends
<1>3. first \in Seq(1..Len(tree))
  BY <1>2, InOrderFacts
<1> HIDE DEF first
<1> DEFINE n == Len(first)
<1>4. n \in Nat /\ order = [i \in 1..n |-> first[(n - i) + 1]]
  BY <1>3 DEF Reverse
<1>5. DOMAIN order = 1..n /\ \A i \in 1..n : order[i] \in 1..Len(tree)
  <2>1. DOMAIN order = 1..n /\ \A i \in 1..n : order[i] = first[(n - i) + 1] /\ (n - i) + 1 \in 1..n
    BY <1>4
  <2> HIDE DEF order
  <2>2. \A i \in 1..n : first[i] \in 1..Len(tree)
    BY <1>3
  <2>3. QED
    BY <2>1, <2>2
<1> HIDE DEF n, order
<1>6. ASSUME NEW i \in 1..n
      PROVE  q[i].tabs \in Nat
  <2> DEFINE d == order[i]
             m == tabs[d] + Width(d, mpi)
  <2>1. d \in 1..Len(tree)
    BY <1>5
  <2>2. tabs[d] \in Nat /\ Width(d, mpi) \in Nat
    BY <2>1, WidthFacts DEF Beautified
  <2>3. q[i] = Line("end", m, 0)
    BY <1>5
  <2>4. m \in Nat
    BY <2>2
  <2> HIDE DEF m
  <2>5. Line("end", m, 0).tabs = m
    BY LineFacts
  <2>6. QED
    BY <2>3, <2>4, <2>5
<1>7. q = [i \in 1..n |-> q[i]]
  BY <1>5
<1> HIDE DEF q
<1>8. AreLines(q)
  BY <1>4, <1>6, <1>7, SomeLines
<1>9. QED
  BY <1>1, <1>8

LEMMA PseudoLines ==
  ASSUME Beautified, NEW show, NEW mpi
  PROVE  AreLines(pseudo(show, mpi))
<1> DEFINE tabs  == Tabs(show, mpi)
           shown == Shown(show)
           n == Len(tree)
           Q(e) == (IF shown[e] THEN Opening(e, tabs[e], show, mpi) ELSE <<>>)
                     \o Closing(e, tabs, shown, mpi)
           q == [e \in DOMAIN tree |-> Q(e)]
<1>1. pseudo(show, mpi) = FlattenSeq(q)
  BY DEF pseudo
<1>2. n \in Nat /\ DOMAIN tree = 1..n
  BY DEF Beautified, Nested
<1>3. \A e \in 1..n : tabs[e] \in Nat
  BY TabsFacts DEF Beautified
<1> HIDE DEF tabs, shown
<1>4. ASSUME NEW e \in 1..n
      PROVE  AreLines(Q(e))
  <2> DEFINE a == IF shown[e] THEN Opening(e, tabs[e], show, mpi) ELSE <<>>
             b == Closing(e, tabs, shown, mpi)
  <2>1. tabs[e] \in Nat
    BY <1>3
  <2>2. AreLines(Opening(e, tabs[e], show, mpi))
    BY <2>1, OpeningLines
  <2>3. AreLines(a)
    BY <2>2, NoLines
  <2>4. AreLines(b)
    BY <1>3, ClosingLines
  <2> HIDE DEF a, b
  <2>5. AreLines(a \o b)
    BY <2>3, <2>4, LinesJoined
  <2>6. QED
    BY <2>5 DEF a, b
<1> HIDE DEF Q
<1>5. q = [e \in 1..n |-> q[e]] /\ \A e \in 1..n : AreLines(q[e])
  BY <1>2, <1>4
<1> HIDE DEF q
<1>6. AreLines(FlattenSeq(q))
  BY <1>2, <1>5, LinesFlattened
<1>7. QED
  BY <1>1, <1>6

-----------------------------------------------------------------------------
(* The inductive invariant of the whole: the lists and blocks are in order,  *)
(* from the grouping on there is a tree, from then on its entries have their *)
(* calls, and what was generated are lines.                                  *)
PseudoInv ==
  /\ BlocksInv
  /\ stage \in {"merged", "compacted", "grouped", "beautified", "generated", "failed"}
  /\ show_ranks \in (SUBSET Rank) \ {{}} /\ only_mpi \in BOOLEAN
  /\ stage \in {"grouped", "beautified", "generated", "failed"} => tree # <<>>
  /\ stage \in {"merged", "compacted", "grouped", "failed"} => own = <<>> /\ hidden = <<>>
  /\ stage \in {"beautified", "generated"} => Beautified
  /\ stage = "failed" => NoCommonCall
  /\ AreLines(lines)

LEMMA PseudoInvInit == Init => PseudoInv
<1> SUFFICES ASSUME Init
             PROVE  PseudoInv
  OBVIOUS
<1>1. BlocksInv
  BY BlocksInvInit
<1>2. stage = "merged" /\ own = <<>> /\ hidden = <<>> /\ lines = <<>> /\ only_mpi = FALSE
      /\ show_ranks = Rank
  BY DEF Init, BlocksInit
<1>3. show_ranks \in (SUBSET Rank) \ {{}}
  BY <1>2, RankAssumption
<1>4. AreLines(lines)
  BY <1>2, NoLines
<1>5. QED
  BY <1>1, <1>2, <1>3, <1>4 DEF PseudoInv

LEMMA PseudoInvNext == PseudoInv /\ [Next]_vars => PseudoInv'
<1> SUFFICES ASSUME PseudoInv, [Next]_vars
             PROVE  PseudoInv'
  OBVIOUS
<1>1. BlocksInv'
  BY BlocksInvNext DEF PseudoInv
<1>2. CASE Compact /\ UNCHANGED <<own, hidden, show_ranks, only_mpi, lines>>
  <2>1. stage = "merged" /\ stage' = "compacted"
    BY <1>2 DEF Compact
  <2>2. own' = own /\ hidden' = hidden /\ show_ranks' = show_ranks /\ only_mpi' = only_mpi
        /\ lines' = lines
    BY <1>2
  <2>3. AreLines(lines')
    BY <2>2 DEF PseudoInv
  <2>4. QED
    BY <1>1, <2>1, <2>2, <2>3 DEF PseudoInv
<1>3. CASE Group /\ UNCHANGED <<own, hidden, show_ranks, only_mpi, lines>>
  <2>1. stage = "compacted" /\ stage' = "grouped"
    BY <1>3 DEF Group
  <2>2. own' = own /\ hidden' = hidden /\ show_ranks' = show_ranks /\ only_mpi' = only_mpi
        /\ lines' = lines
    BY <1>3
  <2>3. AreLines(lines')
    BY <2>2 DEF PseudoInv
  <2>4. tree' # <<>>
    <3> DEFINE inner  == [n \in Loops \ {0} |-> Grouped(lists[n], <<>>)]
               blocks == Grouped(lists[0], inner)
    <3>1. tree' = <<Entry("loop", 0, blocks[1].ranks, 0, 0)>> \o Moved(blocks, 1)
      BY <1>3 DEF Group
    <3>2. inner = [n \in Loops \ {0} |-> Grouped(lists[n], <<>>)] /\ blocks = Grouped(lists[0], inner)
      OBVIOUS
    <3> HIDE DEF inner, blocks
    <3> DEFINE t == <<Entry("loop", 0, blocks[1].ranks, 0, 0)>> \o Moved(blocks, 1)
    <3>3. Nested(t)
      BY <3>2, TreeFacts DEF PseudoInv, BlocksInv
    <3> HIDE DEF t
    <3>4. t # <<>>
      BY <3>3 DEF Nested
    <3>5. QED
      BY <3>1, <3>4 DEF t
  <2>5. QED
    BY <1>1, <2>1, <2>2, <2>3, <2>4 DEF PseudoInv
<1>4. CASE Beautify /\ ~Raises(tree)
  <2>1. /\ stage = "grouped" /\ stage' = "beautified" /\ tree' = tree
        /\ own' = extract_common_callstack(tree)
        /\ hidden' = hide_contiguous_callstacks(tree, own')
        /\ show_ranks' = show_ranks /\ only_mpi' = only_mpi /\ lines' = lines
    BY <1>4 DEF Beautify
  <2>2. tree # <<>> /\ SourceOK /\ Nested(tree) /\ Sound(tree, DOMAIN source)
    BY <2>1 DEF PseudoInv, BlocksInv
  <2> DEFINE calls == extract_common_callstack(tree)
             h == hide_contiguous_callstacks(tree, calls)
  <2>3. CallsOK(tree, calls)
    BY <2>2, ExtractFacts
  <2>4. h = hide_contiguous_callstacks(tree, calls)
    OBVIOUS
  <2>5. own' = calls /\ hidden' = h
    BY <2>1
  <2> HIDE DEF calls, h
  <2>6. DOMAIN h = 1..Len(tree) /\ \A e \in 1..Len(tree) : h[e] \in Nat /\ h[e] <= Len(calls[e])
    BY <2>2, <2>3, <2>4, HideFacts
  <2>7. CallsOK(tree, own)'
    <3>1. source' = source
      BY <1>4 DEF Beautify
    <3>2. AllCalls' = AllCalls
      BY <3>1 DEF AllCalls
    <3>3. QED
      BY <2>1, <2>3, <2>5, <3>2 DEF CallsOK
  <2>8. Beautified'
    <3>1. DOMAIN hidden' = 1..Len(tree')
      BY <2>1, <2>5, <2>6
    <3>2. \A e \in 1..Len(tree') : hidden'[e] \in Nat /\ hidden'[e] <= Len(own'[e])
      BY <2>1, <2>5, <2>6
    <3>3. Nested(tree')
      BY <2>1, <2>2
    <3>4. QED
      BY <2>7, <3>1, <3>2, <3>3 DEF Beautified
  <2>9. AreLines(lines') /\ tree' # <<>>
    BY <2>1, <2>2 DEF PseudoInv
  <2>10. QED
    BY <1>1, <2>1, <2>8, <2>9 DEF PseudoInv
<1>5. CASE Beautify /\ Raises(tree)
  <2>1. /\ stage = "grouped" /\ stage' = "failed" /\ tree' = tree
        /\ own' = own /\ hidden' = hidden
        /\ show_ranks' = show_ranks /\ only_mpi' = only_mpi /\ lines' = lines
    BY <1>5 DEF Beautify
  <2>2. AreLines(lines')
    BY <2>1 DEF PseudoInv
  <2>3. NoCommonCall'
    <3>1. SourceOK /\ Nested(tree) /\ Sound(tree, DOMAIN source)
      BY <2>1 DEF PseudoInv, BlocksInv
    <3>2. DOMAIN tree = 1..Len(tree)
      BY <3>1 DEF Nested
    <3>3. PICK e \in DOMAIN tree : tree[e].kind # "call" /\ Commons(tree)[e] = <<>>
      BY <1>5, Zenon DEF Raises
    <3>4. NoCommonCall
      BY <3>1, <3>2, <3>3, CommonsFacts
    <3>5. source' = source
      BY <1>5 DEF Beautify
    <3>6. QED
      BY <3>4, <3>5 DEF NoCommonCall, Path
  <2>4. QED
    BY <1>1, <2>1, <2>2, <2>3 DEF PseudoInv
<1>6. ASSUME NEW show \in (SUBSET Rank) \ {{}}, NEW mpi \in BOOLEAN, Generate(show, mpi)
      PROVE  PseudoInv'
  <2>1. /\ stage = "beautified" /\ stage' = "generated" /\ source' = source /\ tree' = tree
        /\ own' = own /\ hidden' = hidden /\ show_ranks' = show /\ only_mpi' = mpi
        /\ lines' = pseudo(show, mpi)
    BY <1>6 DEF Generate
  <2>2. Beautified /\ tree # <<>>
    BY <2>1 DEF PseudoInv
  <2>3. AreLines(lines')
    BY <2>1, <2>2, PseudoLines
  <2>4. Beautified'
    <3>1. CallsOK(tree, own)'
      BY <2>1, <2>2 DEF Beautified, CallsOK, AllCalls
    <3>2. QED
      BY <2>1, <2>2, <3>1 DEF Beautified
  <2>5. QED
    BY <1>1, <2>1, <2>2, <2>3, <2>4 DEF PseudoInv
<1>7. CASE UNCHANGED vars
  <2>1. /\ stage' = stage /\ source' = source /\ tree' = tree
        /\ own' = own /\ hidden' = hidden /\ show_ranks' = show_ranks /\ only_mpi' = only_mpi
        /\ lines' = lines
    BY <1>7 DEF vars, blockvars
  <2>2. ASSUME Beautified
        PROVE  Beautified'
    <3>1. CallsOK(tree, own)'
      BY <2>1, <2>2 DEF Beautified, CallsOK, AllCalls
    <3>2. QED
      BY <2>1, <2>2, <3>1 DEF Beautified
  <2>3. AreLines(lines')
    BY <2>1 DEF PseudoInv
  <2>4. NoCommonCall => NoCommonCall'
    BY <2>1 DEF NoCommonCall, Path
  <2>5. QED
    BY <1>1, <2>1, <2>2, <2>3, <2>4 DEF PseudoInv
<1>8. QED
  BY <1>2, <1>3, <1>4, <1>5, <1>6, <1>7 DEF Next, Analyse

LEMMA BlocksTyped == BlocksInv => BlocksOK
<1> SUFFICES ASSUME BlocksInv
             PROVE  BlocksOK
  OBVIOUS
<1>1. source \in Source /\ ranks \in [DOMAIN source -> (SUBSET Rank) \ {{}}]
  BY DEF BlocksInv, SourceOK
<1>2. ASSUME NEW n \in DOMAIN lists, NEW i \in DOMAIN lists[n]
      PROVE  lists[n][i].ranks \in (SUBSET Rank) \ {{}} /\ lists[n][i].flow \in DOMAIN source
  <2> DEFINE list == lists[n]
  <2>1. ListOK(list, source, ranks, n) /\ Full(list, source)
    BY DEF BlocksInv
  <2>2. i \in DOMAIN list
    OBVIOUS
  <2> HIDE DEF list
  <2>3. list[i] \in ToSet(list) /\ list[i] \in Items(source, ranks, n)
    BY <2>1, <2>2 DEF ToSet, ListOK
  <2> DEFINE it == list[i]
  <2>4. it.ranks # {} /\ it.flow \in DOMAIN source /\ it.ranks \in SUBSET Rank
    BY <2>1, <2>3 DEF Full, Items
  <2>5. QED
    BY <2>4 DEF list
<1>3. ASSUME NEW e \in DOMAIN tree
      PROVE  /\ tree[e].kind \in {"loop", "crb", "call"}
             /\ tree[e].ranks \in (SUBSET Rank) \ {{}}
             /\ tree[e].parent \in (IF e = 1 THEN {0} ELSE 1..(e - 1))
  <2>1. Nested(tree) /\ Sound(tree, DOMAIN source)
    BY <1>3 DEF BlocksInv
  <2>2. Len(tree) \in Nat /\ DOMAIN tree = 1..Len(tree) /\ tree[e] \in Nodes
    BY <2>1 DEF Nested
  <2>3. tree[e].ranks # {}
    BY <2>1, <2>2 DEF Sound, Whole
  <2>4. tree[e].kind \in {"loop", "crb", "call"} /\ tree[e].ranks \in SUBSET Rank
    BY <2>2 DEF Nodes
  <2>5. CASE e = 1
    BY <2>1, <2>3, <2>4, <2>5 DEF Nested
  <2>6. CASE e # 1
    <3>1. e \in 2..Len(tree)
      BY <2>2, <2>6
    <3>2. tree[e].parent \in 1..(e - 1)
      BY <2>1, <3>1 DEF Nested, Fits
    <3>3. QED
      BY <2>3, <2>4, <2>6, <3>2
  <2>7. QED
    BY <2>5, <2>6
<1>4. QED
  BY <1>1, <1>2, <1>3 DEF BlocksOK

(* The lists, the blocks, the calls left to them and the lines are what the  *)
(* analysis and the generation of the pseudo-code need (TypeOK): no list,    *)
(* block or loop is without ranks or callstacks, none of the calls hidden is *)
(* missing, and no line is indented by less than nothing.  An analysis that  *)
(* raised an exception leaves none of them.                                  *)
THEOREM PseudocodeTypes == Spec => []TypeOK
<1>1. PseudoInv => TypeOK
  <2> SUFFICES ASSUME PseudoInv
               PROVE  TypeOK
    OBVIOUS
  <2>1. BlocksOK
    BY BlocksTyped DEF PseudoInv
  <2>2. /\ DOMAIN own = DOMAIN hidden
        /\ \A e \in DOMAIN hidden : hidden[e] <= Len(own[e])
    <3>1. CASE stage \in {"merged", "compacted", "grouped", "failed"}
      <4>1. own = <<>> /\ hidden = <<>>
        BY <3>1 DEF PseudoInv
      <4>2. QED
        BY <4>1
    <3>2. CASE stage \in {"beautified", "generated"}
      BY <3>2 DEF PseudoInv, Beautified, CallsOK
    <3>3. QED
      BY <3>1, <3>2 DEF PseudoInv
  <2>3. \A k \in DOMAIN lines : lines[k].tabs \in Nat
    BY DEF PseudoInv, AreLines, ToSet
  <2>4. QED
    BY <2>1, <2>2, <2>3 DEF PseudoInv, TypeOK
<1>2. QED
  BY <1>1, PseudoInvInit, PseudoInvNext, PTL DEF Spec

(* The exception of the analysis has no other cause than callstacks of the   *)
(* loop without a common first call: not the blocks and loops, whatever the  *)
(* ranks that execute the callstacks.                                        *)
THEOREM FailureNeedsNoCommonCall == Spec => [](stage = "failed" => NoCommonCall)
<1>1. PseudoInv => (stage = "failed" => NoCommonCall)
  BY DEF PseudoInv
<1>2. QED
  BY <1>1, PseudoInvInit, PseudoInvNext, PTL DEF Spec

-----------------------------------------------------------------------------
(* The shell. *)

(* The options in force and the words given since default was last obeyed:   *)
(* an option that is on was asked for.                                       *)
OptionsWereAsked ==
  /\ pc.only_mpi => "wo-cs" \in asked
  /\ pc.show_burst_info => "w-burst-info" \in asked

(* A rejected command has left an option on, so a default that follows has   *)
(* something to reset.                                                       *)
RejectedLeavesAnOption ==
  rejected /\ status = "running" => pc.only_mpi \/ pc.show_burst_info

(* The inductive invariant. *)
ShellInv ==
  /\ ShellOK
  /\ ViewIsCurrent
  /\ OptionsWereAsked
  /\ RejectedLeavesAnOption
  /\ DiesOfBothOptions

-----------------------------------------------------------------------------
(* The fields of the options. *)
LEMMA Fields ==
  ASSUME NEW o \in Options
  PROVE  /\ o.only_mpi \in BOOLEAN /\ o.show_burst_info \in BOOLEAN
         /\ o.burst_threshold \in Threshold
         /\ o.show_ranks \in {all_ranks} \cup Selection
         /\ o = [only_mpi |-> o.only_mpi, show_burst_info |-> o.show_burst_info,
                 burst_threshold |-> o.burst_threshold, show_ranks |-> o.show_ranks]
  BY DEF Options

LEMMA CommandFields ==
  ASSUME NEW args \in Command
  PROVE  /\ args.words \subseteq Words
         /\ args.threshold \in {{}} \cup {{t} : t \in Threshold}
         /\ args.ranks \in {{}} \cup {{s} : s \in Selection}
         /\ args.malformed \subseteq Arguments
         /\ args = [words |-> args.words, threshold |-> args.threshold,
                    ranks |-> args.ranks, malformed |-> args.malformed]
  BY DEF Command

(* A value given is of the kind asked for, and what was there otherwise.     *)
LEMMA GivenType ==
  ASSUME NEW S, NEW option \in {{}} \cup {{v} : v \in S}, NEW otherwise
  PROVE  /\ option # {} => Given(option, otherwise) \in S
         /\ option = {} => Given(option, otherwise) = otherwise
  BY DEF Given

(* What a command makes of the options, field by field.                      *)
LEMMA AssignedFields ==
  ASSUME NEW args \in Command, pc \in Options
  PROVE  /\ Assigned(args) \in Options
         /\ Assigned(args).only_mpi = (pc.only_mpi \/ "wo-cs" \in args.words)
         /\ Assigned(args).show_burst_info = (pc.show_burst_info \/ "w-burst-info" \in args.words)
         /\ Assigned(args).burst_threshold = Given(args.threshold, pc.burst_threshold)
         /\ Assigned(args).show_ranks = pc.show_ranks
<1>1. Given(args.threshold, pc.burst_threshold) \in Threshold
  BY Fields, CommandFields, GivenType
<1>2. QED
  BY <1>1, Fields DEF Assigned, Options

LEMMA ResetFields ==
  ASSUME NEW args \in Command, NEW o \in Options
  PROVE  /\ Reset(o, args) \in Options
         /\ Reset(o, args).only_mpi = (o.only_mpi /\ "default" \notin WordsOf(args))
         /\ Reset(o, args).show_burst_info = (o.show_burst_info /\ "default" \notin WordsOf(args))
         /\ Reset(o, args).burst_threshold = o.burst_threshold
         /\ Reset(o, args).show_ranks = o.show_ranks
  BY Fields DEF Reset, Options

LEMMA FilteredFields ==
  ASSUME NEW args \in Command, NEW o \in Options
  PROVE  /\ Filtered(o, args) \in Options
         /\ Filtered(o, args).only_mpi = o.only_mpi
         /\ Filtered(o, args).show_burst_info = o.show_burst_info
         /\ Filtered(o, args).burst_threshold = o.burst_threshold
         /\ Filtered(o, args).show_ranks = Given(args.ranks, all_ranks)
<1>1. Given(args.ranks, all_ranks) \in {all_ranks} \cup Selection
  BY CommandFields, GivenType
<1>2. QED
  BY <1>1, Fields DEF Filtered, Options

(* The options after a command that is accepted.                             *)
LEMMA AcceptedFields ==
  ASSUME NEW args \in Command, pc \in Options,
         NEW o, o = Filtered(Reset(Assigned(args), args), args)
  PROVE  /\ o \in Options
         /\ o.only_mpi = ((pc.only_mpi \/ "wo-cs" \in args.words)
                            /\ "default" \notin WordsOf(args))
         /\ o.show_burst_info = ((pc.show_burst_info \/ "w-burst-info" \in args.words)
                                   /\ "default" \notin WordsOf(args))
         /\ o.burst_threshold = Given(args.threshold, pc.burst_threshold)
         /\ o.show_ranks = Given(args.ranks, all_ranks)
<1>1. /\ Assigned(args) \in Options
      /\ Assigned(args).only_mpi = (pc.only_mpi \/ "wo-cs" \in args.words)
      /\ Assigned(args).show_burst_info = (pc.show_burst_info \/ "w-burst-info" \in args.words)
      /\ Assigned(args).burst_threshold = Given(args.threshold, pc.burst_threshold)
  BY AssignedFields
<1>2. /\ Reset(Assigned(args), args) \in Options
      /\ Reset(Assigned(args), args).only_mpi
           = (Assigned(args).only_mpi /\ "default" \notin WordsOf(args))
      /\ Reset(Assigned(args), args).show_burst_info
           = (Assigned(args).show_burst_info /\ "default" \notin WordsOf(args))
      /\ Reset(Assigned(args), args).burst_threshold = Assigned(args).burst_threshold
  BY <1>1, ResetFields
<1>3. QED
  BY <1>1, <1>2, FilteredFields

(* If no assignment changed anything, the options are those there were.      *)
LEMMA NoGenNoChange ==
  ASSUME NEW args \in Command, pc \in Options, ~gen(args)
  PROVE  Filtered(Reset(Assigned(args), args), args) = pc
<1>1. /\ Reset(Assigned(args), args) = pc
      /\ args.ranks = {}
      /\ pc.show_ranks = all_ranks
  BY DEF gen
<1>2. Given(args.ranks, all_ranks) = pc.show_ranks
  BY <1>1 DEF Given
<1>3. QED
  BY <1>1, <1>2, Fields DEF Filtered

(* A command made of "default", or of nothing, has none of the other words.  *)
LEMMA DefaultAlone ==
  ASSUME NEW args \in Command, ~Rejected(args), "default" \in WordsOf(args)
  PROVE  "wo-cs" \notin args.words /\ "w-burst-info" \notin args.words
  BY DEF Rejected, WordsOf

LEMMA OtherWords ==
  ASSUME NEW args \in Command, "default" \notin WordsOf(args)
  PROVE  "default" \notin args.words
  BY DEF WordsOf

-----------------------------------------------------------------------------
LEMMA InitInv == ShellInit => ShellInv
<1> SUFFICES ASSUME ShellInit PROVE ShellInv
  OBVIOUS
<1>1. Default \in Options
  BY OptionsAssumption DEF Default, Options
<1>2. QED
  BY <1>1 DEF ShellInit, ShellInv, ShellOK, ViewIsCurrent, OptionsWereAsked,
              RejectedLeavesAnOption, DiesOfBothOptions, Default, None

(* A rejected command changes the options and not the view.                  *)
LEMMA RejectedKeeps ==
  ASSUME ShellInv, NEW args \in Command, do_pseudocode(args),
         "w-burst-threshold" \notin args.malformed, Rejected(args)
  PROVE  ShellInv'
<1>1. /\ command' \in {"pseudocode", "malformed"}
      /\ status = "running" /\ status' = "running"
      /\ pc' = Assigned(args) /\ gui' = gui /\ screen' = None /\ plot' = plot
      /\ asked' = asked \cup (args.words \ {"default"}) /\ rejected' = TRUE
  BY DEF do_pseudocode
<1>2. /\ pc' \in Options
      /\ pc'.only_mpi = (pc.only_mpi \/ "wo-cs" \in args.words)
      /\ pc'.show_burst_info = (pc.show_burst_info \/ "w-burst-info" \in args.words)
  BY <1>1, AssignedFields DEF ShellInv, ShellOK
<1>3. ShellOK'
  BY <1>1, <1>2, CommandFields DEF ShellInv, ShellOK
<1>4. OptionsWereAsked'
  BY <1>1, <1>2 DEF ShellInv, OptionsWereAsked
<1>5. RejectedLeavesAnOption'
  BY <1>2 DEF Rejected, RejectedLeavesAnOption
<1>6. ViewIsCurrent' /\ DiesOfBothOptions'
  BY <1>1 DEF ViewIsCurrent, DiesOfBothOptions
<1>7. QED
  BY <1>3, <1>4, <1>5, <1>6 DEF ShellInv

(* An accepted command shows a view of the options in force, or ends the     *)
(* shell because both options are on.                                        *)
LEMMA AcceptedKeeps ==
  ASSUME ShellInv, NEW args \in Command, do_pseudocode(args),
         args.malformed = {}, ~Rejected(args)
  PROVE  ShellInv'
<1>1. /\ status = "running" /\ plot' = plot /\ command' = "pseudocode"
      /\ pc' = Filtered(Reset(Assigned(args), args), args)
      /\ asked' = IF "default" \in WordsOf(args) THEN {} ELSE asked \cup args.words
  BY DEF do_pseudocode
<1>2. pc \in Options /\ gui \in Options
  BY DEF ShellInv, ShellOK
<1>3. /\ pc' \in Options
      /\ pc'.only_mpi = ((pc.only_mpi \/ "wo-cs" \in args.words)
                           /\ "default" \notin WordsOf(args))
      /\ pc'.show_burst_info = ((pc.show_burst_info \/ "w-burst-info" \in args.words)
                                  /\ "default" \notin WordsOf(args))
  BY <1>1, <1>2, AcceptedFields
<1>4. OptionsWereAsked'
  BY <1>1, <1>3 DEF ShellInv, OptionsWereAsked
<1>5. asked' \subseteq Words
  BY <1>1, CommandFields DEF ShellInv, ShellOK
<1>6. CASE ~gen(args)
  <2>1. screen' = <<gui>> /\ gui' = gui /\ status' = status /\ rejected' = rejected
    BY <1>6 DEF do_pseudocode, Rejected
  <2>2. pc' = pc
    BY <1>1, <1>2, <1>6, NoGenNoChange
  <2>3. QED
    BY <1>1, <1>2, <1>4, <1>5, <2>1, <2>2
    DEF ShellInv, ShellOK, ViewIsCurrent, RejectedLeavesAnOption, DiesOfBothOptions
<1>7. CASE gen(args) /\ ~GenerateFails(pc')
  <2>1. gui' = pc' /\ screen' = <<pc'>> /\ rejected' = FALSE /\ status' = "running"
    BY <1>1, <1>7 DEF do_pseudocode
  <2>2. ShellOK'
    BY <1>1, <1>3, <1>5, <2>1 DEF ShellInv, ShellOK
  <2>3. ViewIsCurrent' /\ RejectedLeavesAnOption' /\ DiesOfBothOptions'
    BY <2>1 DEF ViewIsCurrent, RejectedLeavesAnOption, DiesOfBothOptions
  <2>4. QED
    BY <1>4, <2>2, <2>3 DEF ShellInv
<1>8. CASE gen(args) /\ GenerateFails(pc')
  <2>1. status' = "died" /\ screen' = None /\ gui' = gui /\ rejected' = rejected
    BY <1>8 DEF do_pseudocode
  <2>2. pc'.only_mpi /\ pc'.show_burst_info
    BY <1>8 DEF GenerateFails
  <2>3. RejectedLeavesAnOption' /\ DiesOfBothOptions' /\ ViewIsCurrent'
    BY <1>1, <1>4, <2>1, <2>2
    DEF OptionsWereAsked, RejectedLeavesAnOption, DiesOfBothOptions, ViewIsCurrent
  <2>4. QED
    BY <1>1, <1>2, <1>3, <1>4, <1>5, <2>1, <2>3 DEF ShellInv, ShellOK
<1>9. QED
  BY <1>6, <1>7, <1>8

(* A malformed argument ends the shell; what was assigned before is kept.    *)
LEMMA MalformedKeeps ==
  ASSUME ShellInv, NEW args \in Command, do_pseudocode(args),
         \/ "w-burst-threshold" \in args.malformed
         \/ args.malformed = {"ranks"} /\ ~Rejected(args)
  PROVE  ShellInv'
<1>1. /\ command' = "malformed" /\ status' = "died" /\ screen' = None
      /\ gui' = gui /\ plot' = plot /\ rejected' = rejected
      /\ \/ /\ pc' = Assigned(args)
            /\ asked' = asked \cup (args.words \ {"default"})
         \/ /\ pc' = Reset(Assigned(args), args)
            /\ asked' = IF "default" \in WordsOf(args) THEN {} ELSE asked \cup args.words
  BY DEF do_pseudocode
<1>2. pc \in Options
  BY DEF ShellInv, ShellOK
<1>3. /\ Assigned(args) \in Options
      /\ Assigned(args).only_mpi = (pc.only_mpi \/ "wo-cs" \in args.words)
      /\ Assigned(args).show_burst_info = (pc.show_burst_info \/ "w-burst-info" \in args.words)
  BY <1>2, AssignedFields
<1>4. /\ Reset(Assigned(args), args) \in Options
      /\ Reset(Assigned(args), args).only_mpi
           = (Assigned(args).only_mpi /\ "default" \notin WordsOf(args))
      /\ Reset(Assigned(args), args).show_burst_info
           = (Assigned(args).show_burst_info /\ "default" \notin WordsOf(args))
  BY <1>3, ResetFields
<1>5. ShellOK'
  BY <1>1, <1>3, <1>4, CommandFields DEF ShellInv, ShellOK
<1>6. OptionsWereAsked'
  BY <1>1, <1>3, <1>4 DEF ShellInv, OptionsWereAsked
<1>7. RejectedLeavesAnOption' /\ ViewIsCurrent' /\ DiesOfBothOptions'
  BY <1>1 DEF RejectedLeavesAnOption, ViewIsCurrent, DiesOfBothOptions
<1>8. QED
  BY <1>5, <1>6, <1>7 DEF ShellInv

LEMMA StepInv == ShellInv /\ [ShellNext]_shellvars => ShellInv'
<1> SUFFICES ASSUME ShellInv, [ShellNext]_shellvars PROVE ShellInv'
  OBVIOUS
<1>1. ASSUME NEW args \in Command, do_pseudocode(args) PROVE ShellInv'
  <2>1. args.malformed = {} \/ args.malformed = {"ranks"} \/ "w-burst-threshold" \in args.malformed
    BY CommandFields DEF Arguments
  <2>2. QED
    BY <1>1, <2>1, MalformedKeeps, RejectedKeeps, AcceptedKeeps
<1>2. CASE do_clustering
  BY <1>2 DEF do_clustering, ShellInv, ShellOK, ViewIsCurrent, OptionsWereAsked,
              RejectedLeavesAnOption, DiesOfBothOptions
<1>3. CASE do_quit
  BY <1>3 DEF do_quit, ShellInv, ShellOK, ViewIsCurrent, OptionsWereAsked,
              RejectedLeavesAnOption, DiesOfBothOptions
<1>4. CASE UNCHANGED shellvars
  BY <1>4 DEF shellvars, ShellInv, ShellOK, ViewIsCurrent, OptionsWereAsked,
              RejectedLeavesAnOption, DiesOfBothOptions
<1>5. QED
  BY <1>1, <1>2, <1>3, <1>4 DEF ShellNext

THEOREM ShellInvariant == ShellSpec => []ShellInv
<1>1. QED
  BY InitInv, StepInv, PTL DEF ShellSpec

(* Types of the options, the view and the histories.                         *)
THEOREM ShellTypes == ShellSpec => []ShellOK
<1>1. ShellInv => ShellOK
  BY DEF ShellInv
<1>2. QED
  BY <1>1, ShellInvariant, PTL

(* The view kept from one command to the next is the one the options in      *)
(* force describe, unless a command was rejected after it changed them.      *)
THEOREM ViewCorrect == ShellSpec => []ViewIsCurrent
<1>1. ShellInv => ViewIsCurrent
  BY DEF ShellInv
<1>2. QED
  BY <1>1, ShellInvariant, PTL

(* A command with well-formed arguments ends the shell only if it is the     *)
(* clustering without a process to start or shows wo-cs with w-burst-info.   *)
THEOREM DeathsCorrect == ShellSpec => []DiesOfBothOptions
<1>1. ShellInv => DiesOfBothOptions
  BY DEF ShellInv
<1>2. QED
  BY <1>1, ShellInvariant, PTL

(* default always shows the default view.  If no assignment changes an       *)
(* option, no rejected command can have changed one before: it would have    *)
(* left one on.  So the view kept is that of the options.                    *)
LEMMA DefaultStep ==
  ASSUME ShellInv, NEW args \in Command, do_pseudocode(args),
         WordsOf(args) = {"default"}, args.ranks = {}, args.malformed = {}
  PROVE  /\ status' = "running"
         /\ screen' = <<[Default EXCEPT
                          !.burst_threshold = Given(args.threshold, pc.burst_threshold)]>>
<1> DEFINE view == [Default EXCEPT !.burst_threshold = Given(args.threshold, pc.burst_threshold)]
<1>1. ~Rejected(args) /\ "wo-cs" \notin args.words /\ "w-burst-info" \notin args.words
  BY DEF Rejected, WordsOf
<1>2. /\ status = "running"
      /\ pc' = Filtered(Reset(Assigned(args), args), args)
      /\ pc \in Options /\ gui \in Options
  BY <1>1 DEF do_pseudocode, ShellInv, ShellOK
<1>3. /\ pc' \in Options
      /\ pc'.only_mpi = FALSE /\ pc'.show_burst_info = FALSE
      /\ pc'.burst_threshold = Given(args.threshold, pc.burst_threshold)
      /\ pc'.show_ranks = Given(args.ranks, all_ranks)
  BY <1>2, AcceptedFields
<1>4. pc' = view
  <2>1. pc'.show_ranks = all_ranks
    BY <1>3 DEF Given
  <2>2. Default \in Options
    BY OptionsAssumption DEF Default, Options
  <2>3. Given(args.threshold, pc.burst_threshold) \in Threshold
    BY <1>2, Fields, CommandFields, GivenType
  <2>4. /\ view \in Options
        /\ view.only_mpi = Default.only_mpi /\ view.show_burst_info = Default.show_burst_info
        /\ view.burst_threshold = Given(args.threshold, pc.burst_threshold)
        /\ view.show_ranks = Default.show_ranks
    BY <2>2, <2>3 DEF Options
  <2>5. QED
    BY <1>3, <2>1, <2>4, Fields DEF Default
<1>5. CASE gen(args)
  <2>1. ~GenerateFails(pc')
    BY <1>3 DEF GenerateFails
  <2>2. screen' = <<pc'>> /\ status' = "running"
    BY <1>1, <1>2, <1>5, <2>1 DEF do_pseudocode
  <2>3. QED
    BY <1>4, <2>2
<1>6. CASE ~gen(args)
  <2>1. screen' = <<gui>> /\ status' = "running" /\ pc' = pc
    BY <1>1, <1>2, <1>6, NoGenNoChange DEF do_pseudocode
  <2>2. ~rejected
    BY <1>2, <1>3, <2>1 DEF ShellInv, RejectedLeavesAnOption
  <2>3. gui = pc
    BY <1>2, <2>2 DEF ShellInv, ViewIsCurrent
  <2>4. QED
    BY <1>4, <2>1, <2>3
<1>7. QED
  BY <1>5, <1>6

THEOREM DefaultCorrect == ShellSpec => DefaultIsDefault
<1> DEFINE DefaultShown ==
      \A args \in Command :
       do_pseudocode(args) /\ WordsOf(args) = {"default"} /\ args.ranks = {} /\ args.malformed = {} =>
        /\ status' = "running"
        /\ screen' = <<[Default EXCEPT
                          !.burst_threshold = Given(args.threshold, pc.burst_threshold)]>>
<1>1. ShellInv /\ [ShellNext]_shellvars => [DefaultShown]_shellvars
  BY DefaultStep
<1>2. QED
  BY <1>1, ShellInvariant, PTL DEF ShellSpec, DefaultIsDefault
=============================================================================
