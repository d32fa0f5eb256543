------------------------- MODULE ClusterMergeProofs -------------------------
(***************************************************************************)
(* The proofs about the merge of clusters, for any programs: that a merged *)
(* loop is left alone, and that no callstack is lost or doubled but those  *)
(* of a superloop that is removed with one of its subloops.                *)
(***************************************************************************)
EXTENDS ClusterMerge, SequenceFacts

-----------------------------------------------------------------------------
(* Recursion over the loops in a loop.  A loop is in one of a later cluster  *)
(* or in the hidden superloop of its own: this orders the loops.             *)

Names(n) == (1 .. n) \X Nat

Rank(l) == 2 * l[1] + (IF l[2] = 0 THEN 1 ELSE 0)

(* The loops of n clusters, those in a loop before the loop.                 *)
Ordered(ls, n) ==
  /\ DOMAIN ls \subseteq Names(n)
  /\ \A l \in DOMAIN ls : /\ ls[l].subs \subseteq DOMAIN ls
                          /\ \A s \in ls[l].subs : Rank(s) < Rank(l)

LEMMA RankType ==
  ASSUME NEW n \in Nat, NEW l \in Names(n)
  PROVE  Rank(l) \in Nat /\ Rank(l) < 2 * n + 2
<1>1. PICK k \in 1 .. n, m \in Nat : l = <<k, m>>
  BY DEF Names
<1>2. l[1] = k /\ l[2] = m
  BY <1>1
<1>3. QED
  BY <1>2 DEF Rank

(* f[l] is base[l] and what f is on the loops in l.                          *)
Collects(f, D, base, ls) == f = [l \in D |-> base[l] \cup UNION {f[s] : s \in ls[l].subs}]

LEMMA CollectsAt ==
  ASSUME NEW f, NEW D, NEW base, NEW ls, Collects(f, D, base, ls), NEW l \in D
  PROVE  f[l] = base[l] \cup UNION {f[s] : s \in ls[l].subs}
<1> DEFINE g == [x \in D |-> base[x] \cup UNION {f[s] : s \in ls[x].subs}]
<1>1. f = g
  BY Zenon DEF Collects
<1>2. g[l] = base[l] \cup UNION {f[s] : s \in ls[l].subs}
  OBVIOUS
<1> HIDE DEF g
<1>3. QED
  BY <1>1, <1>2

(* The loops ranked below m.                                                 *)
Below(ls, m) == {l \in DOMAIN ls : Rank(l) < m}

LEMMA CollectsExists ==
  ASSUME NEW n \in Nat, NEW ls, Ordered(ls, n), NEW base
  PROVE  \E f : Collects(f, DOMAIN ls, base, ls)
<1> DEFINE T == {m \in Nat : \E f : Collects(f, Below(ls, m), base, ls)}
<1>1. \A l \in DOMAIN ls : Rank(l) \in Nat /\ Rank(l) < 2 * n + 2
  BY RankType DEF Ordered
<1>2. 0 \in T
  <2>1. Below(ls, 0) = {}
    BY <1>1 DEF Below
  <2> DEFINE f == [l \in {} |-> {}]
  <2>2. Collects(f, {}, base, ls)
    BY DEF Collects
  <2>3. QED
    BY <2>1, <2>2
<1>3. ASSUME NEW m \in Nat, m \in T
      PROVE  m + 1 \in T
  <2>1. PICK f : Collects(f, Below(ls, m), base, ls)
    BY <1>3
  <2> DEFINE g == [l \in Below(ls, m + 1) |-> base[l] \cup UNION {f[s] : s \in ls[l].subs}]
  <2>2. \A l \in Below(ls, m + 1) :
          /\ ls[l].subs \subseteq Below(ls, m)
          /\ \A s \in ls[l].subs : s \in Below(ls, m) /\ s \in Below(ls, m + 1)
    BY <1>1 DEF Below, Ordered
  <2>3. ASSUME NEW l \in Below(ls, m)
        PROVE  g[l] = f[l]
    <3>1. f[l] = base[l] \cup UNION {f[s] : s \in ls[l].subs}
      BY <2>1, CollectsAt
    <3>2. l \in Below(ls, m + 1)
      BY <1>1 DEF Below
    <3>3. QED
      BY <3>1, <3>2
  <2> DEFINE h == [l \in Below(ls, m + 1) |-> base[l] \cup UNION {g[s] : s \in ls[l].subs}]
  <2>4. ASSUME NEW l \in Below(ls, m + 1)
        PROVE  UNION {f[s] : s \in ls[l].subs} = UNION {g[s] : s \in ls[l].subs}
    <3>1. \A s \in ls[l].subs : g[s] = f[s]
      BY <2>2, <2>3
    <3> HIDE DEF g
    <3>2. QED
      BY <3>1
  <2>5. g = h
    <3>1. \A l \in Below(ls, m + 1) : base[l] \cup UNION {f[s] : s \in ls[l].subs}
                                       = base[l] \cup UNION {g[s] : s \in ls[l].subs}
      <4> HIDE DEF g
      <4>1. QED
        BY <2>4
    <3>2. QED
      BY <3>1, Zenon
  <2>6. Collects(g, Below(ls, m + 1), base, ls)
    <3> HIDE DEF g
    <3>1. QED
      BY <2>5, Zenon DEF Collects
  <2> HIDE DEF g, h
  <2>7. QED
    BY <2>6
<1>4. 2 * n + 2 \in T
  <2>1. 2 * n + 2 \in Nat
    OBVIOUS
  <2> HIDE DEF T
  <2>2. QED
    BY <1>2, <1>3, <2>1, SetInduction
<1>5. Below(ls, 2 * n + 2) = DOMAIN ls
  BY <1>1 DEF Below
<1>6. QED
  BY <1>4, <1>5

(* The loops in some loops, as Nest has them.                                *)
NestOf(ls, tops) ==
  LET In[l \in DOMAIN ls] == {l} \cup UNION {In[s] : s \in ls[l].subs}
  IN UNION {In[l] : l \in tops}

Selves(ls) == [l \in DOMAIN ls |-> {l}]

(* The smallest set of loops that has those in its loops.                    *)
Closed(ls, N) == \A l \in N : ls[l].subs \subseteq N

Least(ls, tops, N) ==
  /\ tops \subseteq N /\ N \subseteq DOMAIN ls /\ Closed(ls, N)
  /\ \A C \in SUBSET DOMAIN ls : tops \subseteq C /\ Closed(ls, C) => N \subseteq C

LEMMA InsideClosed ==
  ASSUME NEW n \in Nat, NEW ls, Ordered(ls, n),
         NEW f, Collects(f, DOMAIN ls, Selves(ls), ls)
  PROVE  \A l \in DOMAIN ls : f[l] \subseteq DOMAIN ls /\ l \in f[l] /\ Closed(ls, f[l])
<1> DEFINE Good(l) == f[l] \subseteq DOMAIN ls /\ l \in f[l] /\ Closed(ls, f[l])
           T == {m \in Nat : \A l \in Below(ls, m) : Good(l)}
<1>1. \A l \in DOMAIN ls : Rank(l) \in Nat /\ Rank(l) < 2 * n + 2
  BY RankType DEF Ordered
<1>2. \A l \in DOMAIN ls : f[l] = {l} \cup UNION {f[s] : s \in ls[l].subs}
  BY CollectsAt DEF Selves
<1>3. 0 \in T
  BY <1>1 DEF Below
<1>4. ASSUME NEW m \in Nat, m \in T
      PROVE  m + 1 \in T
  <2>1. ASSUME NEW l \in Below(ls, m + 1)
        PROVE  Good(l)
    <3>1. l \in DOMAIN ls /\ f[l] = {l} \cup UNION {f[s] : s \in ls[l].subs}
      BY <1>2 DEF Below
    <3>2. \A s \in ls[l].subs : s \in Below(ls, m)
      BY <1>1, <3>1 DEF Below, Ordered
    <3>3. \A s \in ls[l].subs : Good(s)
      BY <1>4, <3>2
    <3>4. f[l] \subseteq DOMAIN ls /\ l \in f[l]
      BY <3>1, <3>3
    <3>5. \A s \in ls[l].subs : f[s] \subseteq f[l] /\ s \in f[l]
      BY <3>1, <3>3
    <3>6. ASSUME NEW x \in f[l]
          PROVE  ls[x].subs \subseteq f[l]
      <4>1. CASE x = l
        BY <3>5, <4>1
      <4>2. CASE x # l
        <5>1. PICK s \in ls[l].subs : x \in f[s]
          BY <3>1, <3>6, <4>2
        <5>2. ls[x].subs \subseteq f[s]
          BY <3>3, <5>1 DEF Closed
        <5>3. QED
          BY <3>5, <5>1, <5>2
      <4>3. QED
        BY <4>1, <4>2
    <3>7. QED
      BY <3>4, <3>6 DEF Closed
  <2> HIDE DEF Good
  <2>2. QED
    BY <2>1
<1>5. 2 * n + 2 \in T
  <2>1. 2 * n + 2 \in Nat
    OBVIOUS
  <2> HIDE DEF T
  <2>2. QED
    BY <1>3, <1>4, <2>1, SetInduction
<1>6. Below(ls, 2 * n + 2) = DOMAIN ls
  BY <1>1 DEF Below
<1> HIDE DEF Good
<1>7. \A l \in DOMAIN ls : Good(l)
  BY <1>5, <1>6
<1>8. QED
  BY <1>7 DEF Good

LEMMA InsideLeast ==
  ASSUME NEW n \in Nat, NEW ls, Ordered(ls, n),
         NEW f, Collects(f, DOMAIN ls, Selves(ls), ls),
         NEW C \in SUBSET DOMAIN ls, Closed(ls, C)
  PROVE  \A l \in C : f[l] \subseteq C
<1> DEFINE T == {m \in Nat : \A l \in Below(ls, m) \cap C : f[l] \subseteq C}
<1>1. \A l \in DOMAIN ls : Rank(l) \in Nat /\ Rank(l) < 2 * n + 2
  BY RankType DEF Ordered
<1>2. \A l \in DOMAIN ls : f[l] = {l} \cup UNION {f[s] : s \in ls[l].subs}
  BY CollectsAt DEF Selves
<1>3. 0 \in T
  BY <1>1 DEF Below
<1>4. ASSUME NEW m \in Nat, m \in T
      PROVE  m + 1 \in T
  <2>1. ASSUME NEW l \in Below(ls, m + 1) \cap C
        PROVE  f[l] \subseteq C
    <3>1. l \in DOMAIN ls /\ f[l] = {l} \cup UNION {f[s] : s \in ls[l].subs}
      BY <1>2 DEF Below
    <3>2. \A s \in ls[l].subs : s \in Below(ls, m) /\ s \in C
      BY <1>1, <3>1 DEF Below, Ordered, Closed
    <3>3. \A s \in ls[l].subs : f[s] \subseteq C
      BY <1>4, <3>2
    <3>4. QED
      BY <3>1, <3>3
  <2>2. QED
    BY <2>1
<1>5. 2 * n + 2 \in T
  <2>1. 2 * n + 2 \in Nat
    OBVIOUS
  <2> HIDE DEF T
  <2>2. QED
    BY <1>3, <1>4, <2>1, SetInduction
<1>6. Below(ls, 2 * n + 2) = DOMAIN ls
  BY <1>1 DEF Below
<1>7. QED
  BY <1>5, <1>6

LEMMA NestLeast ==
  ASSUME NEW n \in Nat, NEW ls, Ordered(ls, n), NEW tops \in SUBSET DOMAIN ls
  PROVE  Least(ls, tops, NestOf(ls, tops))
<1> DEFINE A(g) == [l \in DOMAIN ls |-> Selves(ls)[l] \cup UNION {g[s] : s \in ls[l].subs}]
           B(g) == [l \in DOMAIN ls |-> {l} \cup UNION {g[s] : s \in ls[l].subs}]
           f    == CHOOSE g : g = B(g)
<1>1. NestOf(ls, tops) = UNION {f[l] : l \in tops}
  BY Zenon DEF NestOf
<1>2. Collects(f, DOMAIN ls, Selves(ls), ls)
  <2>1. PICK h : Collects(h, DOMAIN ls, Selves(ls), ls)
    BY CollectsExists
  <2>2. ASSUME NEW g
        PROVE  A(g) = B(g)
    <3>1. \A l \in DOMAIN ls : Selves(ls)[l] \cup UNION {g[s] : s \in ls[l].subs}
                                = {l} \cup UNION {g[s] : s \in ls[l].subs}
      BY DEF Selves
    <3>2. QED
      BY <3>1, Zenon
  <2>3. h = A(h)
    BY <2>1, Zenon DEF Collects
  <2> HIDE DEF A, B
  <2>4. h = B(h)
    BY <2>2, <2>3
  <2>5. f = B(f)
    BY <2>4, Zenon
  <2> HIDE DEF f
  <2>6. f = A(f)
    BY <2>2, <2>5
  <2>7. QED
    BY <2>6, Zenon DEF Collects, A
<1> HIDE DEF f
<1>3. \A l \in DOMAIN ls : f[l] \subseteq DOMAIN ls /\ l \in f[l] /\ Closed(ls, f[l])
  BY <1>2, InsideClosed
<1> DEFINE N == UNION {f[l] : l \in tops}
<1>4. tops \subseteq N /\ N \subseteq DOMAIN ls
  BY <1>3
<1>5. ASSUME NEW x \in N
      PROVE  ls[x].subs \subseteq N
  <2>1. PICK l \in tops : x \in f[l]
    OBVIOUS
  <2>2. Closed(ls, f[l])
    BY <1>3
  <2>3. ls[x].subs \subseteq f[l]
    BY <2>1, <2>2 DEF Closed
  <2>4. QED
    BY <2>3
<1>6. ASSUME NEW C \in SUBSET DOMAIN ls, tops \subseteq C, Closed(ls, C)
      PROVE  N \subseteq C
  <2>1. \A l \in C : f[l] \subseteq C
    BY <1>2, <1>6, InsideLeast
  <2>2. QED
    BY <1>6, <2>1
<1> HIDE DEF N
<1>7. Least(ls, tops, N)
  BY <1>4, <1>5, <1>6 DEF Least, Closed
<1>8. QED
  BY <1>1, <1>7 DEF N

LEMMA LeastIsOne ==
  ASSUME NEW ls, NEW tops, NEW N, NEW M, Least(ls, tops, N), Least(ls, tops, M)
  PROVE  N = M
BY DEF Least

(* The callstacks in a loop, as Flat has them.                               *)
FlatOf(ls, l) ==
  LET F[m \in DOMAIN ls] == ls[m].calls \cup UNION {F[s] : s \in ls[m].subs}
  IN F[l]

CallsIn(ls) == [l \in DOMAIN ls |-> ls[l].calls]

LEMMA FlatDef ==
  ASSUME NEW n \in Nat, NEW ls, Ordered(ls, n)
  PROVE  \E f : Collects(f, DOMAIN ls, CallsIn(ls), ls) /\ \A l : FlatOf(ls, l) = f[l]
<1> DEFINE A(g) == [l \in DOMAIN ls |-> CallsIn(ls)[l] \cup UNION {g[s] : s \in ls[l].subs}]
           B(g) == [l \in DOMAIN ls |-> ls[l].calls \cup UNION {g[s] : s \in ls[l].subs}]
           f    == CHOOSE g : g = B(g)
<1>1. \A l : FlatOf(ls, l) = f[l]
  BY Zenon DEF FlatOf
<1>2. Collects(f, DOMAIN ls, CallsIn(ls), ls)
  <2>1. PICK h : Collects(h, DOMAIN ls, CallsIn(ls), ls)
    BY CollectsExists
  <2>2. ASSUME NEW g
        PROVE  A(g) = B(g)
    <3>1. \A l \in DOMAIN ls : CallsIn(ls)[l] \cup UNION {g[s] : s \in ls[l].subs}
                                = ls[l].calls \cup UNION {g[s] : s \in ls[l].subs}
      BY DEF CallsIn
    <3>2. QED
      BY <3>1, Zenon
  <2>3. h = A(h)
    BY <2>1, Zenon DEF Collects
  <2> HIDE DEF A, B
  <2>4. h = B(h)
    BY <2>2, <2>3
  <2>5. f = B(f)
    BY <2>4, Zenon
  <2> HIDE DEF f
  <2>6. f = A(f)
    BY <2>2, <2>5
  <2>7. QED
    BY <2>6, Zenon DEF Collects, A
<1> HIDE DEF f
<1>3. QED
  BY <1>1, <1>2

LEMMA FlatAt ==
  ASSUME NEW n \in Nat, NEW ls, Ordered(ls, n), NEW l \in DOMAIN ls
  PROVE  FlatOf(ls, l) = ls[l].calls \cup UNION {FlatOf(ls, s) : s \in ls[l].subs}
<1>1. PICK f : Collects(f, DOMAIN ls, CallsIn(ls), ls) /\ \A x : FlatOf(ls, x) = f[x]
  BY FlatDef
<1>2. f[l] = CallsIn(ls)[l] \cup UNION {f[s] : s \in ls[l].subs}
  BY <1>1, CollectsAt
<1>3. QED
  BY <1>1, <1>2 DEF CallsIn

-----------------------------------------------------------------------------
(* A nest of loops: none at the top lies in another one, each of the others  *)
(* lies in exactly one.                                                      *)
InOneOf(ls, N, l) ==
  \E m \in N : l \in ls[m].subs /\ \A q \in N : l \in ls[q].subs => q = m

Tree(ls, tops, N) ==
  \A l \in N : IF l \in tops THEN \A m \in N : l \notin ls[m].subs ELSE InOneOf(ls, N, l)

(* The callstack is held by none of the loops, by exactly one of them.       *)
NotHeld(ls, N, c) == \A l \in N : c \notin ls[l].calls
HeldOnce(ls, N, c) ==
  \E l \in N : c \in ls[l].calls /\ \A m \in N : c \in ls[m].calls => m = l

(* Two loops at the top are joined: o goes, and what was in it is in l.      *)
Joined(ls, ls2, l, o) ==
  /\ DOMAIN ls2 = DOMAIN ls
  /\ ls2[l].subs = ls[l].subs \cup ls[o].subs
  /\ ls2[l].calls = ls[l].calls \cup ls[o].calls
  /\ \A x \in DOMAIN ls \ {l} : ls2[x].subs = ls[x].subs /\ ls2[x].calls = ls[x].calls

LEMMA JoinedNest ==
  ASSUME NEW ls, NEW ls2, NEW n \in Nat, Ordered(ls, n), NEW tops, NEW N, NEW N2,
         NEW l \in tops, NEW o \in tops, o # l, Joined(ls, ls2, l, o),
         Least(ls, tops, N), Tree(ls, tops, N), Least(ls2, tops \ {o}, N2)
  PROVE  N2 = N \ {o}
<1>1. o \in N /\ l \in N /\ N \subseteq DOMAIN ls
  BY DEF Least
<1>2. \A x \in N : o \notin ls[x].subs
  BY <1>1 DEF Tree
<1>3. Closed(ls2, N \ {o})
  <2>1. ASSUME NEW x \in N \ {o}
        PROVE  ls2[x].subs \subseteq N \ {o}
    <3>1. ls[x].subs \subseteq N /\ ls[o].subs \subseteq N
      BY <1>1 DEF Least, Closed
    <3>2. o \notin ls[x].subs /\ o \notin ls[o].subs
      BY <1>1, <1>2
    <3>3. CASE x = l
      BY <3>1, <3>2, <3>3 DEF Joined
    <3>4. CASE x # l
      BY <1>1, <3>1, <3>2, <3>4 DEF Joined
    <3>5. QED
      BY <3>3, <3>4
  <2>2. QED
    BY <2>1 DEF Closed
<1>4. N2 \subseteq N \ {o}
  <2>1. tops \ {o} \subseteq N \ {o} /\ N \ {o} \in SUBSET DOMAIN ls2
    BY <1>1 DEF Least, Joined
  <2>2. QED
    BY <1>3, <2>1 DEF Least
<1>5. l \in N2 /\ N2 \subseteq DOMAIN ls /\ Closed(ls2, N2)
  BY DEF Least, Joined
<1>6. Closed(ls, N2 \cup {o})
  <2>1. ASSUME NEW x \in N2 \cup {o}
        PROVE  ls[x].subs \subseteq N2 \cup {o}
    <3>1. CASE x = o
      <4>1. ls2[l].subs \subseteq N2
        BY <1>5 DEF Closed
      <4>2. QED
        BY <3>1, <4>1 DEF Joined
    <3>2. CASE x = l
      <4>1. ls2[l].subs \subseteq N2
        BY <1>5 DEF Closed
      <4>2. QED
        BY <3>2, <4>1 DEF Joined
    <3>3. CASE x # o /\ x # l
      <4>1. ls2[x].subs \subseteq N2
        BY <1>5, <3>3 DEF Closed
      <4>2. QED
        BY <1>5, <3>3, <4>1 DEF Joined
    <3>4. QED
      BY <3>1, <3>2, <3>3
  <2>2. QED
    BY <2>1 DEF Closed
<1>7. N \subseteq N2 \cup {o}
  <2>1. tops \subseteq N2 \cup {o} /\ N2 \cup {o} \in SUBSET DOMAIN ls
    BY <1>1, <1>5 DEF Least
  <2>2. QED
    BY <1>6, <2>1 DEF Least
<1>8. QED
  BY <1>4, <1>7

LEMMA JoinedTree ==
  ASSUME NEW ls, NEW ls2, NEW n \in Nat, Ordered(ls, n), NEW tops, NEW N,
         NEW l \in tops, NEW o \in tops, o # l, Joined(ls, ls2, l, o),
         Least(ls, tops, N), Tree(ls, tops, N)
  PROVE  Tree(ls2, tops \ {o}, N \ {o})
<1>1. o \in N /\ l \in N /\ N \subseteq DOMAIN ls
  BY DEF Least
<1>2. ASSUME NEW x \in N \ {o}
      PROVE  IF x \in tops \ {o} THEN \A m \in N \ {o} : x \notin ls2[m].subs
             ELSE InOneOf(ls2, N \ {o}, x)
  <2>1. CASE x \in tops
    <3>1. \A m \in N : x \notin ls[m].subs
      BY <2>1 DEF Tree
    <3>2. \A m \in N \ {o} : x \notin ls2[m].subs
      BY <1>1, <3>1 DEF Joined
    <3>3. QED
      BY <1>2, <2>1, <3>2
  <2>2. CASE x \notin tops
    <3>1. PICK m \in N : x \in ls[m].subs /\ \A q \in N : x \in ls[q].subs => q = m
      BY <2>2 DEF Tree, InOneOf
    <3>2. CASE m = o
      <4>1. x \in ls2[l].subs
        BY <3>1, <3>2 DEF Joined
      <4>2. \A q \in N \ {o} : x \in ls2[q].subs => q = l
        BY <1>1, <3>1, <3>2 DEF Joined
      <4>3. QED
        BY <1>1, <2>2, <4>1, <4>2 DEF InOneOf
    <3>3. CASE m # o
      <4>1. x \in ls2[m].subs
        BY <1>1, <3>1 DEF Joined
      <4>2. \A q \in N \ {o} : x \in ls2[q].subs => q = m
        BY <1>1, <3>1, <3>3 DEF Joined
      <4>3. QED
        BY <2>2, <3>1, <3>3, <4>1, <4>2 DEF InOneOf
    <3>4. QED
      BY <3>2, <3>3
  <2>3. QED
    BY <2>1, <2>2
<1>3. QED
  BY <1>2 DEF Tree

LEMMA JoinedHeld ==
  ASSUME NEW ls, NEW ls2, NEW N \in SUBSET DOMAIN ls, NEW l \in N, NEW o \in N, o # l,
         Joined(ls, ls2, l, o), NEW c
  PROVE  /\ HeldOnce(ls, N, c) => HeldOnce(ls2, N \ {o}, c)
         /\ NotHeld(ls, N, c) => NotHeld(ls2, N \ {o}, c)
<1>1. ASSUME HeldOnce(ls, N, c)
      PROVE  HeldOnce(ls2, N \ {o}, c)
  <2>1. PICK m \in N : c \in ls[m].calls /\ \A q \in N : c \in ls[q].calls => q = m
    BY <1>1 DEF HeldOnce
  <2>2. CASE m = o
    <3>1. c \in ls2[l].calls /\ \A q \in N \ {o} : c \in ls2[q].calls => q = l
      BY <2>1, <2>2 DEF Joined
    <3>2. QED
      BY <3>1 DEF HeldOnce
  <2>3. CASE m # o
    <3>1. c \in ls2[m].calls /\ \A q \in N \ {o} : c \in ls2[q].calls => q = m
      BY <2>1, <2>3 DEF Joined
    <3>2. QED
      BY <2>1, <2>3, <3>1 DEF HeldOnce
  <2>4. QED
    BY <2>2, <2>3
<1>2. ASSUME NotHeld(ls, N, c)
      PROVE  NotHeld(ls2, N \ {o}, c)
  BY <1>2 DEF NotHeld, Joined
<1>3. QED
  BY <1>1, <1>2

(* A loop at the top is put into another one.                                *)
Nested(ls, ls2, l, o) ==
  /\ DOMAIN ls2 = DOMAIN ls
  /\ ls2[l].subs = ls[l].subs \cup {o}
  /\ \A x \in DOMAIN ls \ {l} : ls2[x].subs = ls[x].subs
  /\ \A x \in DOMAIN ls : ls2[x].calls = ls[x].calls

LEMMA NestedNest ==
  ASSUME NEW ls, NEW ls2, NEW tops, NEW N, NEW N2,
         NEW l \in tops, NEW o \in tops, o # l, Nested(ls, ls2, l, o),
         Least(ls, tops, N), Least(ls2, tops \ {o}, N2)
  PROVE  N2 = N
<1>1. o \in N /\ l \in N /\ N \subseteq DOMAIN ls /\ Closed(ls, N)
  BY DEF Least
<1>2. Closed(ls2, N)
  BY <1>1 DEF Closed, Nested
<1>3. N2 \subseteq N
  BY <1>1, <1>2 DEF Least, Nested
<1>4. l \in N2 /\ N2 \subseteq DOMAIN ls /\ Closed(ls2, N2)
  BY DEF Least, Nested
<1>5. o \in N2
  BY <1>4 DEF Closed, Nested
<1>6. Closed(ls, N2)
  <2>1. ASSUME NEW x \in N2
        PROVE  ls[x].subs \subseteq N2
    <3>1. ls2[x].subs \subseteq N2 /\ x \in DOMAIN ls
      BY <1>4 DEF Closed
    <3>2. ls[x].subs \subseteq ls2[x].subs
      BY <3>1 DEF Nested
    <3>3. QED
      BY <3>1, <3>2
  <2>2. QED
    BY <2>1 DEF Closed
<1>7. N \subseteq N2
  BY <1>4, <1>5, <1>6 DEF Least
<1>8. QED
  BY <1>3, <1>7

LEMMA NestedTree ==
  ASSUME NEW ls, NEW ls2, NEW tops, NEW N,
         NEW l \in tops, NEW o \in tops, o # l, Nested(ls, ls2, l, o),
         Least(ls, tops, N), Tree(ls, tops, N)
  PROVE  Tree(ls2, tops \ {o}, N)
<1>1. o \in N /\ l \in N /\ N \subseteq DOMAIN ls
  BY DEF Least
<1>2. ASSUME NEW x \in N
      PROVE  IF x \in tops \ {o} THEN \A m \in N : x \notin ls2[m].subs
             ELSE InOneOf(ls2, N, x)
  <2>1. CASE x = o
    <3>1. \A m \in N : x \notin ls[m].subs
      BY <2>1 DEF Tree
    <3>2. x \in ls2[l].subs /\ \A q \in N : x \in ls2[q].subs => q = l
      BY <1>1, <2>1, <3>1 DEF Nested
    <3>3. QED
      BY <1>1, <2>1, <3>2 DEF InOneOf
  <2>2. CASE x # o
    <3>1. \A m \in N : x \in ls2[m].subs <=> x \in ls[m].subs
      BY <1>1, <2>2 DEF Nested
    <3>2. QED
      BY <2>2, <3>1 DEF Tree, InOneOf
  <2>3. QED
    BY <2>1, <2>2
<1>3. QED
  BY <1>2 DEF Tree

-----------------------------------------------------------------------------
(* Lists. *)

LEMMA RangeAppend ==
  ASSUME NEW A
  PROVE  \A p \in Seq(A), e \in A : Range(Append(p, e)) = Range(p) \cup {e}
<1> SUFFICES ASSUME NEW p \in Seq(A), NEW e \in A
             PROVE  Range(Append(p, e)) = Range(p) \cup {e}
  OBVIOUS
<1> DEFINE r == Append(p, e)
<1>1. /\ r \in Seq(A) /\ Len(r) = Len(p) + 1 /\ Len(p) \in Nat /\ r[Len(p) + 1] = e
      /\ \A k \in 1 .. Len(p) : r[k] = p[k]
  BY AppendProperties, LenProperties
<1>2. DOMAIN r = 1 .. Len(p) + 1 /\ DOMAIN p = 1 .. Len(p)
  <2> HIDE DEF r
  <2>1. QED
    BY <1>1, LenProperties
<1> HIDE DEF r
<1>3. Range(r) = {r[k] : k \in 1 .. Len(p) + 1} /\ Range(p) = {p[k] : k \in 1 .. Len(p)}
  BY <1>2 DEF Range
<1>4. QED
  <2>1. \A x \in Range(p) : x \in Range(r)
    BY <1>1, <1>3
  <2>2. e \in Range(r)
    BY <1>1, <1>3
  <2>3. \A x \in Range(r) : x \in Range(p) \cup {e}
    <3> SUFFICES ASSUME NEW k \in 1 .. Len(p) + 1
                 PROVE  r[k] \in Range(p) \cup {e}
      BY <1>3
    <3>1. k \in 1 .. Len(p) \/ k = Len(p) + 1
      BY <1>1
    <3>2. QED
      BY <1>1, <1>3, <3>1
  <2>4. QED
    BY <2>1, <2>2, <2>3 DEF r

(* q is a part of s, in the same order.                                      *)
PartOf(q, s, f) ==
  /\ f \in [1 .. Len(q) -> 1 .. Len(s)]
  /\ \A k \in 1 .. Len(q) : q[k] = s[f[k]]
  /\ \A k, m \in 1 .. Len(q) : k < m => f[k] < f[m]

(* What Only makes of a list. *)
Picked(q, s, K, A) ==
  /\ q \in Seq(A)
  /\ Range(q) = Range(s) \cap K
  /\ \E f : PartOf(q, s, f)

LEMMA PartOfLonger ==
  ASSUME NEW A, NEW q \in Seq(A), NEW p \in Seq(A), NEW e \in A, NEW f, PartOf(q, p, f)
  PROVE  /\ PartOf(q, Append(p, e), f)
         /\ \E g : PartOf(Append(q, e), Append(p, e), g)
<1>1. /\ Len(Append(p, e)) = Len(p) + 1 /\ Len(p) \in Nat /\ Append(p, e)[Len(p) + 1] = e
      /\ \A k \in 1 .. Len(p) : Append(p, e)[k] = p[k]
      /\ Len(Append(q, e)) = Len(q) + 1 /\ Len(q) \in Nat /\ Append(q, e)[Len(q) + 1] = e
      /\ \A k \in 1 .. Len(q) : Append(q, e)[k] = q[k]
  BY AppendProperties, LenProperties
<1> DEFINE s == Append(p, e)
           r == Append(q, e)
<1> HIDE DEF s, r
<1>2. /\ Len(s) = Len(p) + 1 /\ s[Len(p) + 1] = e /\ \A k \in 1 .. Len(p) : s[k] = p[k]
      /\ Len(r) = Len(q) + 1 /\ r[Len(q) + 1] = e /\ \A k \in 1 .. Len(q) : r[k] = q[k]
  BY <1>1 DEF s, r
<1>3. PartOf(q, s, f)
  <2>1. \A k \in 1 .. Len(q) : f[k] \in 1 .. Len(p) /\ f[k] \in 1 .. Len(s)
    BY <1>1, <1>2 DEF PartOf
  <2>2. f \in [1 .. Len(q) -> 1 .. Len(s)]
    BY <2>1 DEF PartOf
  <2>3. \A k \in 1 .. Len(q) : q[k] = s[f[k]]
    BY <1>2, <2>1 DEF PartOf
  <2>4. QED
    BY <2>2, <2>3 DEF PartOf
<1> DEFINE g == [k \in 1 .. Len(q) + 1 |-> IF k = Len(q) + 1 THEN Len(p) + 1 ELSE f[k]]
<1>4. PartOf(r, s, g)
  <2>1. \A k \in 1 .. Len(q) : k # Len(q) + 1 /\ k \in 1 .. Len(q) + 1
    BY <1>1
  <2>2. \A k \in 1 .. Len(q) : g[k] = f[k] /\ f[k] \in 1 .. Len(p)
    BY <2>1 DEF PartOf
  <2>3. Len(q) + 1 \in 1 .. Len(q) + 1 /\ g[Len(q) + 1] = Len(p) + 1
    BY <1>1
  <2>4. \A k \in 1 .. Len(q) + 1 : k \in 1 .. Len(q) \/ k = Len(q) + 1
    BY <1>1
  <2>5. DOMAIN g = 1 .. Len(q) + 1 /\ g = [k \in 1 .. Len(q) + 1 |-> g[k]]
    OBVIOUS
  <2> HIDE DEF g
  <2>6. \A k \in 1 .. Len(q) + 1 : g[k] \in 1 .. Len(p) + 1
    BY <1>1, <2>2, <2>3, <2>4
  <2>7. \A k \in 1 .. Len(q) + 1 : r[k] = s[g[k]]
    <3> SUFFICES ASSUME NEW k \in 1 .. Len(q) + 1
                 PROVE  r[k] = s[g[k]]
      OBVIOUS
    <3>1. CASE k \in 1 .. Len(q)
      <4>1. r[k] = q[k] /\ q[k] = p[f[k]]
        BY <1>2, <3>1 DEF PartOf
      <4>2. g[k] = f[k] /\ s[f[k]] = p[f[k]]
        BY <1>2, <2>2, <3>1
      <4>3. QED
        BY <4>1, <4>2
    <3>2. CASE k = Len(q) + 1
      BY <1>2, <2>3, <3>2
    <3>3. QED
      BY <2>4, <3>1, <3>2
  <2>8. \A k, m \in 1 .. Len(q) + 1 : k < m => g[k] < g[m]
    <3> SUFFICES ASSUME NEW k \in 1 .. Len(q) + 1, NEW m \in 1 .. Len(q) + 1, k < m
                 PROVE  g[k] < g[m]
      OBVIOUS
    <3>1. k \in 1 .. Len(q)
      BY <1>1
    <3>2. CASE m \in 1 .. Len(q)
      BY <2>2, <3>1, <3>2 DEF PartOf
    <3>3. CASE m = Len(q) + 1
      BY <1>1, <2>2, <2>3, <3>1, <3>3
    <3>4. QED
      BY <2>4, <3>2, <3>3
  <2>9. g \in [1 .. Len(r) -> 1 .. Len(s)]
    BY <1>2, <2>5, <2>6
  <2>10. QED
    BY <1>2, <2>7, <2>8, <2>9 DEF PartOf
<1>5. QED
  BY <1>3, <1>4 DEF s, r

LEMMA OnlyFacts ==
  ASSUME NEW A, NEW K
  PROVE  \A s \in Seq(A) : Picked(Only(s, K), s, K, A)
<1> DEFINE T == {n \in Nat : \A s \in Seq(A) : Len(s) = n => Picked(Only(s, K), s, K, A)}
           Marked(s) == [k \in DOMAIN s |-> IF s[k] \in K THEN <<s[k]>> ELSE <<>>]
<1>1. 0 \in T
  <2> SUFFICES ASSUME NEW s \in Seq(A), Len(s) = 0
               PROVE  Picked(Only(s, K), s, K, A)
    OBVIOUS
  <2>1. s = <<>>
    BY EmptySeq
  <2>2. Marked(s) = <<>>
    BY <2>1
  <2>3. Only(s, K) = <<>>
    <3>1. FlattenSeq(<<>>) = <<>>
      BY FlattenSeqDef, EmptySeq
    <3>2. QED
      BY <2>2, <3>1 DEF Only
  <2>4. PartOf(<<>>, <<>>, <<>>)
    BY DEF PartOf
  <2>5. Range(<<>>) = {} /\ <<>> \in Seq(A)
    BY DEF Range
  <2>6. Picked(<<>>, <<>>, K, A)
    BY <2>4, <2>5, Zenon DEF Picked
  <2>7. QED
    BY <2>1, <2>3, <2>6
<1>2. ASSUME NEW n \in Nat, n \in T
      PROVE  n + 1 \in T
  <2> SUFFICES ASSUME NEW s \in Seq(A), Len(s) = n + 1
               PROVE  Picked(Only(s, K), s, K, A)
    OBVIOUS
  <2>1. PICK p \in Seq(A), e \in A : s = Append(p, e) /\ Len(p) = n
    BY SplitLast
  <2> DEFINE q == Only(p, K)
             t == IF e \in K THEN <<e>> ELSE <<>>
  <2>2. Picked(q, p, K, A)
    BY <1>2, <2>1
  <2>3. Only(s, K) = q \o t
    <3>1. Marked(p) \in Seq(Seq(A)) /\ t \in Seq(A)
      <4>1. \A k \in DOMAIN p : p[k] \in A /\ <<p[k]>> \in Seq(A) /\ <<>> \in Seq(A)
        BY ElementOfSeq, LenProperties
      <4>2. DOMAIN p = 1 .. Len(p) /\ Len(p) \in Nat
        BY LenProperties
      <4>3. \A k \in 1 .. Len(p) : (IF p[k] \in K THEN <<p[k]>> ELSE <<>>) \in Seq(A)
        BY <4>1, <4>2
      <4>4. [k \in 1 .. Len(p) |-> IF p[k] \in K THEN <<p[k]>> ELSE <<>>] \in Seq(Seq(A))
        BY <4>2, <4>3, IsASeq
      <4>5. QED
        BY <4>2, <4>4
    <3>2. Marked(s) = Append(Marked(p), t)
      <4>1. /\ DOMAIN s = 1 .. n + 1 /\ DOMAIN p = 1 .. n
            /\ \A k \in 1 .. n : s[k] = p[k]
            /\ s[n + 1] = e
        BY <2>1, AppendProperties, LenProperties
      <4> DEFINE m == Append(Marked(p), t)
      <4>2. Len(Marked(p)) = n
        BY <4>1
      <4>3. /\ DOMAIN m = 1 .. n + 1 /\ m[n + 1] = t
            /\ \A k \in 1 .. n : m[k] = Marked(p)[k]
            /\ m \in Seq(Seq(A))
        <5> HIDE DEF Marked
        <5>1. QED
          BY <3>1, <4>2, AppendProperties, LenProperties
      <4>4. \A k \in 1 .. n + 1 : m[k] = IF s[k] \in K THEN <<s[k]>> ELSE <<>>
        <5> HIDE DEF m
        <5> SUFFICES ASSUME NEW k \in 1 .. n + 1
                     PROVE  m[k] = IF s[k] \in K THEN <<s[k]>> ELSE <<>>
          OBVIOUS
        <5>1. CASE k = n + 1
          BY <4>1, <4>3, <5>1
        <5>2. CASE k \in 1 .. n
          BY <4>1, <4>3, <5>2
        <5>3. QED
          BY <5>1, <5>2
      <4>5. m = [k \in 1 .. n + 1 |-> m[k]]
        <5> HIDE DEF m
        <5>1. QED
          BY <4>3
      <4> HIDE DEF m
      <4>6. Marked(s) = m
        BY <4>1, <4>4, <4>5
      <4>7. QED
        BY <4>6 DEF m
    <3> HIDE DEF t, Marked
    <3>3. FlattenSeq(Marked(s)) = FlattenSeq(Marked(p)) \o t
      BY <3>1, <3>2, FlattenAppend
    <3>4. QED
      BY <3>3 DEF Only, Marked
  <2> HIDE DEF q
  <2>4. q \in Seq(A) /\ Range(q) = Range(p) \cap K
    BY <2>2 DEF Picked
  <2>5. Range(s) = Range(p) \cup {e}
    BY <2>1, RangeAppend
  <2>6. PICK f : PartOf(q, p, f)
    BY <2>2 DEF Picked
  <2>7. CASE e \in K
    <3>1. Only(s, K) = Append(q, e)
      BY <2>3, <2>4, <2>7, AppendAsConcat
    <3>2. Append(q, e) \in Seq(A) /\ Range(Append(q, e)) = Range(q) \cup {e}
      BY <2>4, AppendProperties, RangeAppend
    <3>3. \E g : PartOf(Append(q, e), s, g)
      BY <2>1, <2>4, <2>6, PartOfLonger
    <3>4. QED
      BY <2>4, <2>5, <2>7, <3>1, <3>2, <3>3 DEF Picked
  <2>8. CASE e \notin K
    <3>1. Only(s, K) = q
      BY <2>3, <2>4, <2>8, ConcatEmptySeq
    <3>2. PartOf(q, s, f)
      BY <2>1, <2>4, <2>6, PartOfLonger
    <3>3. QED
      BY <2>4, <2>5, <2>8, <3>1, <3>2 DEF Picked
  <2>9. QED
    BY <2>7, <2>8
<1>3. \A n \in Nat : n \in T
  <2> HIDE DEF T
  <2>1. QED
    BY <1>1, <1>2, SetInduction
<1>4. QED
  BY <1>3, LenProperties
-----------------------------------------------------------------------------
(* The inductive invariant.  Every part is said of the values of the         *)
(* variables, so that it can be said of the next state as well.              *)

KeptIn(cs) == UNION {Range(cs[k]) : k \in DOMAIN cs}

RootsIn(ls, kept) == {l \in kept : ~ls[l].merged}

LostIn(ls, kept) ==
  UNION {FlatOf(ls, l) : l \in {m \in DOMAIN ls : ls[m].hidden /\ m \notin kept}}

(* The subloops of a hidden superloop: the other loops of its cluster.       *)
Siblings(ls, l) == {s \in DOMAIN ls : s[1] = l[1] /\ s[2] # 0}

LoopTypeOf(ls, cs) ==
  [calls : SUBSET cs, subs : SUBSET DOMAIN ls, iterations : Nat \ {0},
   divided : Nat \ {0}, original : Nat \ {0}, hidden : BOOLEAN, merged : BOOLEAN,
   run : Nat, gap : Nat]

(* The loop objects of n clusters over the callstacks in cs.                 *)
LoopsOK(ls, n, cs) ==
  /\ Ordered(ls, n)
  /\ \A l \in DOMAIN ls : ls[l] \in LoopTypeOf(ls, cs) /\ (ls[l].hidden <=> l[2] = 0)

(* A hidden superloop stands in its cluster for its subloops.                *)
KeptOK(ls, kept) ==
  /\ kept \subseteq DOMAIN ls
  /\ \A l \in kept : l[2] # 0 => <<l[1], 0>> \notin DOMAIN ls

(* Loops as they were generated, but for callstacks that were pushed.        *)
Plain(ls, D) ==
  \A l \in D : IF l[2] = 0 THEN ls[l].calls = {} /\ ls[l].subs = Siblings(ls, l)
                           ELSE ls[l].subs = {}

(* Before loops are merged: every callstack of the first clusters in exactly *)
(* one loop, and no loop of a cluster without callstacks.                    *)
Partitioned(ls, cs) ==
  /\ UNION {ls[l].calls : l \in DOMAIN ls} = cs
  /\ \A l, m \in DOMAIN ls : l # m => ls[l].calls \cap ls[m].calls = {}

Filled(ls, kept) ==
  /\ \A l \in kept : IF l[2] = 0 THEN \A s \in Siblings(ls, l) : ls[s].calls # {}
                                 ELSE ls[l].calls # {}
  /\ \A l \in DOMAIN ls \ kept :
       l[2] # 0 /\ <<l[1], 0>> \notin DOMAIN ls => ls[l].calls = {}

Unmerged(ls, n, cs) ==
  /\ DOMAIN ls \subseteq Names(n)
  /\ Plain(ls, DOMAIN ls)
  /\ \A l \in DOMAIN ls : ~ls[l].merged
  /\ Len(cs) = n
  /\ \A k \in 1 .. n : \A l \in Range(cs[k]) : l[1] = k
  /\ Filled(ls, KeptIn(cs))

(* While loops are merged: the clusters that come later hold the loops that  *)
(* are less often iterated, and have not been merged.                        *)
Merging(ls, cs, at) ==
  /\ \A k \in DOMAIN cs : cs[k] # <<>>
  /\ \A k, m \in DOMAIN cs : k < m =>
       \A x \in Range(cs[k]), y \in Range(cs[m]) : x[1] < y[1]
  /\ \A k \in DOMAIN cs : k > at => \A l \in Range(cs[k]) : ~ls[l].merged
  /\ Plain(ls, DOMAIN ls \ KeptIn(cs))

(* The nest of the loops that were not merged: a forest that holds every     *)
(* callstack once, but those that are lost.                                  *)
Nesting(ls, kept, calls) ==
  LET tops == RootsIn(ls, kept)
      nest == NestOf(ls, tops)
  IN /\ Tree(ls, tops, nest)
     /\ \A c \in calls : IF c \in LostIn(ls, kept) THEN NotHeld(ls, nest, c)
                                                   ELSE HeldOnce(ls, nest, c)

Made == IF phase = "generate" THEN i - 1 ELSE Len(members)

Inv ==
  /\ program \in Programs /\ instants = Executed(program)
  /\ members = SortedClusters(program, instants)
  /\ phase \in {"generate", "push", "merge", "done"}
  /\ LoopsOK(loops, Len(members), Calls(program))
  /\ clusters \in Seq(Seq(Names(Len(members))))
  /\ KeptOK(loops, Kept)
  /\ i \in Nat /\ j \in Nat /\ i >= 1
  /\ phase \in {"generate", "push"} =>
       /\ Unmerged(loops, Made, clusters)
       /\ Partitioned(loops, UNION {members[k] : k \in 1 .. Made})
       /\ a = 1 /\ b = 1
  /\ phase = "generate" => i <= Len(members) + 1
  /\ phase = "push" => i \in 1 .. Len(clusters) /\ j \in 0 .. i - 1 /\ (i >= 2 => j >= 1)
  /\ phase \in {"merge", "done"} =>
       /\ Merging(loops, clusters, i)
       /\ Nesting(loops, Kept, Calls(program))
       /\ i < Len(clusters) => /\ j \in i + 1 .. Len(clusters)
                               /\ a \in DOMAIN clusters[j] /\ b \in DOMAIN clusters[i]


-----------------------------------------------------------------------------
(* Least numbers, and the subloops of a cluster in their order.              *)

LEMMA MinFacts ==
  ASSUME NEW S \in SUBSET Nat, S # {}
  PROVE  Min(S) \in S /\ \A y \in S : Min(S) <= y
<1> DEFINE R == {p \in Nat \X Nat : p[1] < p[2]}
<1>1. IsWellFoundedOn(R, Nat)
  <2>1. IsWellFoundedOn({p \in Nat \X Nat : p[1] < p[2]}, Nat)
    BY NatLessThanWellFounded, Zenon DEF OpToRel
  <2>2. QED
    BY <2>1
<1>2. PICK x \in S : \A y \in S : ~(<<y, x>> \in R)
  <2> HIDE DEF R
  <2>1. QED
    BY <1>1, WFMin
<1>3. x \in S /\ \A y \in S : x <= y
  <2>1. \A y \in S : y \in Nat /\ x \in Nat /\ (y < x => <<y, x>> \in R)
    OBVIOUS
  <2> HIDE DEF R
  <2>2. \A y \in S : ~(y < x)
    BY <1>2, <2>1
  <2>3. QED
    BY <2>1, <2>2
<1>4. QED
  BY <1>3, Zenon DEF Min

(* Disjoint sets of numbers that are not empty have different least numbers. *)
Separate(parts) ==
  /\ \A q \in parts : q \in SUBSET Nat /\ q # {}
  /\ \A x, y \in parts : x # y => x \cap y = {}

LEMMA MinsDiffer ==
  ASSUME NEW parts, Separate(parts), NEW x \in parts, NEW y \in parts, Min(x) = Min(y)
  PROVE  x = y
<1>1. Min(x) \in x /\ Min(y) \in y
  BY MinFacts DEF Separate
<1>2. QED
  BY <1>1 DEF Separate

(* How many of the subloops come before q. *)
Before(parts, q) == {x \in parts : Min(x) < Min(q)}

LEMMA BeforeFacts ==
  ASSUME NEW parts, Separate(parts), IsFiniteSet(parts)
  PROVE  /\ \A q \in parts : Cardinality(Before(parts, q)) \in 0 .. Cardinality(parts) - 1
         /\ \A p, q \in parts :
              Cardinality(Before(parts, p)) = Cardinality(Before(parts, q)) => p = q
<1>1. \A q \in parts : Min(q) \in Nat
  BY MinFacts DEF Separate
<1>2. Cardinality(parts) \in Nat
  BY FS_CardinalityType
<1>3. \A q \in parts : IsFiniteSet(Before(parts, q)) /\ Cardinality(Before(parts, q)) \in Nat
  <2>1. \A q \in parts : Before(parts, q) \in SUBSET parts
    BY DEF Before
  <2>2. QED
    BY <2>1, FS_Subset, FS_CardinalityType
<1>4. ASSUME NEW S \in SUBSET parts, NEW T \in SUBSET S, NEW x \in S, x \notin T
      PROVE  Cardinality(T) < Cardinality(S)
  <2>1. IsFiniteSet(S) /\ Cardinality(S) \in Nat
    BY FS_Subset, FS_CardinalityType
  <2>2. IsFiniteSet(S \ {x}) /\ Cardinality(S \ {x}) = Cardinality(S) - 1
    BY <1>4, <2>1, FS_RemoveElement
  <2>3. T \in SUBSET (S \ {x})
    BY <1>4
  <2>4. Cardinality(T) <= Cardinality(S \ {x}) /\ IsFiniteSet(T)
    BY <2>2, <2>3, FS_Subset
  <2>5. Cardinality(T) \in Nat
    BY <2>4, FS_CardinalityType
  <2>6. QED
    BY <2>1, <2>2, <2>4, <2>5
<1>5. ASSUME NEW q \in parts
      PROVE  Cardinality(Before(parts, q)) \in 0 .. Cardinality(parts) - 1
  <2>1. Before(parts, q) \in SUBSET parts /\ q \notin Before(parts, q)
    BY <1>1 DEF Before
  <2>2. Cardinality(Before(parts, q)) < Cardinality(parts)
    BY <1>4, <2>1
  <2>3. QED
    BY <1>2, <1>3, <2>2
<1>6. ASSUME NEW p \in parts, NEW q \in parts, Min(p) < Min(q)
      PROVE  Cardinality(Before(parts, p)) < Cardinality(Before(parts, q))
  <2>1. Before(parts, p) \in SUBSET Before(parts, q) /\ Before(parts, q) \in SUBSET parts
    BY <1>1, <1>6 DEF Before
  <2>2. p \in Before(parts, q) /\ p \notin Before(parts, p)
    BY <1>1, <1>6 DEF Before
  <2>3. QED
    BY <1>4, <2>1, <2>2
<1>7. ASSUME NEW p \in parts, NEW q \in parts,
             Cardinality(Before(parts, p)) = Cardinality(Before(parts, q))
      PROVE  p = q
  <2>1. Cardinality(Before(parts, p)) \in Nat
    BY <1>3
  <2>2. Min(p) = Min(q)
    BY <1>1, <1>6, <1>7, <2>1
  <2>3. QED
    BY <2>2, MinsDiffer
<1>8. QED
  BY <1>5, <1>7

LEMMA BeforeAll ==
  ASSUME NEW parts, Separate(parts), IsFiniteSet(parts), NEW n \in 0 .. Cardinality(parts) - 1
  PROVE  \E q \in parts : Cardinality(Before(parts, q)) = n
<1> DEFINE g == Cardinality(parts)
           f == [q \in parts |-> Cardinality(Before(parts, q))]
           T == (0 .. g - 1) \ {n}
<1>1. g \in Nat
  BY FS_CardinalityType
<1>2. IsFiniteSet(0 .. g - 1) /\ Cardinality(0 .. g - 1) = g
  <2> HIDE DEF g
  <2>1. 0 \in Int /\ g - 1 \in Int
    BY <1>1
  <2>2. IsFiniteSet(0 .. g - 1) /\ Cardinality(0 .. g - 1) = IF 0 > g - 1 THEN 0 ELSE g - 1 - 0 + 1
    BY <2>1, FS_Interval
  <2>3. QED
    BY <1>1, <2>2
<1>3. IsFiniteSet(T) /\ Cardinality(T) = g - 1
  <2> HIDE DEF g
  <2>1. n \in 0 .. g - 1
    BY DEF g
  <2>2. QED
    BY <1>2, <2>1, FS_RemoveElement
<1>4. SUFFICES ASSUME \A q \in parts : Cardinality(Before(parts, q)) # n
               PROVE  FALSE
  OBVIOUS
<1>5. f \in [parts -> T]
  BY <1>4, BeforeFacts
<1>6. \E x, y \in parts : x # y /\ f[x] = f[y]
  <2>1. Cardinality(T) < Cardinality(parts)
    BY <1>1, <1>3
  <2> HIDE DEF f, T, g
  <2>2. QED
    BY <1>3, <1>5, <2>1, FS_PigeonHole
<1>7. QED
  BY <1>6, BeforeFacts

(* The subloops are numbered, each of them once. *)
LEMMA SubFacts ==
  ASSUME NEW parts, Separate(parts), IsFiniteSet(parts)
  PROVE  /\ \A n \in 1 .. Cardinality(parts) : Sub(parts, n) \in parts
         /\ \A m, n \in 1 .. Cardinality(parts) : Sub(parts, m) = Sub(parts, n) => m = n
         /\ \A q \in parts : \E n \in 1 .. Cardinality(parts) : Sub(parts, n) = q
<1> DEFINE g == Cardinality(parts)
<1>1. g \in Nat
  BY FS_CardinalityType
<1> HIDE DEF g
<1>2. ASSUME NEW n \in 1 .. g
      PROVE  Sub(parts, n) \in parts /\ Cardinality(Before(parts, Sub(parts, n))) = n - 1
  <2>1. n - 1 \in 0 .. Cardinality(parts) - 1
    BY <1>1 DEF g
  <2>2. \E q \in parts : Cardinality(Before(parts, q)) = n - 1
    BY <2>1, BeforeAll
  <2>3. Sub(parts, n) = CHOOSE q \in parts : Cardinality(Before(parts, q)) = n - 1
    BY Zenon DEF Sub, Before
  <2>4. QED
    BY <2>2, <2>3
<1>3. \A m, n \in 1 .. g : Sub(parts, m) = Sub(parts, n) => m = n
  BY <1>1, <1>2
<1>4. ASSUME NEW q \in parts
      PROVE  \E n \in 1 .. g : Sub(parts, n) = q
  <2>1. Cardinality(Before(parts, q)) \in 0 .. g - 1
    BY BeforeFacts DEF g
  <2> DEFINE n == Cardinality(Before(parts, q)) + 1
  <2>2. n \in 1 .. g /\ n - 1 = Cardinality(Before(parts, q))
    BY <1>1, <2>1
  <2> HIDE DEF n
  <2>3. Sub(parts, n) \in parts
        /\ Cardinality(Before(parts, Sub(parts, n))) = Cardinality(Before(parts, q))
    BY <1>2, <2>2
  <2>4. Sub(parts, n) = q
    BY <2>3, BeforeFacts
  <2>5. QED
    BY <2>2, <2>4
<1>5. QED
  BY <1>2, <1>3, <1>4 DEF g

-----------------------------------------------------------------------------
(* What is generated for a cluster.                                          *)

(* The callstacks and clusters that are analysed. *)
InputFacts(p, ins, cls) ==
  /\ Calls(p) \subseteq Nat /\ IsFiniteSet(Calls(p)) /\ Calls(p) # {}
  /\ \A c \in Calls(p) : ins[c] \subseteq Nat /\ IsFiniteSet(ins[c]) /\ ins[c] # {}
  /\ cls \in Seq(SUBSET Calls(p)) /\ Len(cls) \in Nat /\ Len(cls) >= 1
  /\ UNION {cls[k] : k \in 1 .. Len(cls)} = Calls(p)
  /\ \A k \in 1 .. Len(cls) : cls[k] # {} /\ cls[k] \subseteq Calls(p)
  /\ \A k, m \in 1 .. Len(cls) : k # m => cls[k] \cap cls[m] = {}
  /\ \A k \in 1 .. Len(cls) : Divides(Subloops(cls[k], ins), cls[k])

LEMMA InputIsSound ==
  ASSUME NEW p \in Programs
  PROVE  InputFacts(p, Executed(p), SortedClusters(p, Executed(p)))
<1> DEFINE ins == Executed(p)
           cls == SortedClusters(p, ins)
<1>1. /\ Calls(p) \subseteq Nat /\ IsFiniteSet(Calls(p)) /\ Calls(p) # {}
      /\ \A c \in Calls(p) : ins[c] \subseteq Nat /\ IsFiniteSet(ins[c]) /\ ins[c] # {}
      /\ cls \in Seq(SUBSET Calls(p))
      /\ Divides(Range(cls), Calls(p)) /\ IsInjective(cls)
      /\ \A k \in DOMAIN cls : Divides(Subloops(cls[k], ins), cls[k])
  BY ONLY ProgramsAssumption, p \in Programs
<1> HIDE DEF ins, cls
<1>2. DOMAIN cls = 1 .. Len(cls) /\ Len(cls) \in Nat
  BY <1>1, LenProperties
<1>3. Range(cls) = {cls[k] : k \in 1 .. Len(cls)}
  BY <1>2 DEF Range
<1>4. UNION {cls[k] : k \in 1 .. Len(cls)} = Calls(p)
  BY <1>1, <1>3 DEF Divides
<1>5. \A k \in 1 .. Len(cls) : cls[k] \in Range(cls)
  BY <1>3
<1>6. \A k \in 1 .. Len(cls) : cls[k] # {} /\ cls[k] \subseteq Calls(p)
  <2>1. {} \notin Range(cls)
    BY <1>1 DEF Divides
  <2>2. \A k \in 1 .. Len(cls) : cls[k] \subseteq Calls(p)
    BY <1>4
  <2>3. QED
    BY <1>5, <2>1, <2>2
<1>7. \A k, m \in 1 .. Len(cls) : k # m => cls[k] # cls[m]
  BY <1>1, <1>2 DEF IsInjective
<1>8. \A k, m \in 1 .. Len(cls) : k # m => cls[k] \cap cls[m] = {}
  BY <1>1, <1>5, <1>7 DEF Divides
<1>9. Len(cls) >= 1
  <2>1. Len(cls) # 0
    BY <1>1, <1>4
  <2>2. QED
    BY <1>2, <2>1
<1>10. QED
  BY <1>1, <1>2, <1>4, <1>6, <1>8, <1>9 DEF InputFacts, ins, cls

(* Of the executions of a callstack at least the first one begins a run. *)
LEMMA RunsFacts ==
  ASSUME NEW cl, NEW c, NEW ins, ins[c] \in SUBSET Nat, IsFiniteSet(ins[c]), ins[c] # {}
  PROVE  /\ Cardinality(ins[c]) \in Nat /\ Cardinality(ins[c]) >= 1
         /\ Runs(c, cl, ins) \in 1 .. Cardinality(ins[c])
<1> DEFINE others == UNION {ins[d] : d \in {x \in cl : ~Alternate(ins[c], ins[x])}}
           S == {t \in ins[c] : \A u \in ins[c] : u < t => \E v \in others : u < v /\ v < t}
<1>1. Runs(c, cl, ins) = Cardinality(S)
  BY Zenon DEF Runs
<1>2. Min(ins[c]) \in S
  <2>1. Min(ins[c]) \in ins[c] /\ \A u \in ins[c] : Min(ins[c]) <= u
    BY MinFacts
  <2>2. \A u \in ins[c] : ~(u < Min(ins[c]))
    BY <2>1
  <2>3. QED
    BY <2>1, <2>2
<1>3. S \in SUBSET ins[c]
  OBVIOUS
<1> HIDE DEF S
<1>4. /\ IsFiniteSet(S) /\ Cardinality(S) <= Cardinality(ins[c])
      /\ Cardinality(S) \in Nat /\ Cardinality(ins[c]) \in Nat
  BY <1>3, FS_Subset, FS_CardinalityType
<1>5. Cardinality(S) # 0
  BY <1>2, <1>4, FS_EmptySet
<1>6. QED
  BY <1>1, <1>4, <1>5

LEMMA DivAtLeastOne ==
  ASSUME NEW m \in Nat, NEW n \in Nat, n > 0, n <= m
  PROVE  m \div n \in Nat /\ m \div n >= 1
<1>1. m \div n \in Int
  OBVIOUS
<1>2. m \div n >= 1
  OBVIOUS
<1>3. QED
  BY <1>1, <1>2

LEMMA TimesNat ==
  ASSUME NEW m \in Nat, NEW n \in Nat
  PROVE  m * n \in Nat
OBVIOUS

(* The loop objects that are made. *)
Fresh(cs, ss, h) ==
  [calls : {cs}, subs : {ss}, iterations : Nat \ {0}, divided : Nat \ {0},
   original : Nat \ {0}, hidden : {h}, merged : {FALSE}, run : Nat, gap : Nat]

LEMMA NewLoopIsFresh ==
  ASSUME NEW its \in Nat \ {0}, NEW cs
  PROVE  NewLoop(cs, its) \in Fresh(cs, {}, FALSE)
BY DEF NewLoop, Fresh

LEMMA SubloopIsFresh ==
  ASSUME NEW o \in Fresh({}, {}, FALSE), NEW run \in Nat, NEW gap \in Nat,
         NEW div \in Nat \ {0}, NEW cs
  PROVE  [[o EXCEPT !.run = run, !.gap = gap, !.divided = div] EXCEPT !.calls = cs]
           \in Fresh(cs, {}, FALSE)
BY DEF Fresh

LEMMA SuperloopIsFresh ==
  ASSUME NEW o \in Fresh({}, {}, FALSE), NEW ss
  PROVE  [o EXCEPT !.hidden = TRUE, !.subs = ss] \in Fresh({}, ss, TRUE)
BY DEF Fresh

LEMMA FreshFields ==
  ASSUME NEW cs, NEW ss, NEW h \in BOOLEAN, NEW o \in Fresh(cs, ss, h)
  PROVE  o.calls = cs /\ o.subs = ss /\ o.hidden = h /\ o.merged = FALSE
BY DEF Fresh

(* The loops of a cluster: one or more with the callstacks of the cluster    *)
(* between them, and the superloop, if there is one.                         *)
MakesLoops(gen, k, cl) ==
  \E g \in Nat \ {0} :
    /\ DOMAIN gen = 0 .. g \/ DOMAIN gen = 1 .. g
    /\ \A n \in 1 .. g : /\ gen[n] \in Fresh(gen[n].calls, {}, FALSE)
                         /\ gen[n].calls \subseteq cl /\ gen[n].calls # {}
    /\ 0 \in DOMAIN gen => gen[0] \in Fresh({}, {<<k, n>> : n \in 1 .. g}, TRUE)
    /\ \A m, n \in 1 .. g : m # n => gen[m].calls \cap gen[n].calls = {}
    /\ UNION {gen[n].calls : n \in 1 .. g} = cl

LEMMA SubloopsAreSeparate ==
  ASSUME NEW cl, NEW ins, cl \subseteq Nat, IsFiniteSet(cl), Divides(Subloops(cl, ins), cl)
  PROVE  Separate(Subloops(cl, ins)) /\ IsFiniteSet(Subloops(cl, ins))
<1>1. Subloops(cl, ins) \in SUBSET (SUBSET cl)
  BY DEF Divides
<1>2. IsFiniteSet(Subloops(cl, ins))
  BY <1>1, FS_SUBSET, FS_Subset
<1>3. QED
  BY <1>1, <1>2 DEF Separate, Divides

LEMMA GeneratedFacts ==
  ASSUME NEW k, NEW cl, cl \subseteq Nat, IsFiniteSet(cl), cl # {},
         Divides(Subloops(cl, instants), cl),
         \A c \in cl : /\ instants[c] \subseteq Nat /\ IsFiniteSet(instants[c])
                       /\ instants[c] # {}
  PROVE  MakesLoops(Generated(k, cl), k, cl)
<1> DEFINE parts  == Subloops(cl, instants)
           g      == Cardinality(parts)
           its    == Cardinality(instants[Min(cl)])
           recur  == Runs(Min(cl), cl, instants)
           hidden == g > 1 /\ recur > 1
           run    == its \div recur
           div    == IF hidden THEN recur ELSE 1
           gap    == (g - 1) * (run - 1)
           sub    == [NewLoop({}, its) EXCEPT !.run = run, !.gap = gap, !.divided = div]
           super  == [NewLoop({}, recur) EXCEPT !.hidden = TRUE,
                                                !.subs = {<<k, n>> : n \in 1 .. g}]
           gen    == [n \in IF hidden THEN 0 .. g ELSE 1 .. g |->
                        IF n = 0 THEN super ELSE [sub EXCEPT !.calls = Sub(parts, n)]]
<1>1. Generated(k, cl) = gen
  BY Zenon DEF Generated
<1>2. Separate(parts) /\ IsFiniteSet(parts) /\ g \in Nat
  BY SubloopsAreSeparate, FS_CardinalityType
<1>3. UNION parts = cl /\ {} \notin parts /\ \A x, y \in parts : x # y => x \cap y = {}
  BY DEF Divides
<1>4. g # 0
  BY <1>2, <1>3, FS_EmptySet
<1>5. Min(cl) \in cl
  BY MinFacts
<1>6. its \in Nat /\ its >= 1 /\ recur \in 1 .. its
  BY <1>5, RunsFacts
<1> HIDE DEF parts, its, recur
<1>7. run \in Nat /\ run >= 1
  <2>1. recur \in Nat /\ recur > 0 /\ recur <= its
    BY <1>6
  <2>2. QED
    BY <1>6, <2>1, DivAtLeastOne
<1>8. /\ \A n \in 1 .. g : Sub(parts, n) \in parts
      /\ \A m, n \in 1 .. g : Sub(parts, m) = Sub(parts, n) => m = n
      /\ \A q \in parts : \E n \in 1 .. g : Sub(parts, n) = q
  BY <1>2, SubFacts
<1> HIDE DEF run, g
<1>9. gap \in Nat
  <2>1. g - 1 \in Nat /\ run - 1 \in Nat
    BY <1>2, <1>4, <1>7
  <2>2. QED
    BY <2>1, TimesNat
<1>10. div \in Nat \ {0}
  BY <1>6
<1>11. hidden \in BOOLEAN
  OBVIOUS
<1>12. /\ DOMAIN gen = IF hidden THEN 0 .. g ELSE 1 .. g
       /\ \A n \in 1 .. g : gen[n] = [sub EXCEPT !.calls = Sub(parts, n)]
       /\ hidden => gen[0] = super
  <2> HIDE DEF gap, div, hidden, super, sub
  <2>1. \A n \in 1 .. g : n # 0 /\ n \in (IF hidden THEN 0 .. g ELSE 1 .. g)
    BY <1>2
  <2>2. hidden => 0 \in IF hidden THEN 0 .. g ELSE 1 .. g
    BY <1>2
  <2>3. QED
    BY <2>1, <2>2
<1> HIDE DEF gen, gap, div, hidden
<1>13. \A n \in 1 .. g : /\ gen[n] \in Fresh(gen[n].calls, {}, FALSE)
                         /\ gen[n].calls = Sub(parts, n)
  <2> SUFFICES ASSUME NEW n \in 1 .. g
               PROVE  /\ gen[n] \in Fresh(gen[n].calls, {}, FALSE)
                      /\ gen[n].calls = Sub(parts, n)
    OBVIOUS
  <2>1. NewLoop({}, its) \in Fresh({}, {}, FALSE)
    <3>1. its \in Nat \ {0}
      BY <1>6
    <3>2. QED
      BY <3>1, NewLoopIsFresh
  <2>2. [sub EXCEPT !.calls = Sub(parts, n)] \in Fresh(Sub(parts, n), {}, FALSE)
    <3>1. run \in Nat
      BY <1>7
    <3>2. QED
      BY <1>9, <1>10, <2>1, <3>1, SubloopIsFresh, Zenon
  <2> HIDE DEF sub
  <2>3. gen[n] \in Fresh(Sub(parts, n), {}, FALSE)
    BY <1>12, <2>2
  <2>4. gen[n].calls = Sub(parts, n)
    BY <2>3, FreshFields
  <2>5. QED
    BY <2>3, <2>4
<1>14. hidden => gen[0] \in Fresh({}, {<<k, n>> : n \in 1 .. g}, TRUE)
  <2>1. recur \in Nat \ {0}
    BY <1>6
  <2>2. NewLoop({}, recur) \in Fresh({}, {}, FALSE)
    BY <2>1, NewLoopIsFresh
  <2>3. super \in Fresh({}, {<<k, n>> : n \in 1 .. g}, TRUE)
    BY <2>2, SuperloopIsFresh
  <2> HIDE DEF super
  <2>4. QED
    BY <1>12, <2>3
<1> HIDE DEF sub, super
<1>15. DOMAIN gen = 0 .. g \/ DOMAIN gen = 1 .. g
  BY <1>12
<1>16. 0 \in DOMAIN gen => hidden
  <2>1. 0 \notin 1 .. g
    BY <1>2
  <2>2. QED
    BY <1>12, <2>1
<1>17. \A n \in 1 .. g : gen[n].calls \subseteq cl /\ gen[n].calls # {}
  <2> SUFFICES ASSUME NEW n \in 1 .. g
               PROVE  gen[n].calls \subseteq cl /\ gen[n].calls # {}
    OBVIOUS
  <2>1. gen[n].calls \in parts
    BY <1>8, <1>13
  <2>2. QED
    BY <1>3, <2>1
<1>18. \A m, n \in 1 .. g : m # n => gen[m].calls \cap gen[n].calls = {}
  <2> SUFFICES ASSUME NEW m \in 1 .. g, NEW n \in 1 .. g, m # n
               PROVE  gen[m].calls \cap gen[n].calls = {}
    OBVIOUS
  <2>1. gen[m].calls = Sub(parts, m) /\ gen[n].calls = Sub(parts, n)
    BY <1>13
  <2>2. Sub(parts, m) \in parts /\ Sub(parts, n) \in parts /\ Sub(parts, m) # Sub(parts, n)
    BY <1>8
  <2>3. QED
    BY <1>3, <2>1, <2>2
<1>19. UNION {gen[n].calls : n \in 1 .. g} = cl
  <2>1. \A x \in cl : \E n \in 1 .. g : x \in gen[n].calls
    <3> SUFFICES ASSUME NEW x \in cl
                 PROVE  \E n \in 1 .. g : x \in gen[n].calls
      OBVIOUS
    <3>1. PICK q \in parts : x \in q
      BY <1>3
    <3>2. PICK n \in 1 .. g : Sub(parts, n) = q
      BY <1>8
    <3>3. QED
      BY <1>13, <3>1, <3>2
  <2>2. QED
    BY <1>17, <2>1
<1>20. g \in Nat \ {0}
  BY <1>2, <1>4
<1>21. MakesLoops(gen, k, cl)
  BY <1>13, <1>14, <1>15, <1>16, <1>17, <1>18, <1>19, <1>20 DEF MakesLoops
<1>22. QED
  BY <1>1, <1>21

-----------------------------------------------------------------------------
(* The loops of one more cluster.                                            *)

LEMMA KeptAppend ==
  ASSUME NEW A, NEW cs \in Seq(A), NEW q \in A
  PROVE  KeptIn(Append(cs, q)) = KeptIn(cs) \cup Range(q)
<1> DEFINE r == Append(cs, q)
<1>1. /\ Len(r) = Len(cs) + 1 /\ Len(cs) \in Nat /\ r[Len(cs) + 1] = q
      /\ \A k \in 1 .. Len(cs) : r[k] = cs[k]
      /\ DOMAIN r = 1 .. Len(cs) + 1 /\ DOMAIN cs = 1 .. Len(cs)
  BY AppendProperties, LenProperties
<1> HIDE DEF r
<1>2. \A k \in DOMAIN r : (k \in DOMAIN cs /\ r[k] = cs[k]) \/ r[k] = q
  BY <1>1
<1>3. KeptIn(r) \subseteq KeptIn(cs) \cup Range(q)
  BY <1>2 DEF KeptIn
<1>4. Range(q) \subseteq KeptIn(r)
  <2>1. Len(cs) + 1 \in DOMAIN r
    BY <1>1
  <2>2. QED
    BY <1>1, <2>1 DEF KeptIn
<1>5. KeptIn(cs) \subseteq KeptIn(r)
  <2>1. \A k \in DOMAIN cs : k \in DOMAIN r /\ r[k] = cs[k]
    BY <1>1
  <2>2. QED
    BY <2>1 DEF KeptIn
<1>6. QED
  BY <1>3, <1>4, <1>5 DEF r

LEMMA NamesFacts ==
  ASSUME NEW n \in Nat, NEW l \in Names(n)
  PROVE  l[1] \in 1 .. n /\ l[2] \in Nat /\ l = <<l[1], l[2]>>
BY DEF Names

(* The names of the loops that are added, and those that stand in the        *)
(* cluster.                                                                  *)
Added(m, gen) == {<<m, x>> : x \in DOMAIN gen}

Extended(ls, m, gen) ==
  [l \in DOMAIN ls \cup Added(m, gen) |-> IF l[1] = m THEN gen[l[2]] ELSE ls[l]]

Standing(m, gen) == IF 0 \in DOMAIN gen THEN << <<m, 0>> >> ELSE [x \in DOMAIN gen |-> <<m, x>>]

LEMMA AddedCluster ==
  ASSUME NEW m \in Nat, NEW g \in Nat \ {0}, NEW gen, DOMAIN gen = 0 .. g \/ DOMAIN gen = 1 .. g,
         NEW q, q = Standing(m, gen)
  PROVE  /\ q \in Seq(Added(m, gen))
         /\ Range(q) = IF 0 \in DOMAIN gen THEN {<<m, 0>>} ELSE Added(m, gen)
<1>1. CASE 0 \in DOMAIN gen
  <2>1. q = << <<m, 0>> >> /\ <<m, 0>> \in Added(m, gen)
    BY <1>1 DEF Added, Standing
  <2>2. QED
    BY <1>1, <2>1 DEF Range
<1>2. CASE 0 \notin DOMAIN gen
  <2>1. DOMAIN gen = 1 .. g /\ q = [x \in 1 .. g |-> <<m, x>>]
    BY <1>2 DEF Standing
  <2>2. \A x \in 1 .. g : <<m, x>> \in Added(m, gen)
    BY <2>1 DEF Added
  <2>3. [x \in 1 .. g |-> <<m, x>>] \in Seq(Added(m, gen))
    BY <2>2, IsASeq
  <2>4. Range(q) = Added(m, gen)
    BY <2>1 DEF Range, Added
  <2>5. QED
    BY <1>2, <2>1, <2>3, <2>4
<1>3. QED
  BY <1>1, <1>2

LEMMA LoopOfMore ==
  ASSUME NEW C, NEW D, NEW E, D \subseteq E,
         NEW o \in [calls : SUBSET C, subs : SUBSET D, iterations : Nat \ {0},
                    divided : Nat \ {0}, original : Nat \ {0}, hidden : BOOLEAN,
                    merged : BOOLEAN, run : Nat, gap : Nat]
  PROVE  o \in [calls : SUBSET C, subs : SUBSET E, iterations : Nat \ {0},
                divided : Nat \ {0}, original : Nat \ {0}, hidden : BOOLEAN,
                merged : BOOLEAN, run : Nat, gap : Nat]
OBVIOUS

LEMMA AddedLoops ==
  ASSUME NEW n \in Nat, NEW m \in 1 .. n, NEW calls, NEW cl \in SUBSET calls,
         NEW old \in SUBSET calls, cl \cap old = {},
         NEW ls, NEW cs \in Seq(Seq(Names(n))), LoopsOK(ls, n, calls),
         Unmerged(ls, m - 1, cs), KeptOK(ls, KeptIn(cs)), Partitioned(ls, old),
         NEW gen, MakesLoops(gen, m, cl),
         NEW ls2, ls2 = Extended(ls, m, gen),
         NEW q, q = Standing(m, gen)
  PROVE  /\ LoopsOK(ls2, n, calls)
         /\ Append(cs, q) \in Seq(Seq(Names(n)))
         /\ KeptOK(ls2, KeptIn(Append(cs, q)))
         /\ Unmerged(ls2, m, Append(cs, q))
         /\ Partitioned(ls2, old \cup cl)
<1> DEFINE P   == Added(m, gen)
           cs2 == Append(cs, q)
<1>1. PICK g \in Nat \ {0} :
        /\ DOMAIN gen = 0 .. g \/ DOMAIN gen = 1 .. g
        /\ \A x \in 1 .. g : /\ gen[x] \in Fresh(gen[x].calls, {}, FALSE)
                             /\ gen[x].calls \subseteq cl /\ gen[x].calls # {}
        /\ 0 \in DOMAIN gen => gen[0] \in Fresh({}, {<<m, x>> : x \in 1 .. g}, TRUE)
        /\ \A x, y \in 1 .. g : x # y => gen[x].calls \cap gen[y].calls = {}
        /\ UNION {gen[x].calls : x \in 1 .. g} = cl
  BY Zenon DEF MakesLoops
<1> DEFINE S == {<<m, x>> : x \in 1 .. g}
<1>2. /\ \A x \in DOMAIN gen : x \in Nat /\ (x # 0 => x \in 1 .. g)
      /\ \A x \in 1 .. g : x \in DOMAIN gen /\ x # 0
  BY <1>1
<1>3. \A l \in DOMAIN ls : l[1] \in 1 .. m - 1 /\ l[1] # m /\ l[2] \in Nat /\ l = <<l[1], l[2]>>
  <2>1. DOMAIN ls \subseteq Names(m - 1) /\ m - 1 \in Nat
    BY DEF Unmerged
  <2>2. QED
    BY <2>1, NamesFacts
<1>4. /\ DOMAIN ls2 = DOMAIN ls \cup P
      /\ \A l \in DOMAIN ls : ls2[l] = ls[l]
      /\ \A x \in DOMAIN gen : <<m, x>> \in P /\ ls2[<<m, x>>] = gen[x]
  BY <1>3 DEF Added, Extended
<1>5. \A l \in P : /\ l = <<m, l[2]>> /\ l[1] = m /\ l[2] \in DOMAIN gen
                   /\ ls2[l] = gen[l[2]] /\ l \notin DOMAIN ls
  BY <1>3, <1>4 DEF Added
<1> HIDE DEF P
<1>6. P \subseteq Names(m) /\ DOMAIN ls \subseteq Names(m) /\ Names(m) \subseteq Names(n)
  <2>1. ASSUME NEW l \in P
        PROVE  l \in Names(m)
    <3>1. l[2] \in Nat /\ l = <<m, l[2]>>
      BY <1>2, <1>5
    <3>2. m \in 1 .. m
      OBVIOUS
    <3>3. QED
      BY <3>1, <3>2 DEF Names
  <2>2. Names(m - 1) \subseteq Names(m) /\ Names(m) \subseteq Names(n)
    BY DEF Names
  <2>3. QED
    BY <2>1, <2>2 DEF Unmerged
<1>7. \A x \in 1 .. g : /\ gen[x].subs = {} /\ gen[x].hidden = FALSE /\ gen[x].merged = FALSE
                        /\ gen[x].calls \subseteq cl /\ gen[x].calls # {}
  <2> SUFFICES ASSUME NEW x \in 1 .. g
               PROVE  gen[x].subs = {} /\ gen[x].hidden = FALSE /\ gen[x].merged = FALSE
    BY <1>1
  <2>1. gen[x] \in Fresh(gen[x].calls, {}, FALSE)
    BY <1>1
  <2>2. QED
    BY <2>1 DEF Fresh
<1>8. 0 \in DOMAIN gen => /\ gen[0].calls = {} /\ gen[0].subs = S
                          /\ gen[0].hidden = TRUE /\ gen[0].merged = FALSE
  <2>1. 0 \in DOMAIN gen => gen[0] \in Fresh({}, S, TRUE)
    BY <1>1
  <2> HIDE DEF S
  <2>2. QED
    BY <2>1 DEF Fresh
<1>9. S \subseteq P /\ \A l \in P : l \in S <=> l[2] # 0
  <2>1. \A x \in 1 .. g : <<m, x>> \in P /\ <<m, x>>[2] # 0
    BY <1>2, <1>4
  <2>2. S \subseteq P /\ \A l \in S : l[2] # 0
    BY <2>1
  <2>3. \A l \in P : l[2] # 0 => l[2] \in 1 .. g /\ l = <<m, l[2]>>
    BY <1>2, <1>5
  <2>4. \A l \in P : l[2] # 0 => l \in S
    BY <2>3
  <2>5. QED
    BY <2>2, <2>4
<1>10. ASSUME NEW l \in DOMAIN ls
       PROVE  Siblings(ls2, l) = Siblings(ls, l)
  <2>1. l[1] # m /\ \A s \in P : s[1] = m
    BY <1>3, <1>5
  <2>2. QED
    BY <1>4, <2>1 DEF Siblings
<1>11. ASSUME NEW l \in P
       PROVE  Siblings(ls2, l) = S
  <2>1. l[1] = m /\ \A s \in DOMAIN ls : s[1] # m
    BY <1>3, <1>5
  <2>2. \A s \in P : s[1] = m
    BY <1>5
  <2> HIDE DEF S
  <2>3. QED
    BY <1>4, <1>9, <2>1, <2>2 DEF Siblings
<1> HIDE DEF S
<1>12. LoopsOK(ls2, n, calls)
  <2>1. ASSUME NEW l \in DOMAIN ls
        PROVE  ls2[l] \in LoopTypeOf(ls2, calls) /\ (ls2[l].hidden <=> l[2] = 0)
    <3>1. ls[l] \in LoopTypeOf(ls, calls) /\ (ls[l].hidden <=> l[2] = 0)
      BY DEF LoopsOK
    <3>2. DOMAIN ls \subseteq DOMAIN ls2
      BY <1>4
    <3>3. ls[l] \in LoopTypeOf(ls2, calls)
      BY ONLY <3>1, <3>2, LoopOfMore DEF LoopTypeOf
    <3>4. QED
      BY <1>4, <3>1, <3>3
  <2>2. ASSUME NEW l \in P
        PROVE  ls2[l] \in LoopTypeOf(ls2, calls) /\ (ls2[l].hidden <=> l[2] = 0)
    <3>1. CASE l[2] = 0
      <4>1. 0 \in DOMAIN gen /\ ls2[l] = gen[0]
        BY <1>5, <3>1
      <4>2. gen[0] \in Fresh({}, S, TRUE)
        BY <1>1, <4>1 DEF S
      <4>3. S \subseteq DOMAIN ls2 /\ {} \subseteq calls /\ TRUE \in BOOLEAN
        BY <1>4, <1>9
      <4>4. gen[0] \in LoopTypeOf(ls2, calls)
        BY <4>2, <4>3 DEF LoopTypeOf, Fresh
      <4>5. QED
        BY <1>8, <3>1, <4>1, <4>4
    <3>2. CASE l[2] # 0
      <4> DEFINE x == l[2]
      <4>1. x \in 1 .. g /\ ls2[l] = gen[x]
        BY <1>2, <1>5, <3>2
      <4> HIDE DEF x
      <4>2. gen[x] \in Fresh(gen[x].calls, {}, FALSE) /\ gen[x].calls \subseteq calls
        BY <1>1, <4>1
      <4>3. {} \subseteq DOMAIN ls2 /\ FALSE \in BOOLEAN
        OBVIOUS
      <4>4. gen[x] \in LoopTypeOf(ls2, calls)
        BY <4>2, <4>3 DEF LoopTypeOf, Fresh
      <4>5. QED
        BY <1>7, <3>2, <4>1, <4>4
    <3>3. QED
      BY <3>1, <3>2
  <2>3. DOMAIN ls2 \subseteq Names(n)
    BY <1>4, <1>6
  <2>4. ASSUME NEW l \in DOMAIN ls
        PROVE  ls2[l].subs \subseteq DOMAIN ls2 /\ \A s \in ls2[l].subs : Rank(s) < Rank(l)
    BY <1>4 DEF LoopsOK, Ordered
  <2>5. ASSUME NEW l \in P
        PROVE  ls2[l].subs \subseteq DOMAIN ls2 /\ \A s \in ls2[l].subs : Rank(s) < Rank(l)
    <3>1. CASE l[2] = 0
      <4>1. ls2[l].subs = S
        BY <1>5, <1>8, <3>1
      <4>2. \A s \in S : s[1] = m /\ s[2] # 0
        BY <1>5, <1>9
      <4>3. \A s \in S : Rank(s) < Rank(l)
        <5>1. l[1] = m
          BY <1>5
        <5>2. Rank(l) = 2 * m + 1 /\ \A s \in S : Rank(s) = 2 * m + 0
          BY <3>1, <4>2, <5>1 DEF Rank
        <5>3. QED
          BY <5>2
      <4>4. QED
        BY <1>4, <1>9, <4>1, <4>3
    <3>2. CASE l[2] # 0
      <4>1. ls2[l].subs = {}
        BY <1>2, <1>5, <1>7, <3>2
      <4>2. QED
        BY <4>1
    <3>3. QED
      BY <3>1, <3>2
  <2>6. Ordered(ls2, n)
    BY <1>4, <2>3, <2>4, <2>5 DEF Ordered
  <2>7. QED
    BY <1>4, <2>1, <2>2, <2>6 DEF LoopsOK
<1>13. q \in Seq(P) /\ Range(q) = IF 0 \in DOMAIN gen THEN {<<m, 0>>} ELSE P
  <2>1. m \in Nat /\ g \in Nat \ {0}
    OBVIOUS
  <2>2. q \in Seq(Added(m, gen)) /\ Range(q) = IF 0 \in DOMAIN gen THEN {<<m, 0>>} ELSE Added(m, gen)
    BY <1>1, <2>1, AddedCluster
  <2>3. QED
    BY <2>2 DEF P
<1>14. q \in Seq(Names(n))
  <2>1. P \subseteq Names(n)
    BY <1>6
  <2>2. QED
    BY <1>13, <2>1
<1>15. cs2 \in Seq(Seq(Names(n))) /\ Len(cs2) = Len(cs) + 1 /\ Len(cs) = m - 1
       /\ cs2[m] = q /\ \A k \in 1 .. m - 1 : cs2[k] = cs[k]
  <2>1. Len(cs) = m - 1
    BY DEF Unmerged
  <2>2. QED
    BY <1>14, <2>1, AppendProperties
<1>16. KeptIn(cs2) = KeptIn(cs) \cup Range(q)
  BY <1>14, KeptAppend
<1> HIDE DEF cs2
<1>17. KeptIn(cs) \subseteq DOMAIN ls /\ Range(q) \subseteq P
       /\ \A l \in Range(q) : l[2] # 0 => 0 \notin DOMAIN gen
  <2>1. 0 \in DOMAIN gen => <<m, 0>> \in P /\ <<m, 0>>[2] = 0
    BY <1>4
  <2>2. QED
    BY <1>13, <2>1 DEF KeptOK
<1>18. KeptOK(ls2, KeptIn(cs2))
  <2>1. KeptIn(cs2) \subseteq DOMAIN ls2
    BY <1>4, <1>16, <1>17
  <2>2. ASSUME NEW l \in KeptIn(cs), l[2] # 0
        PROVE  <<l[1], 0>> \notin DOMAIN ls2
    <3>1. <<l[1], 0>> \notin DOMAIN ls /\ l[1] # m
      BY <1>3, <1>17, <2>2 DEF KeptOK
    <3>2. <<l[1], 0>> \notin P
      BY <1>5, <3>1
    <3>3. QED
      BY <1>4, <3>1, <3>2
  <2>3. ASSUME NEW l \in Range(q), l[2] # 0
        PROVE  <<l[1], 0>> \notin DOMAIN ls2
    <3>1. l[1] = m /\ 0 \notin DOMAIN gen
      BY <1>5, <1>17, <2>3
    <3>2. <<m, 0>> \notin DOMAIN ls
      BY <1>3
    <3>3. <<m, 0>> \notin P
      BY <1>5, <3>1
    <3>4. QED
      BY <1>4, <3>1, <3>2, <3>3
  <2>4. QED
    BY <1>16, <2>1, <2>2, <2>3 DEF KeptOK
<1>19. Plain(ls2, DOMAIN ls2)
  <2>1. \A l \in DOMAIN ls : IF l[2] = 0 THEN ls2[l].calls = {} /\ ls2[l].subs = Siblings(ls2, l)
                                        ELSE ls2[l].subs = {}
    BY <1>4, <1>10 DEF Unmerged, Plain
  <2>2. \A l \in P : IF l[2] = 0 THEN ls2[l].calls = {} /\ ls2[l].subs = Siblings(ls2, l)
                                 ELSE ls2[l].subs = {}
    <3> SUFFICES ASSUME NEW l \in P
                 PROVE  IF l[2] = 0 THEN ls2[l].calls = {} /\ ls2[l].subs = Siblings(ls2, l)
                                    ELSE ls2[l].subs = {}
      OBVIOUS
    <3>1. ls2[l] = gen[l[2]] /\ l[2] \in DOMAIN gen /\ Siblings(ls2, l) = S
      BY <1>5, <1>11
    <3>2. CASE l[2] = 0
      BY <1>8, <3>1, <3>2
    <3>3. CASE l[2] # 0
      BY <1>2, <1>7, <3>1, <3>3
    <3>4. QED
      BY <3>2, <3>3
  <2>3. QED
    BY <1>4, <2>1, <2>2 DEF Plain
<1>20. \A l \in DOMAIN ls2 : ~ls2[l].merged
  <2>1. \A l \in DOMAIN ls : ~ls2[l].merged
    BY <1>4 DEF Unmerged
  <2>2. ASSUME NEW l \in P
        PROVE  ~ls2[l].merged
    <3>1. ls2[l] = gen[l[2]] /\ l[2] \in DOMAIN gen
      BY <1>5
    <3>2. l[2] \in 1 .. g \/ l[2] = 0
      BY <1>2, <3>1
    <3>3. gen[l[2]].merged = FALSE
      BY <1>7, <1>8, <3>1, <3>2
    <3>4. QED
      BY <3>1, <3>3
  <2>3. QED
    BY <1>4, <2>1, <2>2
<1>21. Filled(ls2, KeptIn(cs2))
  <2>1. ASSUME NEW l \in KeptIn(cs)
        PROVE  IF l[2] = 0 THEN \A s \in Siblings(ls2, l) : ls2[s].calls # {}
                           ELSE ls2[l].calls # {}
    <3>1. IF l[2] = 0 THEN \A s \in Siblings(ls, l) : ls[s].calls # {} ELSE ls[l].calls # {}
      BY DEF Unmerged, Filled
    <3>2. Siblings(ls2, l) = Siblings(ls, l) /\ l \in DOMAIN ls
      BY <1>10, <1>17
    <3>3. \A s \in Siblings(ls, l) : s \in DOMAIN ls
      BY DEF Siblings
    <3>4. QED
      BY <1>4, <3>1, <3>2, <3>3
  <2>2. ASSUME NEW l \in Range(q)
        PROVE  IF l[2] = 0 THEN \A s \in Siblings(ls2, l) : ls2[s].calls # {}
                           ELSE ls2[l].calls # {}
    <3>1. ASSUME NEW s \in S
          PROVE  ls2[s].calls # {}
      <4>1. s \in P /\ s[2] # 0
        BY <1>9
      <4>2. ls2[s] = gen[s[2]] /\ s[2] \in DOMAIN gen
        BY <1>5, <4>1
      <4>3. s[2] \in 1 .. g
        BY <1>2, <4>1, <4>2
      <4>4. QED
        BY <1>7, <4>2, <4>3
    <3>2. l \in P
      BY <1>17
    <3>3. QED
      BY <1>2, <1>5, <1>7, <1>11, <3>1, <3>2
  <2>3. ASSUME NEW l \in DOMAIN ls2 \ KeptIn(cs2), l[2] # 0, <<l[1], 0>> \notin DOMAIN ls2
        PROVE  ls2[l].calls = {}
    <3>1. CASE l \in DOMAIN ls
      <4>1. l \notin KeptIn(cs) /\ <<l[1], 0>> \notin DOMAIN ls
        BY <1>4, <1>16, <2>3
      <4>2. ls[l].calls = {}
        BY <2>3, <3>1, <4>1 DEF Unmerged, Filled
      <4>3. QED
        BY <1>4, <3>1, <4>2
    <3>2. CASE l \in P
      <4>1. l \notin Range(q)
        BY <1>16, <2>3
      <4>2. 0 \in DOMAIN gen
        BY <1>13, <3>2, <4>1
      <4>3. <<m, 0>> \in DOMAIN ls2
        BY <1>4, <4>2
      <4>4. QED
        BY <1>5, <2>3, <3>2, <4>3
    <3>3. QED
      BY <1>4, <2>3, <3>1, <3>2
  <2>4. QED
    BY <1>16, <2>1, <2>2, <2>3 DEF Filled
<1>22. \A k \in 1 .. m : \A l \in Range(cs2[k]) : l[1] = k
  <2>1. \A k \in 1 .. m - 1 : \A l \in Range(cs[k]) : l[1] = k
    BY DEF Unmerged
  <2>2. \A l \in Range(q) : l[1] = m
    BY <1>5, <1>17
  <2>3. \A k \in 1 .. m : k \in 1 .. m - 1 \/ k = m
    OBVIOUS
  <2>4. QED
    BY <1>15, <2>1, <2>2, <2>3
<1>23. Unmerged(ls2, m, cs2)
  <2>1. DOMAIN ls2 \subseteq Names(m)
    BY <1>4, <1>6
  <2>2. Len(cs2) = m
    BY <1>15
  <2>3. QED
    BY <1>19, <1>20, <1>21, <1>22, <2>1, <2>2 DEF Unmerged
<1>24. Partitioned(ls2, old \cup cl)
  <2>1. UNION {ls[l].calls : l \in DOMAIN ls} = old
        /\ \A l, k \in DOMAIN ls : l # k => ls[l].calls \cap ls[k].calls = {}
    BY DEF Partitioned
  <2>2. \A l \in P : l[2] = 0 \/ l[2] \in 1 .. g
    BY <1>2, <1>5
  <2>3. \A l \in P : ls2[l].calls \subseteq cl
    BY <1>5, <1>7, <1>8, <2>2
  <2>4. \A l \in DOMAIN ls : ls2[l].calls = ls[l].calls /\ ls2[l].calls \subseteq old
    BY <1>4, <2>1
  <2>5. \A c \in cl : \E l \in P : c \in ls2[l].calls
    <3> SUFFICES ASSUME NEW c \in cl
                 PROVE  \E l \in P : c \in ls2[l].calls
      OBVIOUS
    <3>1. PICK x \in 1 .. g : c \in gen[x].calls
      BY <1>1
    <3>2. <<m, x>> \in P /\ ls2[<<m, x>>] = gen[x]
      BY <1>2, <1>4
    <3>3. QED
      BY <3>1, <3>2
  <2>6. UNION {ls2[l].calls : l \in DOMAIN ls2} = old \cup cl
    <3>1. ASSUME NEW l \in DOMAIN ls2
          PROVE  ls2[l].calls \subseteq old \cup cl
      BY <1>4, <2>3, <2>4
    <3>2. ASSUME NEW c \in old
          PROVE  \E l \in DOMAIN ls2 : c \in ls2[l].calls
      <4>1. PICK l \in DOMAIN ls : c \in ls[l].calls
        BY <2>1
      <4>2. QED
        BY <1>4, <2>4, <4>1
    <3>3. \A c \in cl : \E l \in DOMAIN ls2 : c \in ls2[l].calls
      BY <1>4, <2>5
    <3>4. \A c \in old \cup cl : c \in UNION {ls2[l].calls : l \in DOMAIN ls2}
      BY <3>2, <3>3
    <3>5. UNION {ls2[l].calls : l \in DOMAIN ls2} \subseteq old \cup cl
      <4> DEFINE f(l) == ls2[l].calls
      <4>1. \A l \in DOMAIN ls2 : f(l) \subseteq old \cup cl
        BY <3>1
      <4> HIDE DEF f
      <4>2. UNION {f(l) : l \in DOMAIN ls2} \subseteq old \cup cl
        BY <4>1
      <4>3. QED
        BY <4>2 DEF f
    <3>6. QED
      BY <3>4, <3>5
  <2>7. ASSUME NEW l \in P, NEW k \in P, l # k
        PROVE  ls2[l].calls \cap ls2[k].calls = {}
    <3>1. l[2] # k[2]
      BY <1>5, <2>7
    <3>2. CASE l[2] = 0 \/ k[2] = 0
      BY <1>5, <1>8, <3>2
    <3>3. CASE l[2] # 0 /\ k[2] # 0
      BY <1>1, <1>5, <2>2, <3>1, <3>3
    <3>4. QED
      BY <3>2, <3>3
  <2>8. \A l, k \in DOMAIN ls2 : l # k => ls2[l].calls \cap ls2[k].calls = {}
    <3> SUFFICES ASSUME NEW l \in DOMAIN ls2, NEW k \in DOMAIN ls2, l # k
                 PROVE  ls2[l].calls \cap ls2[k].calls = {}
      OBVIOUS
    <3>1. CASE l \in DOMAIN ls /\ k \in DOMAIN ls
      BY <1>4, <2>1, <3>1
    <3>2. CASE l \in P /\ k \in P
      BY <2>7, <3>2
    <3>3. CASE l \in P /\ k \in DOMAIN ls
      BY <2>3, <2>4, <3>3
    <3>4. CASE l \in DOMAIN ls /\ k \in P
      BY <2>3, <2>4, <3>4
    <3>5. QED
      BY <1>4, <3>1, <3>2, <3>3, <3>4
  <2>9. QED
    BY <2>6, <2>8 DEF Partitioned
<1>25. QED
  BY <1>12, <1>15, <1>18, <1>23, <1>24 DEF cs2

-----------------------------------------------------------------------------
(* Data conditions: callstacks are pushed from the loops of a cluster to     *)
(* those of another one.                                                     *)

(* The invariant before loops are merged, for n clusters.                    *)
Unpushed(ls, cs, n, calls, held) ==
  /\ LoopsOK(ls, n, calls)
  /\ cs \in Seq(Seq(Names(n)))
  /\ KeptOK(ls, KeptIn(cs))
  /\ Unmerged(ls, n, cs)
  /\ Partitioned(ls, held)

LEMMA KeptStands ==
  ASSUME NEW n \in Nat, NEW calls, NEW held, NEW ls, NEW cs, Unpushed(ls, cs, n, calls, held)
  PROVE  /\ \A k \in 1 .. n : Range(cs[k]) \subseteq KeptIn(cs) /\ \A l \in Range(cs[k]) : l[1] = k
         /\ \A l \in KeptIn(cs) : l[1] \in 1 .. n /\ l \in Range(cs[l[1]]) /\ l \in DOMAIN ls
<1>1. DOMAIN cs = 1 .. n /\ \A k \in 1 .. n : \A l \in Range(cs[k]) : l[1] = k
  BY LenProperties DEF Unpushed, Unmerged
<1>2. \A k \in 1 .. n : Range(cs[k]) \subseteq KeptIn(cs)
  BY <1>1 DEF KeptIn
<1>3. ASSUME NEW l \in KeptIn(cs)
      PROVE  l[1] \in 1 .. n /\ l \in Range(cs[l[1]]) /\ l \in DOMAIN ls
  <2>1. PICK k \in 1 .. n : l \in Range(cs[k])
    BY <1>1 DEF KeptIn
  <2>2. l[1] = k
    BY <1>1, <2>1
  <2>3. QED
    BY <2>1, <2>2 DEF Unpushed, KeptOK
<1>4. QED
  BY <1>1, <1>2, <1>3

LEMMA PartsFacts ==
  ASSUME NEW n \in Nat, NEW calls, NEW held, Unpushed(loops, clusters, n, calls, held),
         NEW k \in 1 .. n, NEW q \in Parts(k)
  PROVE  /\ q \in DOMAIN loops /\ q[1] = k /\ q[2] # 0
         /\ loops[q].calls # {} /\ loops[q].subs = {}
         /\ Flat(q) = loops[q].calls
<1>1. PICK l \in Range(clusters[k]) : q \in IF loops[l].hidden THEN loops[l].subs ELSE {l}
  BY DEF Parts
<1>2. l \in KeptIn(clusters) /\ l[1] = k /\ l \in DOMAIN loops
  BY KeptStands
<1>3. loops[l].hidden <=> l[2] = 0
  BY <1>2 DEF Unpushed, LoopsOK
<1>4. Plain(loops, DOMAIN loops) /\ Filled(loops, KeptIn(clusters))
  BY DEF Unpushed, Unmerged
<1>5. q \in DOMAIN loops /\ q[1] = k /\ q[2] # 0 /\ loops[q].calls # {}
  <2>1. CASE l[2] = 0
    <3>1. q \in Siblings(loops, l)
      BY <1>1, <1>2, <1>3, <1>4, <2>1 DEF Plain
    <3>2. loops[q].calls # {}
      BY <1>2, <1>4, <2>1, <3>1 DEF Filled
    <3>3. QED
      BY <1>2, <3>1, <3>2 DEF Siblings
  <2>2. CASE l[2] # 0
    <3>1. q = l
      BY <1>1, <1>3, <2>2
    <3>2. loops[l].calls # {}
      BY <1>2, <1>4, <2>2 DEF Filled
    <3>3. QED
      BY <1>2, <2>2, <3>1, <3>2
  <2>3. QED
    BY <2>1, <2>2
<1>6. loops[q].subs = {}
  BY <1>4, <1>5 DEF Plain
<1>7. Flat(q) = loops[q].calls
  <2>1. Ordered(loops, n)
    BY DEF Unpushed, LoopsOK
  <2>2. FlatOf(loops, q) = loops[q].calls \cup UNION {FlatOf(loops, s) : s \in loops[q].subs}
    BY <1>5, <2>1, FlatAt
  <2>3. UNION {FlatOf(loops, s) : s \in loops[q].subs} = {}
    BY <1>6
  <2>4. FlatOf(loops, q) = Flat(q)
    BY Zenon DEF FlatOf, Flat
  <2>5. QED
    BY <2>2, <2>3, <2>4
<1>8. QED
  BY <1>5, <1>6, <1>7

(* No callstack is pushed to two loops. *)
LEMMA TakenOnce ==
  ASSUME NEW n \in Nat, NEW calls \in SUBSET Nat, NEW held,
         Unpushed(loops, clusters, n, calls, held),
         i \in 1 .. n, j \in 1 .. n
  PROVE  /\ \A l \in Parts(j) : Taken(l) \subseteq UNION {loops[m].calls : m \in Parts(i)}
         /\ \A l, q \in Parts(j) : l # q => Taken(l) \cap Taken(q) = {}
<1>1. \A l \in Parts(j) : Taken(l) \subseteq UNION {loops[m].calls : m \in Parts(i)}
  BY DEF Taken
<1>2. ASSUME NEW l \in Parts(j)
      PROVE  Min(Flat(l)) \in Nat /\ Min(Flat(l)) \in loops[l].calls /\ l \in DOMAIN loops
  <2>1. l \in DOMAIN loops /\ loops[l].calls # {} /\ Flat(l) = loops[l].calls
    BY PartsFacts
  <2>2. loops[l] \in LoopTypeOf(loops, calls)
    BY <2>1 DEF Unpushed, LoopsOK
  <2>3. loops[l].calls \in SUBSET Nat
    BY <2>2 DEF LoopTypeOf
  <2>4. QED
    BY <2>1, <2>3, MinFacts
<1>3. ASSUME NEW l \in Parts(j), NEW q \in Parts(j), NEW c \in Taken(l) \cap Taken(q)
      PROVE  l = q
  <2>1. PICK m \in Parts(i) : /\ c \in loops[m].calls /\ l \in Owners(m, c, j)
                              /\ \A x \in Owners(m, c, j) : Min(Flat(l)) <= Min(Flat(x))
    BY <1>3, Zenon DEF Taken
  <2>2. PICK k \in Parts(i) : /\ c \in loops[k].calls /\ q \in Owners(k, c, j)
                              /\ \A x \in Owners(k, c, j) : Min(Flat(q)) <= Min(Flat(x))
    BY <1>3, Zenon DEF Taken
  <2>3. m = k
    <3>1. m \in DOMAIN loops /\ k \in DOMAIN loops
      BY PartsFacts
    <3>2. m # k => loops[m].calls \cap loops[k].calls = {}
      BY <3>1 DEF Unpushed, Partitioned
    <3>3. QED
      BY <2>1, <2>2, <3>2
  <2>4. Min(Flat(l)) <= Min(Flat(q)) /\ Min(Flat(q)) <= Min(Flat(l))
    BY <2>1, <2>2, <2>3
  <2>5. Min(Flat(l)) = Min(Flat(q))
    BY <1>2, <2>4
  <2>6. l # q => loops[l].calls \cap loops[q].calls = {}
    BY <1>2 DEF Unpushed, Partitioned
  <2>7. QED
    BY <1>2, <2>5, <2>6
<1>4. QED
  BY <1>1, <1>3

(* Callstacks go from the loops in A to those in B. *)
Moved(ls, ls2, A, B, t) ==
  /\ A \in SUBSET DOMAIN ls /\ B \in SUBSET DOMAIN ls /\ A \cap B = {}
  /\ \A l \in B : t[l] \subseteq UNION {ls[m].calls : m \in A}
  /\ \A l, m \in B : l # m => t[l] \cap t[m] = {}
  /\ DOMAIN ls2 = DOMAIN ls
  /\ \A l \in DOMAIN ls :
       ls2[l] = IF l \in B THEN [ls[l] EXCEPT !.calls = @ \cup t[l]]
                ELSE IF l \in A THEN [ls[l] EXCEPT !.calls = @ \ UNION {t[m] : m \in B}]
                ELSE ls[l]

LEMMA MovedLoop ==
  ASSUME NEW C, NEW D, NEW t \in SUBSET C,
         NEW o \in [calls : SUBSET C, subs : SUBSET D, iterations : Nat \ {0},
                    divided : Nat \ {0}, original : Nat \ {0}, hidden : BOOLEAN,
                    merged : BOOLEAN, run : Nat, gap : Nat]
  PROVE  /\ [o EXCEPT !.calls = t] \in
              [calls : SUBSET C, subs : SUBSET D, iterations : Nat \ {0},
               divided : Nat \ {0}, original : Nat \ {0}, hidden : BOOLEAN,
               merged : BOOLEAN, run : Nat, gap : Nat]
         /\ [o EXCEPT !.calls = t].calls = t
         /\ [o EXCEPT !.calls = t].subs = o.subs
         /\ [o EXCEPT !.calls = t].hidden = o.hidden
         /\ [o EXCEPT !.calls = t].merged = o.merged
OBVIOUS

LEMMA MovedCalls ==
  ASSUME NEW n \in Nat, NEW calls, NEW ls, LoopsOK(ls, n, calls), Partitioned(ls, calls),
         NEW A, NEW B, NEW t, NEW ls2, Moved(ls, ls2, A, B, t)
  PROVE  /\ LoopsOK(ls2, n, calls)
         /\ Partitioned(ls2, calls)
         /\ \A l \in DOMAIN ls : /\ ls2[l].subs = ls[l].subs /\ ls2[l].merged = ls[l].merged
                                 /\ l \notin A => ls[l].calls \subseteq ls2[l].calls
                                 /\ l \notin A \cup B => ls2[l].calls = ls[l].calls
<1> DEFINE gone == UNION {t[m] : m \in B}
<1>1. /\ A \in SUBSET DOMAIN ls /\ B \in SUBSET DOMAIN ls /\ A \cap B = {}
      /\ \A l \in B : t[l] \subseteq UNION {ls[m].calls : m \in A}
      /\ \A l, m \in B : l # m => t[l] \cap t[m] = {}
      /\ DOMAIN ls2 = DOMAIN ls
  BY DEF Moved
<1>2. UNION {ls[l].calls : l \in DOMAIN ls} = calls
      /\ \A l, m \in DOMAIN ls : l # m => ls[l].calls \cap ls[m].calls = {}
  BY DEF Partitioned
<1>3. \A l \in DOMAIN ls : ls[l].calls \subseteq calls
  BY <1>2
<1>4. \A l \in B : t[l] \subseteq calls
  <2>1. UNION {ls[m].calls : m \in A} \subseteq calls
    BY <1>1, <1>3
  <2>2. QED
    BY <1>1, <2>1
<1>5. ASSUME NEW l \in DOMAIN ls
      PROVE  /\ ls2[l] \in LoopTypeOf(ls, calls)
             /\ ls2[l].calls = IF l \in B THEN ls[l].calls \cup t[l]
                               ELSE IF l \in A THEN ls[l].calls \ gone ELSE ls[l].calls
             /\ ls2[l].subs = ls[l].subs /\ ls2[l].hidden = ls[l].hidden
             /\ ls2[l].merged = ls[l].merged
  <2>1. ls[l] \in LoopTypeOf(ls, calls)
    BY DEF LoopsOK
  <2>2. CASE l \in B
    <3>1. ls2[l] = [ls[l] EXCEPT !.calls = ls[l].calls \cup t[l]]
      BY <2>2 DEF Moved
    <3>2. ls[l].calls \cup t[l] \in SUBSET calls
      BY <1>3, <1>4, <2>2
    <3>3. QED
      BY <2>1, <2>2, <3>1, <3>2, MovedLoop DEF LoopTypeOf
  <2>3. CASE l \notin B /\ l \in A
    <3>1. ls2[l] = [ls[l] EXCEPT !.calls = ls[l].calls \ gone]
      BY <2>3 DEF Moved
    <3>2. ls[l].calls \ gone \in SUBSET calls
      BY <1>3
    <3> HIDE DEF gone
    <3>3. QED
      BY <2>1, <2>3, <3>1, <3>2, MovedLoop DEF LoopTypeOf
  <2>4. CASE l \notin B /\ l \notin A
    <3>1. ls2[l] = ls[l]
      BY <2>4 DEF Moved
    <3>2. QED
      BY <2>1, <2>4, <3>1
  <2>5. QED
    BY <2>2, <2>3, <2>4
<1>6. LoopsOK(ls2, n, calls)
  <2>1. Ordered(ls2, n)
    BY <1>1, <1>5 DEF LoopsOK, Ordered
  <2>2. \A l \in DOMAIN ls2 : ls2[l].hidden <=> l[2] = 0
    BY <1>1, <1>5 DEF LoopsOK
  <2>3. \A l \in DOMAIN ls2 : ls2[l] \in LoopTypeOf(ls2, calls)
    BY <1>1, <1>5 DEF LoopTypeOf
  <2>4. QED
    BY <2>1, <2>2, <2>3 DEF LoopsOK
<1>7. gone \subseteq UNION {ls[m].calls : m \in A}
  BY <1>1
<1>8. \A l \in DOMAIN ls : l \notin A => ls[l].calls \cap gone = {}
  <2> SUFFICES ASSUME NEW l \in DOMAIN ls, l \notin A, NEW c \in ls[l].calls, c \in gone
               PROVE  FALSE
    OBVIOUS
  <2>1. PICK m \in A : c \in ls[m].calls
    BY <1>7
  <2>2. QED
    BY <1>1, <1>2, <2>1
<1>9. \A l \in B : t[l] \subseteq gone
  OBVIOUS
<1> HIDE DEF gone
<1>10. \A c \in calls : \E l \in DOMAIN ls : c \in ls2[l].calls
  <2> SUFFICES ASSUME NEW c \in calls
               PROVE  \E l \in DOMAIN ls : c \in ls2[l].calls
    OBVIOUS
  <2>1. CASE c \in gone
    <3>1. PICK l \in B : c \in t[l]
      BY <2>1 DEF gone
    <3>2. QED
      BY <1>1, <1>5, <3>1
  <2>2. CASE c \notin gone
    <3>1. PICK l \in DOMAIN ls : c \in ls[l].calls
      BY <1>2
    <3>2. QED
      BY <1>5, <2>2, <3>1
  <2>3. QED
    BY <2>1, <2>2
<1>11. ASSUME NEW l \in DOMAIN ls, NEW m \in DOMAIN ls, l # m,
              NEW c \in ls2[l].calls, c \in ls2[m].calls
       PROVE  FALSE
  <2>1. \A x \in DOMAIN ls : c \in ls2[x].calls =>
          (c \in gone /\ x \in B /\ c \in t[x]) \/ (c \notin gone /\ c \in ls[x].calls)
    <3> SUFFICES ASSUME NEW x \in DOMAIN ls, c \in ls2[x].calls
                 PROVE  \/ c \in gone /\ x \in B /\ c \in t[x]
                        \/ c \notin gone /\ c \in ls[x].calls
      OBVIOUS
    <3>1. CASE x \in B
      <4>1. x \notin A /\ t[x] \subseteq gone
        BY <1>1, <1>9, <3>1
      <4>2. ls[x].calls \cap gone = {}
        BY <1>8, <4>1
      <4>3. ls2[x].calls = ls[x].calls \cup t[x]
        BY <1>5, <3>1
      <4>4. c \in t[x] => c \in gone
        BY <4>1
      <4>5. c \in ls[x].calls => c \notin gone
        BY <4>2
      <4>6. c \in ls[x].calls \/ c \in t[x]
        BY <4>3
      <4>7. QED
        BY <3>1, <4>4, <4>5, <4>6
    <3>2. CASE x \notin B
      BY <1>5, <1>8, <3>2
    <3>3. QED
      BY <3>1, <3>2
  <2>2. CASE c \in gone
    <3>1. l \in B /\ m \in B /\ c \in t[l] /\ c \in t[m]
      BY <1>11, <2>1, <2>2
    <3>2. QED
      BY <1>1, <1>11, <3>1
  <2>3. CASE c \notin gone
    <3>1. c \in ls[l].calls /\ c \in ls[m].calls
      BY <1>11, <2>1, <2>3
    <3>2. QED
      BY <1>2, <1>11, <3>1
  <2>4. QED
    BY <2>2, <2>3
<1>12. Partitioned(ls2, calls)
  <2>1. \A l \in DOMAIN ls : ls2[l].calls \subseteq calls
    BY <1>5 DEF LoopTypeOf
  <2>2. UNION {ls2[l].calls : l \in DOMAIN ls2} = calls
    <3> DEFINE f(l) == ls2[l].calls
    <3>1. \A l \in DOMAIN ls2 : f(l) \subseteq calls
      BY <1>1, <2>1
    <3>2. \A c \in calls : \E l \in DOMAIN ls2 : c \in f(l)
      BY <1>1, <1>10
    <3> HIDE DEF f
    <3>3. UNION {f(l) : l \in DOMAIN ls2} = calls
      BY <3>1, <3>2
    <3>4. QED
      BY <3>3 DEF f
  <2>3. \A l, m \in DOMAIN ls2 : l # m => ls2[l].calls \cap ls2[m].calls = {}
    BY <1>1, <1>11
  <2>4. QED
    BY <2>2, <2>3 DEF Partitioned
<1>13. QED
  BY <1>5, <1>6, <1>12

(* The clusters after a step of push_datacond: the i-th one without the      *)
(* loops that have been emptied.                                             *)
Cleared == [clusters EXCEPT ![i] = Only(@, {l \in Range(@) : ~Emptied(l, Pushed)})]

LEMMA PushMoves ==
  ASSUME NEW n \in Nat, NEW calls \in SUBSET Nat,
         Unpushed(loops, clusters, n, calls, calls),
         i \in 1 .. n, j \in 1 .. n, i # j
  PROVE  /\ LoopsOK(Pushed, n, calls)
         /\ Partitioned(Pushed, calls)
         /\ DOMAIN Pushed = DOMAIN loops
         /\ \A l \in DOMAIN loops :
              /\ Pushed[l].subs = loops[l].subs /\ Pushed[l].merged = loops[l].merged
              /\ l[1] # i => loops[l].calls \subseteq Pushed[l].calls
              /\ l[2] = 0 \/ loops[l].calls = {} => Pushed[l].calls = loops[l].calls
<1> DEFINE A == Parts(i)
           B == Parts(j)
           t == [l \in B |-> Taken(l)]
<1>1. \A q \in A : q \in DOMAIN loops /\ q[1] = i /\ q[2] # 0 /\ loops[q].calls # {}
  BY PartsFacts
<1>2. \A q \in B : q \in DOMAIN loops /\ q[1] = j /\ q[2] # 0 /\ loops[q].calls # {}
  BY PartsFacts
<1>3. A \in SUBSET DOMAIN loops /\ B \in SUBSET DOMAIN loops /\ A \cap B = {}
  BY <1>1, <1>2
<1>4. /\ \A l \in B : t[l] \subseteq UNION {loops[m].calls : m \in A}
      /\ \A l, m \in B : l # m => t[l] \cap t[m] = {}
  BY TakenOnce
<1>5. UNION {t[m] : m \in B} = UNION {Taken(l) : l \in B}
  OBVIOUS
<1>6. Moved(loops, Pushed, A, B, t)
  <2> HIDE DEF A, B
  <2>1. Pushed = [l \in DOMAIN loops |->
                    IF l \in B THEN [loops[l] EXCEPT !.calls = @ \cup Taken(l)]
                    ELSE IF l \in A THEN [loops[l] EXCEPT !.calls = @ \ UNION {Taken(m) : m \in B}]
                    ELSE loops[l]]
    BY Zenon DEF Pushed, A, B
  <2>2. \A l \in B : t[l] = Taken(l)
    OBVIOUS
  <2> HIDE DEF t
  <2>3. \A l \in DOMAIN loops :
          Pushed[l] = IF l \in B THEN [loops[l] EXCEPT !.calls = @ \cup t[l]]
                      ELSE IF l \in A THEN [loops[l] EXCEPT !.calls = @ \ UNION {t[m] : m \in B}]
                      ELSE loops[l]
    BY <1>5, <2>1, <2>2
  <2>4. DOMAIN Pushed = DOMAIN loops
    BY <2>1
  <2>5. QED
    BY <1>3, <1>4, <2>3, <2>4 DEF Moved
<1>7. LoopsOK(loops, n, calls) /\ Partitioned(loops, calls)
  BY DEF Unpushed
<1> HIDE DEF t, A, B
<1>8. /\ LoopsOK(Pushed, n, calls)
      /\ Partitioned(Pushed, calls)
      /\ \A l \in DOMAIN loops :
           /\ Pushed[l].subs = loops[l].subs /\ Pushed[l].merged = loops[l].merged
           /\ l \notin A => loops[l].calls \subseteq Pushed[l].calls
           /\ l \notin A \cup B => Pushed[l].calls = loops[l].calls
  BY <1>6, <1>7, MovedCalls
<1>9. DOMAIN Pushed = DOMAIN loops
  BY <1>6 DEF Moved
<1>10. QED
  BY <1>1, <1>2, <1>8, <1>9

LEMMA PushedLoops ==
  ASSUME NEW n \in Nat, NEW calls \in SUBSET Nat,
         Unpushed(loops, clusters, n, calls, calls),
         i \in 1 .. n, j \in 1 .. n, i # j
  PROVE  Unpushed(Pushed, Cleared, n, calls, calls)
<1> DEFINE K  == KeptIn(clusters)
           K2 == KeptIn(Cleared)
<1>1. /\ LoopsOK(Pushed, n, calls) /\ Partitioned(Pushed, calls)
      /\ DOMAIN Pushed = DOMAIN loops
      /\ \A l \in DOMAIN loops :
           /\ Pushed[l].subs = loops[l].subs /\ Pushed[l].merged = loops[l].merged
           /\ l[1] # i => loops[l].calls \subseteq Pushed[l].calls
           /\ l[2] = 0 \/ loops[l].calls = {} => Pushed[l].calls = loops[l].calls
  BY PushMoves
<1>2. /\ \A k \in 1 .. n : Range(clusters[k]) \subseteq K /\ \A l \in Range(clusters[k]) : l[1] = k
      /\ \A l \in K : l[1] \in 1 .. n /\ l \in Range(clusters[l[1]]) /\ l \in DOMAIN loops
  BY KeptStands
<1>3. /\ clusters \in Seq(Seq(Names(n))) /\ Len(clusters) = n /\ KeptOK(loops, K)
      /\ LoopsOK(loops, n, calls)
      /\ DOMAIN loops \subseteq Names(n) /\ Plain(loops, DOMAIN loops)
      /\ \A l \in DOMAIN loops : ~loops[l].merged
      /\ Filled(loops, K)
  BY DEF Unpushed, Unmerged
<1>4. DOMAIN clusters = 1 .. n /\ clusters[i] \in Seq(Names(n))
  BY <1>3, LenProperties, ElementOfSeq
<1> DEFINE S == {l \in Range(clusters[i]) : ~Emptied(l, Pushed)}
<1>5. /\ Only(clusters[i], S) \in Seq(Names(n))
      /\ Range(Only(clusters[i], S)) = S
  <2>1. Picked(Only(clusters[i], S), clusters[i], S, Names(n))
    BY <1>4, OnlyFacts
  <2>2. S \subseteq Range(clusters[i])
    OBVIOUS
  <2>3. QED
    BY <2>1, <2>2 DEF Picked
<1>6. Cleared = [clusters EXCEPT ![i] = Only(clusters[i], S)]
  BY Zenon DEF Cleared
<1>7. /\ Cleared \in Seq(Seq(Names(n))) /\ Len(Cleared) = n
      /\ DOMAIN Cleared = 1 .. n
      /\ Cleared[i] = Only(clusters[i], S)
      /\ \A k \in 1 .. n : k # i => Cleared[k] = clusters[k]
  <2> DEFINE x == Only(clusters[i], S)
  <2> HIDE DEF S, x
  <2>1. Cleared = [clusters EXCEPT ![i] = x] /\ x \in Seq(Names(n))
    BY <1>5, <1>6 DEF x
  <2>2. Cleared \in Seq(Seq(Names(n))) /\ Len(Cleared) = n
    BY <1>3, <1>4, <2>1, ExceptSeq
  <2>3. QED
    BY <1>4, <2>1, <2>2 DEF x
<1> HIDE DEF S
<1>8. /\ \A k \in 1 .. n : Range(Cleared[k]) \subseteq Range(clusters[k])
      /\ K2 \subseteq K
      /\ \A l \in K : l \in K2 <=> l[1] # i \/ ~Emptied(l, Pushed)
  <2>1. \A k \in 1 .. n : Range(Cleared[k]) = IF k = i THEN S ELSE Range(clusters[k])
    BY <1>5, <1>7
  <2>2. \A k \in 1 .. n : Range(Cleared[k]) \subseteq Range(clusters[k])
    BY <2>1 DEF S
  <2>3. \A l : l \in K2 <=> \E k \in 1 .. n : l \in Range(Cleared[k])
    BY <1>7 DEF KeptIn
  <2>4. K2 \subseteq K
    BY <1>2, <2>2, <2>3
  <2>5. ASSUME NEW l \in K
        PROVE  l \in K2 <=> l \in Range(Cleared[l[1]])
    <3>1. \A k \in 1 .. n : l \in Range(Cleared[k]) => k = l[1]
      BY <1>2, <2>2
    <3>2. QED
      BY <1>2, <2>3, <3>1
  <2>6. \A l \in K : l \in Range(Cleared[l[1]]) <=> l[1] # i \/ ~Emptied(l, Pushed)
    BY <1>2, <2>1 DEF S
  <2>7. QED
    BY <2>2, <2>4, <2>5, <2>6
<1>9. \A l : Siblings(Pushed, l) = Siblings(loops, l)
  BY <1>1 DEF Siblings
<1> HIDE DEF K, K2
<1>10. KeptOK(Pushed, K2)
  BY <1>1, <1>3, <1>8 DEF KeptOK
<1>11. Plain(Pushed, DOMAIN Pushed)
  BY <1>1, <1>3, <1>9 DEF Plain
<1>12. ASSUME NEW l \in K
       PROVE  Emptied(l, Pushed) <=> IF l[2] = 0 THEN \E s \in Siblings(loops, l) : Pushed[s].calls = {}
                                                 ELSE Pushed[l].calls = {}
  <2>1. l \in DOMAIN loops /\ (loops[l].hidden <=> l[2] = 0)
    BY <1>2, <1>3 DEF LoopsOK
  <2>2. l[2] = 0 => loops[l].subs = Siblings(loops, l)
    BY <1>3, <2>1 DEF Plain
  <2>3. QED
    BY <2>1, <2>2 DEF Emptied
<1>13. Filled(Pushed, K2)
  <2>1. ASSUME NEW l \in K2
        PROVE  IF l[2] = 0 THEN \A s \in Siblings(loops, l) : Pushed[s].calls # {}
                           ELSE Pushed[l].calls # {}
    <3>1. l \in K
      BY <1>8
    <3>2. CASE l[1] = i
      BY <1>8, <1>12, <3>1, <3>2
    <3>3. CASE l[1] # i
      <4>1. l \in DOMAIN loops
        BY <1>2, <3>1
      <4>2. IF l[2] = 0 THEN \A s \in Siblings(loops, l) : loops[s].calls # {}
                        ELSE loops[l].calls # {}
        BY <1>3, <3>1 DEF Filled
      <4>3. \A s \in Siblings(loops, l) : s \in DOMAIN loops /\ s[1] # i
        BY <3>3 DEF Siblings
      <4>4. \A s \in Siblings(loops, l) : loops[s].calls \subseteq Pushed[s].calls
        BY <1>1, <4>3
      <4>5. loops[l].calls \subseteq Pushed[l].calls
        BY <1>1, <3>3, <4>1
      <4>6. QED
        BY <4>2, <4>4, <4>5
    <3>4. QED
      BY <3>2, <3>3
  <2>2. ASSUME NEW l \in DOMAIN loops \ K2, l[2] # 0, <<l[1], 0>> \notin DOMAIN loops
        PROVE  Pushed[l].calls = {}
    <3>1. CASE l \in K
      BY <1>8, <1>12, <2>2, <3>1
    <3>2. CASE l \notin K
      <4>1. loops[l].calls = {}
        BY <1>3, <2>2, <3>2 DEF Filled
      <4>2. QED
        BY <1>1, <2>2, <4>1
    <3>3. QED
      BY <3>1, <3>2
  <2>3. QED
    BY <1>1, <1>9, <2>1, <2>2 DEF Filled
<1>14. \A k \in 1 .. n : \A l \in Range(Cleared[k]) : l[1] = k
  BY <1>2, <1>8
<1>15. Unmerged(Pushed, n, Cleared)
  <2>1. \A l \in DOMAIN Pushed : ~Pushed[l].merged
    BY <1>1, <1>3
  <2>2. DOMAIN Pushed \subseteq Names(n)
    BY <1>1, <1>3
  <2>3. QED
    BY <1>7, <1>11, <1>13, <1>14, <2>1, <2>2 DEF Unmerged, K2
<1>16. QED
  BY <1>1, <1>7, <1>10, <1>15 DEF Unpushed, K2

-----------------------------------------------------------------------------
(* The nest of the loops.                                                    *)

(* Lost are the callstacks of the subloops of superloops that were removed.  *)
LEMMA LostAre ==
  ASSUME NEW n \in Nat, NEW calls, NEW ls, LoopsOK(ls, n, calls),
         NEW kept, KeptOK(ls, kept), Plain(ls, DOMAIN ls \ kept), NEW c
  PROVE  c \in LostIn(ls, kept) <=>
           \E m \in DOMAIN ls \ kept : m[2] = 0 /\ \E s \in Siblings(ls, m) : c \in ls[s].calls
<1> DEFINE D == {m \in DOMAIN ls : ls[m].hidden /\ m \notin kept}
<1>1. \A m : m \in D <=> m \in DOMAIN ls \ kept /\ m[2] = 0
  BY DEF LoopsOK
<1>2. Ordered(ls, n)
  BY DEF LoopsOK
<1>3. ASSUME NEW m \in D, NEW s \in Siblings(ls, m)
      PROVE  s \in DOMAIN ls /\ s \notin kept /\ FlatOf(ls, s) = ls[s].calls
  <2>1. s \in DOMAIN ls /\ s[1] = m[1] /\ s[2] # 0
    BY DEF Siblings
  <2>2. m = <<m[1], 0>> /\ m \in DOMAIN ls
    <3>1. m \in Names(n) /\ m[2] = 0
      BY <1>1, <1>2 DEF Ordered
    <3>2. QED
      BY <1>1, <3>1, NamesFacts
  <2>3. s \notin kept
    BY <2>1, <2>2 DEF KeptOK
  <2>4. ls[s].subs = {}
    BY <2>1, <2>3 DEF Plain
  <2>5. FlatOf(ls, s) = ls[s].calls \cup UNION {FlatOf(ls, x) : x \in ls[s].subs}
    BY <1>2, <2>1, FlatAt
  <2>6. UNION {FlatOf(ls, x) : x \in ls[s].subs} = {}
    BY <2>4
  <2>7. QED
    BY <2>1, <2>3, <2>5, <2>6
<1>4. ASSUME NEW m \in D
      PROVE  c \in FlatOf(ls, m) <=> \E s \in Siblings(ls, m) : c \in ls[s].calls
  <2>1. ls[m].calls = {} /\ ls[m].subs = Siblings(ls, m)
    BY <1>1 DEF Plain
  <2>2. m \in DOMAIN ls
    BY <1>1
  <2>3. FlatOf(ls, m) = ls[m].calls \cup UNION {FlatOf(ls, x) : x \in ls[m].subs}
    BY <1>2, <2>2, FlatAt
  <2>4. c \in FlatOf(ls, m) <=> \E s \in Siblings(ls, m) : c \in FlatOf(ls, s)
    BY <2>1, <2>3
  <2>5. QED
    BY <1>3, <2>4
<1>5. c \in LostIn(ls, kept) <=> \E m \in D : c \in FlatOf(ls, m)
  BY DEF LostIn
<1> HIDE DEF D
<1>6. QED
  BY <1>1, <1>4, <1>5

LEMMA UnpushedNests ==
  ASSUME NEW n \in Nat, NEW calls, NEW ls, NEW cs, Unpushed(ls, cs, n, calls, calls)
  PROVE  Nesting(ls, KeptIn(cs), calls)
<1> DEFINE K == KeptIn(cs)
           N == K \cup UNION {ls[l].subs : l \in K}
<1>1. /\ LoopsOK(ls, n, calls) /\ KeptOK(ls, K) /\ Plain(ls, DOMAIN ls) /\ Filled(ls, K)
      /\ Partitioned(ls, calls) /\ \A l \in DOMAIN ls : ~ls[l].merged
      /\ Ordered(ls, n)
  BY DEF Unpushed, Unmerged, LoopsOK
<1> HIDE DEF K
<1>2. RootsIn(ls, K) = K
  BY <1>1 DEF RootsIn, KeptOK
<1>3. K \subseteq DOMAIN ls /\ \A l \in K : l[2] # 0 => <<l[1], 0>> \notin DOMAIN ls
  BY <1>1 DEF KeptOK
<1>4. \A l \in DOMAIN ls : l = <<l[1], l[2]>>
  <2>1. \A l \in DOMAIN ls : l \in Names(n)
    BY <1>1 DEF Ordered
  <2>2. QED
    BY <2>1, NamesFacts
<1>5. \A l \in DOMAIN ls : IF l[2] = 0 THEN ls[l].calls = {} /\ ls[l].subs = Siblings(ls, l)
                                       ELSE ls[l].subs = {}
  BY <1>1 DEF Plain
<1>6. ASSUME NEW x \in N \ K
      PROVE  /\ x \in DOMAIN ls /\ x[2] # 0
             /\ <<x[1], 0>> \in K /\ x \in ls[<<x[1], 0>>].subs
  <2>1. PICK l \in K : x \in ls[l].subs
    OBVIOUS
  <2>2. l \in DOMAIN ls /\ l[2] = 0 /\ x \in Siblings(ls, l)
    BY <1>3, <1>5, <2>1
  <2>3. x \in DOMAIN ls /\ x[1] = l[1] /\ x[2] # 0
    BY <2>2 DEF Siblings
  <2>4. l = <<x[1], 0>>
    BY <1>4, <2>2, <2>3
  <2>5. QED
    BY <2>1, <2>3, <2>4
<1>7. ASSUME NEW m \in DOMAIN ls, NEW x \in ls[m].subs
      PROVE  m = <<x[1], 0>> /\ x[2] # 0 /\ x \in DOMAIN ls /\ x \notin K
  <2>1. m[2] = 0 /\ x \in Siblings(ls, m)
    BY <1>5, <1>7
  <2>2. x \in DOMAIN ls /\ x[1] = m[1] /\ x[2] # 0
    BY <2>1 DEF Siblings
  <2>3. m = <<x[1], 0>>
    BY <1>4, <2>1, <2>2
  <2>4. QED
    BY <1>3, <2>2, <2>3
<1>8. \A x \in N : x \in DOMAIN ls
  BY <1>3, <1>6
<1>9. Least(ls, K, N)
  <2>1. Closed(ls, N)
    <3>1. ASSUME NEW x \in N
          PROVE  ls[x].subs \subseteq N
      <4>1. CASE x \in K
        BY <4>1
      <4>2. CASE x \notin K
        BY <1>5, <1>6, <4>2
      <4>3. QED
        BY <4>1, <4>2
    <3> HIDE DEF N
    <3>2. QED
      BY <3>1 DEF Closed
  <2>2. \A C \in SUBSET DOMAIN ls : K \subseteq C /\ Closed(ls, C) => N \subseteq C
    BY DEF Closed
  <2>3. K \subseteq N
    OBVIOUS
  <2>4. N \subseteq DOMAIN ls
    <3> HIDE DEF N
    <3>1. QED
      BY <1>8
  <2> HIDE DEF N
  <2>5. QED
    BY <2>1, <2>2, <2>3, <2>4 DEF Least
<1>10. NestOf(ls, K) = N
  <2>1. Least(ls, K, NestOf(ls, K))
    BY <1>1, <1>3, NestLeast
  <2> HIDE DEF N
  <2>2. QED
    BY <1>9, <2>1, LeastIsOne
<1>11. \A l \in K : l \in N
  OBVIOUS
<1>12. ASSUME NEW l \in K, NEW x \in ls[l].subs
       PROVE  x \in N
  OBVIOUS
<1> HIDE DEF N
<1>13. Tree(ls, K, N)
  <2>1. ASSUME NEW x \in N
        PROVE  IF x \in K THEN \A m \in N : x \notin ls[m].subs ELSE InOneOf(ls, N, x)
    <3>1. CASE x \in K
      BY <1>7, <1>8, <3>1
    <3>2. CASE x \notin K
      <4>1. <<x[1], 0>> \in N /\ x \in ls[<<x[1], 0>>].subs
        BY <1>6, <1>11, <3>2
      <4>2. \A q \in N : x \in ls[q].subs => q = <<x[1], 0>>
        BY <1>7, <1>8
      <4>3. QED
        BY <3>2, <4>1, <4>2 DEF InOneOf
    <3>3. QED
      BY <3>1, <3>2
  <2>2. QED
    BY <2>1 DEF Tree
<1>14. ASSUME NEW c \in calls
       PROVE  IF c \in LostIn(ls, K) THEN NotHeld(ls, N, c) ELSE HeldOnce(ls, N, c)
  <2>1. PICK h \in DOMAIN ls : c \in ls[h].calls
    BY <1>1 DEF Partitioned
  <2>2. \A m \in DOMAIN ls : c \in ls[m].calls => m = h
    BY <1>1, <2>1 DEF Partitioned
  <2>3. h[2] # 0
    BY <1>5, <2>1
  <2>4. Plain(ls, DOMAIN ls \ K)
    BY <1>5 DEF Plain
  <2>5. c \in LostIn(ls, K) <=>
          \E m \in DOMAIN ls \ K : m[2] = 0 /\ \E s \in Siblings(ls, m) : c \in ls[s].calls
    BY <1>1, <2>4, LostAre
  <2>6. CASE c \in LostIn(ls, K)
    <3>1. PICK m \in DOMAIN ls \ K : m[2] = 0 /\ \E s \in Siblings(ls, m) : c \in ls[s].calls
      BY <2>5, <2>6
    <3>2. h \in Siblings(ls, m)
      BY <2>2, <3>1 DEF Siblings
    <3>3. h[1] = m[1] /\ m = <<h[1], 0>>
      BY <1>4, <3>1, <3>2 DEF Siblings
    <3>4. h \notin K
      BY <1>3, <2>3, <3>3
    <3>5. h \notin N
      BY <1>6, <3>1, <3>3, <3>4
    <3>6. NotHeld(ls, N, c)
      BY <1>8, <2>2, <3>5 DEF NotHeld
    <3>7. QED
      BY <2>6, <3>6
  <2>7. CASE c \notin LostIn(ls, K)
    <3>1. h \in N
      <4>1. CASE <<h[1], 0>> \in DOMAIN ls
        <5> DEFINE m == <<h[1], 0>>
        <5>1. h \in Siblings(ls, m) /\ m[2] = 0
          BY <2>3 DEF Siblings
        <5> HIDE DEF m
        <5>2. m \in K
          BY <2>1, <2>5, <2>7, <4>1, <5>1 DEF m
        <5>3. h \in ls[m].subs
          BY <1>3, <1>5, <5>1, <5>2
        <5>4. QED
          BY <1>12, <5>2, <5>3
      <4>2. CASE <<h[1], 0>> \notin DOMAIN ls
        <5>1. h \in K
          BY <1>1, <2>1, <2>3, <4>2 DEF Filled
        <5>2. QED
          BY <1>11, <5>1
      <4>3. QED
        BY <4>1, <4>2
    <3>2. HeldOnce(ls, N, c)
      BY <1>8, <2>1, <2>2, <3>1 DEF HeldOnce
    <3>3. QED
      BY <2>7, <3>2
  <2>8. QED
    BY <2>6, <2>7
<1>15. Nesting(ls, K, calls)
  BY <1>2, <1>10, <1>13, <1>14 DEF Nesting
<1>16. QED
  BY <1>15 DEF K

-----------------------------------------------------------------------------
(* A loop is merged into another one.                                        *)

LEMMA MergedLoop ==
  ASSUME NEW C, NEW D, NEW cs \in SUBSET C, NEW ss \in SUBSET D,
         NEW o \in [calls : SUBSET C, subs : SUBSET D, iterations : Nat \ {0},
                    divided : Nat \ {0}, original : Nat \ {0}, hidden : BOOLEAN,
                    merged : BOOLEAN, run : Nat, gap : Nat]
  PROVE  /\ [o EXCEPT !.calls = cs, !.subs = ss] \in
              [calls : SUBSET C, subs : SUBSET D, iterations : Nat \ {0},
               divided : Nat \ {0}, original : Nat \ {0}, hidden : BOOLEAN,
               merged : BOOLEAN, run : Nat, gap : Nat]
         /\ [o EXCEPT !.calls = cs, !.subs = ss].calls = cs
         /\ [o EXCEPT !.calls = cs, !.subs = ss].subs = ss
         /\ [o EXCEPT !.calls = cs, !.subs = ss].hidden = o.hidden
         /\ [o EXCEPT !.calls = cs, !.subs = ss].merged = o.merged
OBVIOUS

(* What merge_with_subloop makes of the loop objects. *)
LEMMA MergeChanges ==
  ASSUME NEW n \in Nat, NEW calls, LoopsOK(loops, n, calls),
         NEW l \in DOMAIN loops, NEW o \in DOMAIN loops, l # o,
         NEW ls2, ls2 = merge_with_subloop(l, o)
  PROVE  /\ DOMAIN ls2 = DOMAIN loops
         /\ Joined(loops, ls2, l, o) \/ Nested(loops, ls2, l, o)
         /\ \A x \in DOMAIN loops \ {l, o} : ls2[x] = loops[x]
         /\ ls2[o].merged /\ ls2[l].merged = loops[l].merged
         /\ \A x \in DOMAIN loops : ls2[x] \in LoopTypeOf(ls2, calls)
                                    /\ ls2[x].hidden = loops[x].hidden
<1>1. /\ loops[l] \in LoopTypeOf(loops, calls) /\ loops[o] \in LoopTypeOf(loops, calls)
      /\ \A x \in DOMAIN loops : loops[x] \in LoopTypeOf(loops, calls)
  BY DEF LoopsOK
<1>2. CASE loops[l].iterations = loops[o].iterations
  <2>1. ls2 = [loops EXCEPT ![l].calls = @ \cup loops[o].calls,
                            ![l].subs  = @ \cup loops[o].subs,
                            ![o].merged = TRUE]
    BY <1>2 DEF merge_with_subloop
  <2>2. /\ DOMAIN ls2 = DOMAIN loops
        /\ ls2[l] = [loops[l] EXCEPT !.calls = loops[l].calls \cup loops[o].calls,
                                     !.subs = loops[l].subs \cup loops[o].subs]
        /\ ls2[o] = [loops[o] EXCEPT !.merged = TRUE]
        /\ \A x \in DOMAIN loops \ {l, o} : ls2[x] = loops[x]
    BY <2>1
  <2>3. /\ ls2[l] \in LoopTypeOf(loops, calls) /\ ls2[l].merged = loops[l].merged
        /\ ls2[l].calls = loops[l].calls \cup loops[o].calls
        /\ ls2[l].subs = loops[l].subs \cup loops[o].subs
        /\ ls2[l].hidden = loops[l].hidden
    <3> DEFINE cs == loops[l].calls \cup loops[o].calls
               ss == loops[l].subs \cup loops[o].subs
    <3>1. cs \in SUBSET calls /\ ss \in SUBSET DOMAIN loops
      BY <1>1 DEF LoopTypeOf
    <3>2. ls2[l] = [loops[l] EXCEPT !.calls = cs, !.subs = ss]
      BY <2>2
    <3> HIDE DEF cs, ss
    <3>3. /\ ls2[l] \in LoopTypeOf(loops, calls) /\ ls2[l].merged = loops[l].merged
          /\ ls2[l].calls = cs /\ ls2[l].subs = ss /\ ls2[l].hidden = loops[l].hidden
      <4> DEFINE x == [loops[l] EXCEPT !.calls = cs, !.subs = ss]
      <4>1. loops[l] \in LoopTypeOf(loops, calls)
        BY <1>1
      <4>2. /\ x \in LoopTypeOf(loops, calls) /\ x.merged = loops[l].merged
            /\ x.calls = cs /\ x.subs = ss /\ x.hidden = loops[l].hidden
        BY <3>1, <4>1, MergedLoop, Zenon DEF LoopTypeOf
      <4> HIDE DEF x
      <4>3. ls2[l] = x
        BY <3>2 DEF x
      <4>4. QED
        BY <4>2, <4>3
    <3>4. QED
      BY <3>3 DEF cs, ss
  <2>4. /\ ls2[o] \in LoopTypeOf(loops, calls) /\ ls2[o].merged
        /\ ls2[o].calls = loops[o].calls /\ ls2[o].subs = loops[o].subs
        /\ ls2[o].hidden = loops[o].hidden
    BY <1>1, <2>2 DEF LoopTypeOf
  <2>5. \A x \in DOMAIN loops : ls2[x] \in LoopTypeOf(loops, calls)
                                /\ ls2[x].hidden = loops[x].hidden
    BY <1>1, <2>2, <2>3, <2>4
  <2>6. LoopTypeOf(ls2, calls) = LoopTypeOf(loops, calls)
    BY <2>2 DEF LoopTypeOf
  <2>7. Joined(loops, ls2, l, o)
    BY <2>2, <2>3, <2>4 DEF Joined
  <2>8. QED
    BY <2>2, <2>3, <2>4, <2>5, <2>6, <2>7
<1>3. CASE loops[l].iterations # loops[o].iterations
  <2>1. ls2 = [loops EXCEPT ![l].subs    = @ \cup {o},
                            ![o].divided = loops[l].iterations,
                            ![o].merged  = TRUE]
    BY <1>3 DEF merge_with_subloop
  <2>2. /\ DOMAIN ls2 = DOMAIN loops
        /\ ls2[l] = [loops[l] EXCEPT !.subs = loops[l].subs \cup {o}]
        /\ ls2[o] = [loops[o] EXCEPT !.divided = loops[l].iterations, !.merged = TRUE]
        /\ \A x \in DOMAIN loops \ {l, o} : ls2[x] = loops[x]
    BY <2>1
  <2>3. /\ ls2[l] \in LoopTypeOf(loops, calls) /\ ls2[l].merged = loops[l].merged
        /\ ls2[l].calls = loops[l].calls
        /\ ls2[l].subs = loops[l].subs \cup {o}
        /\ ls2[l].hidden = loops[l].hidden
    BY <1>1, <2>2 DEF LoopTypeOf
  <2>4. /\ ls2[o] \in LoopTypeOf(loops, calls) /\ ls2[o].merged
        /\ ls2[o].calls = loops[o].calls /\ ls2[o].subs = loops[o].subs
        /\ ls2[o].hidden = loops[o].hidden
    BY <1>1, <2>2 DEF LoopTypeOf
  <2>5. \A x \in DOMAIN loops : ls2[x] \in LoopTypeOf(loops, calls)
                                /\ ls2[x].hidden = loops[x].hidden
    BY <1>1, <2>2, <2>3, <2>4
  <2>6. LoopTypeOf(ls2, calls) = LoopTypeOf(loops, calls)
    BY <2>2 DEF LoopTypeOf
  <2>7. Nested(loops, ls2, l, o)
    BY <2>2, <2>3, <2>4 DEF Nested
  <2>8. QED
    BY <2>2, <2>3, <2>4, <2>5, <2>6, <2>7
<1>4. QED
  BY <1>2, <1>3

LEMMA MergedNests ==
  ASSUME NEW n \in Nat, NEW calls, NEW ls, LoopsOK(ls, n, calls),
         NEW kept, KeptOK(ls, kept), Plain(ls, DOMAIN ls \ kept), Nesting(ls, kept, calls),
         NEW l \in kept, NEW o \in kept, ~ls[l].merged, ~ls[o].merged, Rank(o) < Rank(l),
         NEW ls2, Joined(ls, ls2, l, o) \/ Nested(ls, ls2, l, o),
         \A x \in DOMAIN ls \ {l, o} : ls2[x] = ls[x],
         ls2[o].merged, ls2[l].merged = ls[l].merged,
         \A x \in DOMAIN ls : ls2[x] \in LoopTypeOf(ls2, calls) /\ ls2[x].hidden = ls[x].hidden
  PROVE  /\ LoopsOK(ls2, n, calls)
         /\ KeptOK(ls2, kept)
         /\ Plain(ls2, DOMAIN ls2 \ kept)
         /\ Nesting(ls2, kept, calls)
<1> DEFINE tops == RootsIn(ls, kept)
           N    == NestOf(ls, tops)
           N2   == NestOf(ls2, tops \ {o})
<1>1. /\ DOMAIN ls2 = DOMAIN ls /\ kept \subseteq DOMAIN ls
      /\ Ordered(ls, n) /\ DOMAIN ls \subseteq Names(n)
  BY DEF Joined, Nested, KeptOK, LoopsOK, Ordered
<1>2. \A x \in DOMAIN ls : Rank(x) \in Nat
  BY <1>1, RankType
<1>3. l # o /\ l \in DOMAIN ls /\ o \in DOMAIN ls
  BY <1>1, <1>2
<1>4. Ordered(ls2, n)
  <2>1. ASSUME NEW x \in DOMAIN ls
        PROVE  ls2[x].subs \subseteq DOMAIN ls /\ \A s \in ls2[x].subs : Rank(s) < Rank(x)
    <3>1. \A y \in DOMAIN ls : ls[y].subs \subseteq DOMAIN ls /\ \A s \in ls[y].subs : Rank(s) < Rank(y)
      BY <1>1 DEF Ordered
    <3>2. \A s \in ls[o].subs : Rank(s) < Rank(l)
      <4> SUFFICES ASSUME NEW s \in ls[o].subs
                   PROVE  Rank(s) < Rank(l)
        OBVIOUS
      <4>1. Rank(s) < Rank(o) /\ s \in DOMAIN ls
        BY <1>3, <3>1
      <4>2. QED
        BY <1>2, <1>3, <4>1
    <3>3. CASE x # l
      BY <3>1, <3>3 DEF Joined, Nested
    <3>4. CASE x = l
      <4>1. ls2[l].subs \subseteq ls[l].subs \cup ls[o].subs \cup {o}
        BY DEF Joined, Nested
      <4>2. QED
        BY <1>3, <3>1, <3>2, <3>4, <4>1
    <3>5. QED
      BY <3>3, <3>4
  <2>2. QED
    BY <1>1, <2>1 DEF Ordered
<1>5. LoopsOK(ls2, n, calls)
  BY <1>1, <1>4 DEF LoopsOK
<1>6. KeptOK(ls2, kept)
  BY <1>1 DEF KeptOK
<1>7. \A x : Siblings(ls2, x) = Siblings(ls, x)
  BY <1>1 DEF Siblings
<1>8. \A x \in DOMAIN ls \ kept : ls2[x] = ls[x]
  OBVIOUS
<1>9. Plain(ls2, DOMAIN ls2 \ kept)
  BY <1>1, <1>7, <1>8 DEF Plain
<1>10. RootsIn(ls2, kept) = tops \ {o}
  <2>1. \A x \in kept : x # l /\ x # o => ls2[x] = ls[x]
    BY <1>1
  <2>2. QED
    BY <2>1 DEF RootsIn
<1>11. l \in tops /\ o \in tops /\ tops \in SUBSET DOMAIN ls
  BY <1>1 DEF RootsIn
<1>12. Tree(ls, tops, N)
       /\ \A c \in calls : IF c \in LostIn(ls, kept) THEN NotHeld(ls, N, c) ELSE HeldOnce(ls, N, c)
  BY Zenon DEF Nesting
<1> HIDE DEF tops
<1>13. Least(ls, tops, N)
  BY <1>1, <1>11, NestLeast
<1>14. Least(ls2, tops \ {o}, N2)
  <2>1. tops \ {o} \in SUBSET DOMAIN ls2
    BY <1>1, <1>11
  <2>2. QED
    BY <1>4, <2>1, NestLeast
<1>15. N \in SUBSET DOMAIN ls /\ l \in N /\ o \in N
  BY <1>11, <1>13 DEF Least
<1> HIDE DEF N, N2
<1>16. ASSUME NEW c
       PROVE  c \in LostIn(ls2, kept) <=> c \in LostIn(ls, kept)
  <2>1. c \in LostIn(ls, kept) <=>
          \E m \in DOMAIN ls \ kept : m[2] = 0 /\ \E s \in Siblings(ls, m) : c \in ls[s].calls
    BY LostAre
  <2>2. c \in LostIn(ls2, kept) <=>
          \E m \in DOMAIN ls2 \ kept : m[2] = 0 /\ \E s \in Siblings(ls2, m) : c \in ls2[s].calls
    BY <1>5, <1>6, <1>9, LostAre
  <2>3. ASSUME NEW m \in DOMAIN ls \ kept, m[2] = 0, NEW s \in Siblings(ls, m)
        PROVE  ls2[s] = ls[s]
    <3>1. s \in DOMAIN ls /\ s[1] = m[1] /\ s[2] # 0
      BY DEF Siblings
    <3>2. m = <<s[1], 0>>
      BY <1>1, <2>3, <3>1, NamesFacts
    <3>3. s \notin kept
      BY <3>1, <3>2 DEF KeptOK
    <3>4. QED
      BY <1>8, <3>1, <3>3
  <2>4. QED
    BY <1>1, <1>7, <2>1, <2>2, <2>3
<1>17. CASE Joined(ls, ls2, l, o)
  <2>1. N2 = N \ {o}
    BY <1>1, <1>3, <1>11, <1>12, <1>13, <1>14, <1>17, JoinedNest
  <2>2. Tree(ls2, tops \ {o}, N \ {o})
    BY <1>1, <1>3, <1>11, <1>12, <1>13, <1>17, JoinedTree
  <2>3. \A c : /\ HeldOnce(ls, N, c) => HeldOnce(ls2, N \ {o}, c)
               /\ NotHeld(ls, N, c) => NotHeld(ls2, N \ {o}, c)
    BY <1>3, <1>15, <1>17, JoinedHeld
  <2>4. \A c \in calls : IF c \in LostIn(ls2, kept) THEN NotHeld(ls2, N2, c) ELSE HeldOnce(ls2, N2, c)
    BY <1>12, <1>16, <2>1, <2>3
  <2>5. Nesting(ls2, kept, calls)
    BY <1>10, <2>1, <2>2, <2>4 DEF Nesting, N2
  <2>6. QED
    BY <1>5, <1>6, <1>9, <2>5
<1>18. CASE Nested(ls, ls2, l, o)
  <2>1. N2 = N
    BY <1>3, <1>11, <1>13, <1>14, <1>18, NestedNest
  <2>2. Tree(ls2, tops \ {o}, N)
    BY <1>3, <1>11, <1>12, <1>13, <1>18, NestedTree
  <2>3. \A x \in N : ls2[x].calls = ls[x].calls
    BY <1>15, <1>18 DEF Nested
  <2>4. \A c : /\ HeldOnce(ls, N, c) => HeldOnce(ls2, N, c)
               /\ NotHeld(ls, N, c) => NotHeld(ls2, N, c)
    BY <2>3 DEF HeldOnce, NotHeld
  <2>5. \A c \in calls : IF c \in LostIn(ls2, kept) THEN NotHeld(ls2, N2, c) ELSE HeldOnce(ls2, N2, c)
    BY <1>12, <1>16, <2>1, <2>4
  <2>6. Nesting(ls2, kept, calls)
    BY <1>10, <2>1, <2>2, <2>5 DEF Nesting, N2
  <2>7. QED
    BY <1>5, <1>6, <1>9, <2>6
<1>19. QED
  BY <1>17, <1>18

-----------------------------------------------------------------------------
(* Every step keeps the invariant.                                           *)

LEMMA InputOfInv ==
  ASSUME Inv
  PROVE  InputFacts(program, instants, members)
BY InputIsSound DEF Inv

LEMMA KeptIs == Kept = KeptIn(clusters)
BY DEF Kept, KeptIn

LEMMA InitInv == Init => Inv
<1> SUFFICES ASSUME Init
             PROVE  Inv
  OBVIOUS
<1>1. /\ program \in Programs /\ instants = Executed(program)
      /\ members = SortedClusters(program, instants)
      /\ loops = <<>> /\ clusters = <<>> /\ phase = "generate" /\ i = 1 /\ j = 0
      /\ a = 1 /\ b = 1
  BY DEF Init
<1>2. InputFacts(program, instants, members)
  BY <1>1, InputIsSound
<1>3. Len(members) \in Nat /\ Len(members) >= 1
  BY <1>2 DEF InputFacts
<1>4. DOMAIN loops = {} /\ DOMAIN clusters = {}
  BY <1>1
<1>5. KeptIn(clusters) = {}
  BY <1>4 DEF KeptIn
<1>6. LoopsOK(loops, Len(members), Calls(program)) /\ KeptOK(loops, KeptIn(clusters))
  BY <1>4, <1>5 DEF LoopsOK, Ordered, KeptOK
<1>7. clusters \in Seq(Seq(Names(Len(members)))) /\ Len(clusters) = 0
  BY <1>1
<1>8. Made = 0
  BY <1>1 DEF Made
<1>9. Unmerged(loops, 0, clusters)
  BY <1>4, <1>5, <1>7 DEF Unmerged, Plain, Filled
<1>10. Partitioned(loops, UNION {members[k] : k \in 1 .. Made})
  <2>1. UNION {members[k] : k \in 1 .. 0} = {}
    OBVIOUS
  <2>2. Partitioned(loops, {})
    BY <1>4 DEF Partitioned
  <2>3. QED
    BY <1>8, <2>1, <2>2
<1>11. KeptOK(loops, Kept)
  BY <1>6, KeptIs
<1>12. QED
  BY <1>1, <1>3, <1>6, <1>7, <1>8, <1>9, <1>10, <1>11 DEF Inv

LEMMA GenerateInv == Inv /\ Generate => Inv'
<1> SUFFICES ASSUME Inv, Generate
             PROVE  Inv'
  OBVIOUS
<1> DEFINE n   == Len(members)
           gen == Generated(i, members[i])
           q   == Standing(i, gen)
           old == UNION {members[k] : k \in 1 .. i - 1}
<1>1. /\ phase = "generate" /\ i <= n
      /\ loops' = Extended(loops, i, gen)
      /\ clusters' = Append(clusters, q)
      /\ i' = i + 1
      /\ UNCHANGED <<program, instants, members, phase, j, a, b>>
  BY Zenon DEF Generate, Added, Extended, Standing
<1>2. InputFacts(program, instants, members)
  BY InputOfInv
<1>3. /\ Calls(program) \subseteq Nat /\ IsFiniteSet(Calls(program))
      /\ \A c \in Calls(program) : instants[c] \subseteq Nat /\ IsFiniteSet(instants[c])
                                    /\ instants[c] # {}
      /\ n \in Nat /\ n >= 1
      /\ UNION {members[k] : k \in 1 .. n} = Calls(program)
      /\ \A k \in 1 .. n : members[k] # {} /\ members[k] \subseteq Calls(program)
      /\ \A k, m \in 1 .. n : k # m => members[k] \cap members[m] = {}
      /\ \A k \in 1 .. n : Divides(Subloops(members[k], instants), members[k])
  BY <1>2 DEF InputFacts
<1>4. i \in Nat /\ i >= 1 /\ i \in 1 .. n /\ Made = i - 1
  BY <1>1, <1>3 DEF Inv, Made
<1>5. MakesLoops(gen, i, members[i])
  <2>1. /\ members[i] \subseteq Nat /\ members[i] # {}
        /\ Divides(Subloops(members[i], instants), members[i])
        /\ \A c \in members[i] : instants[c] \subseteq Nat /\ IsFiniteSet(instants[c])
                                 /\ instants[c] # {}
    BY <1>3, <1>4
  <2>2. IsFiniteSet(members[i])
    BY <1>3, <1>4, FS_Subset
  <2> HIDE DEF gen
  <2>3. QED
    BY <2>1, <2>2, GeneratedFacts DEF gen
<1>6. members[i] \in SUBSET Calls(program) /\ old \in SUBSET Calls(program)
      /\ members[i] \cap old = {}
  <2>1. \A k \in 1 .. i - 1 : k \in 1 .. n /\ k # i
    BY <1>3, <1>4
  <2>2. \A k \in 1 .. i - 1 : members[k] \subseteq Calls(program) /\ members[i] \cap members[k] = {}
    BY <1>3, <1>4, <2>1
  <2>3. QED
    BY <1>3, <1>4, <2>2
<1>7. /\ LoopsOK(loops, n, Calls(program)) /\ clusters \in Seq(Seq(Names(n)))
      /\ KeptOK(loops, KeptIn(clusters)) /\ Unmerged(loops, i - 1, clusters)
      /\ Partitioned(loops, old)
      /\ a = 1 /\ b = 1 /\ j \in Nat
  BY <1>1, <1>4, KeptIs DEF Inv
<1> HIDE DEF gen, old, q, n
<1>8. q = Standing(i, gen)
  BY DEF q
<1>9. /\ LoopsOK(loops', n, Calls(program))
      /\ Append(clusters, q) \in Seq(Seq(Names(n)))
      /\ KeptOK(loops', KeptIn(Append(clusters, q)))
      /\ Unmerged(loops', i, Append(clusters, q))
      /\ Partitioned(loops', old \cup members[i])
  <2>1. n \in Nat /\ i \in 1 .. n
    BY <1>3, <1>4
  <2>2. members[i] \in SUBSET Calls(program)
    BY <1>6
  <2>3. old \in SUBSET Calls(program)
    BY <1>6
  <2>4. members[i] \cap old = {}
    BY <1>6
  <2>5. MakesLoops(gen, i, members[i]) /\ loops' = Extended(loops, i, gen)
    BY <1>1, <1>5
  <2>6. QED
    BY <1>7, <1>8, <2>1, <2>2, <2>3, <2>4, <2>5, AddedLoops, Zenon
<1>10. Made' = i /\ n' = n
  BY <1>1, <1>4 DEF Made, n
<1>11. UNION {members[k] : k \in 1 .. i} = old \cup members[i]
  <2>1. \A k \in 1 .. i : k \in 1 .. i - 1 \/ k = i
    BY <1>4
  <2>2. \A k \in 1 .. i - 1 : k \in 1 .. i
    BY <1>4
  <2>3. i \in 1 .. i
    BY <1>4
  <2>4. QED
    BY <2>1, <2>2, <2>3 DEF old
<1>12. (Kept = KeptIn(clusters))'
  BY KeptIs DEF Kept, KeptIn
<1>13. (UNION {members[k] : k \in 1 .. Made})' = old \cup members[i]
  BY <1>1, <1>10, <1>11
<1>14. /\ LoopsOK(loops, Len(members), Calls(program))'
       /\ (clusters \in Seq(Seq(Names(Len(members)))))'
       /\ KeptOK(loops, Kept)'
       /\ Unmerged(loops, Made, clusters)'
       /\ Partitioned(loops, UNION {members[k] : k \in 1 .. Made})'
  BY <1>1, <1>9, <1>10, <1>12, <1>13 DEF n
<1>15. (i \in Nat /\ j \in Nat /\ i >= 1 /\ i <= Len(members) + 1)'
  BY <1>1, <1>3, <1>4, <1>7 DEF n
<1>16. (program \in Programs /\ instants = Executed(program)
          /\ members = SortedClusters(program, instants) /\ phase = "generate"
          /\ a = 1 /\ b = 1)'
  BY <1>1, <1>7 DEF Inv
<1>17. QED
  BY <1>14, <1>15, <1>16 DEF Inv

LEMMA EndGenerateInv == Inv /\ EndGenerate => Inv'
<1> SUFFICES ASSUME Inv, EndGenerate
             PROVE  Inv'
  OBVIOUS
<1>1. /\ phase = "generate" /\ i > Len(members) /\ phase' = "push"
      /\ i' = Len(clusters) /\ j' = Len(clusters) - 1
      /\ UNCHANGED <<program, instants, members, loops, clusters, a, b>>
  BY DEF EndGenerate
<1>2. Len(members) \in Nat /\ Len(members) >= 1
  BY InputOfInv DEF InputFacts
<1>3. i = Len(members) + 1 /\ Made = Len(members) /\ Made' = Len(members)
  BY <1>1, <1>2 DEF Inv, Made
<1>4. Len(clusters) = Len(members)
  BY <1>1, <1>3 DEF Inv, Unmerged
<1>5. Kept' = Kept
  BY <1>1 DEF Kept
<1>6. /\ LoopsOK(loops, Len(members), Calls(program))'
      /\ (clusters \in Seq(Seq(Names(Len(members)))))'
      /\ KeptOK(loops, Kept)'
  BY <1>1, <1>5 DEF Inv
<1>7. /\ Unmerged(loops, Made, clusters)'
      /\ Partitioned(loops, UNION {members[k] : k \in 1 .. Made})'
  BY <1>1, <1>3 DEF Inv
<1>8. (i \in 1 .. Len(clusters) /\ j \in 0 .. i - 1 /\ (i >= 2 => j >= 1)
         /\ i \in Nat /\ j \in Nat /\ i >= 1)'
  BY <1>1, <1>2, <1>4
<1>9. (program \in Programs /\ instants = Executed(program)
         /\ members = SortedClusters(program, instants) /\ phase = "push" /\ a = 1 /\ b = 1)'
  BY <1>1 DEF Inv
<1>10. QED
  BY <1>6, <1>7, <1>8, <1>9 DEF Inv

(* Between the generation of the loops and their merging. *)
LEMMA InvUnpushed ==
  ASSUME Inv, phase = "push"
  PROVE  /\ Unpushed(loops, clusters, Len(members), Calls(program), Calls(program))
         /\ Calls(program) \in SUBSET Nat /\ Len(members) \in Nat
         /\ Len(clusters) = Len(members) /\ a = 1 /\ b = 1
<1>1. UNION {members[k] : k \in 1 .. Len(members)} = Calls(program) /\ Len(members) \in Nat
      /\ Calls(program) \in SUBSET Nat
  BY InputOfInv DEF InputFacts
<1>2. Made = Len(members)
  BY DEF Made
<1>3. /\ Unmerged(loops, Len(members), clusters)
      /\ Partitioned(loops, Calls(program)) /\ a = 1 /\ b = 1
  BY <1>1, <1>2 DEF Inv
<1>4. KeptOK(loops, KeptIn(clusters)) /\ LoopsOK(loops, Len(members), Calls(program))
      /\ clusters \in Seq(Seq(Names(Len(members))))
  BY KeptIs DEF Inv
<1>5. QED
  BY <1>1, <1>3, <1>4 DEF Unpushed, Unmerged

LEMMA PushStepInv == Inv /\ PushStep => Inv'
<1> SUFFICES ASSUME Inv, PushStep
             PROVE  Inv'
  OBVIOUS
<1> DEFINE n == Len(members)
<1>1. /\ phase = "push" /\ i >= 2 /\ loops' = Pushed /\ clusters' = Cleared
      /\ UNCHANGED <<program, instants, members, phase, a, b>>
  BY Zenon DEF PushStep, Cleared
<1>2. /\ Unpushed(loops, clusters, n, Calls(program), Calls(program))
      /\ Calls(program) \in SUBSET Nat /\ n \in Nat
      /\ Len(clusters) = n /\ a = 1 /\ b = 1
  BY <1>1, InvUnpushed
<1>3. i \in 1 .. n /\ j \in 0 .. i - 1 /\ j >= 1
  BY <1>1, <1>2 DEF Inv
<1>4. j \in 1 .. n /\ i # j
  BY <1>2, <1>3
<1> HIDE DEF n
<1>5. Unpushed(loops', clusters', n, Calls(program), Calls(program))
  <2>1. Unpushed(Pushed, Cleared, n, Calls(program), Calls(program))
    BY <1>2, <1>3, <1>4, PushedLoops
  <2>2. QED
    BY <1>1, <2>1
<1>6. (i' = i - 1 /\ j' = i - 2) \/ (j' = j - 1 /\ i' = i /\ j # 1)
  BY DEF PushStep
<1>7. Len(clusters') = n /\ n' = n /\ Made' = n
  BY <1>1, <1>5 DEF Unpushed, Unmerged, Made, n
<1>8. (i \in 1 .. Len(clusters) /\ j \in 0 .. i - 1 /\ (i >= 2 => j >= 1)
         /\ i \in Nat /\ j \in Nat /\ i >= 1)'
  BY <1>1, <1>2, <1>3, <1>6, <1>7
<1>9. (Kept = KeptIn(clusters))'
  BY DEF Kept, KeptIn
<1>10. UNION {members[k] : k \in 1 .. n} = Calls(program)
  BY InputOfInv DEF InputFacts, n
<1>11. (UNION {members[k] : k \in 1 .. Made})' = Calls(program)
  BY <1>1, <1>7, <1>10
<1>12. /\ LoopsOK(loops, Len(members), Calls(program))'
       /\ (clusters \in Seq(Seq(Names(Len(members)))))'
       /\ KeptOK(loops, Kept)'
       /\ Unmerged(loops, Made, clusters)'
       /\ Partitioned(loops, UNION {members[k] : k \in 1 .. Made})'
  BY <1>1, <1>5, <1>7, <1>9, <1>11 DEF Unpushed, n
<1>13. (program \in Programs /\ instants = Executed(program)
          /\ members = SortedClusters(program, instants) /\ phase = "push" /\ a = 1 /\ b = 1)'
  BY <1>1, <1>2 DEF Inv
<1>14. QED
  BY <1>8, <1>12, <1>13 DEF Inv

LEMMA NotEmptyHasFirst ==
  ASSUME NEW A, NEW s \in Seq(A), s # <<>>
  PROVE  1 \in DOMAIN s
<1>1. Len(s) # 0 /\ Len(s) \in Nat /\ DOMAIN s = 1 .. Len(s)
  BY EmptySeq, LenProperties
<1>2. QED
  BY <1>1

LEMMA EndPushInv == Inv /\ EndPush => Inv'
<1> SUFFICES ASSUME Inv, EndPush
             PROVE  Inv'
  OBVIOUS
<1> DEFINE n == Len(members)
           F == Range(clusters) \ {<<>>}
<1>1. /\ phase = "push" /\ phase' = "merge" /\ clusters' = Only(clusters, F)
      /\ i' = 1 /\ j' = 2
      /\ UNCHANGED <<program, instants, members, loops, a, b>>
  BY DEF EndPush
<1>2. /\ Unpushed(loops, clusters, n, Calls(program), Calls(program))
      /\ n \in Nat /\ Len(clusters) = n /\ a = 1 /\ b = 1
  BY <1>1, InvUnpushed
<1> HIDE DEF n, F
<1>3. /\ LoopsOK(loops, n, Calls(program)) /\ clusters \in Seq(Seq(Names(n)))
      /\ KeptOK(loops, KeptIn(clusters)) /\ Plain(loops, DOMAIN loops)
      /\ \A l \in DOMAIN loops : ~loops[l].merged
      /\ DOMAIN clusters = 1 .. n
  BY <1>2, LenProperties DEF Unpushed, Unmerged
<1>4. \A k \in 1 .. n : \A l \in Range(clusters[k]) : l[1] = k
  BY <1>2 DEF Unpushed, Unmerged
<1>5. Picked(clusters', clusters, F, Seq(Names(n)))
  BY <1>1, <1>3, OnlyFacts
<1>6. clusters' \in Seq(Seq(Names(n))) /\ Range(clusters') = Range(clusters) \ {<<>>}
  BY <1>5 DEF Picked, F
<1>7. Len(clusters') \in Nat /\ DOMAIN clusters' = 1 .. Len(clusters')
  BY <1>6, LenProperties
<1>8. KeptIn(clusters') = KeptIn(clusters)
  <2>1. \A l : l \in KeptIn(clusters) <=> \E x \in Range(clusters) : l \in Range(x)
    BY DEF KeptIn, Range
  <2>2. \A l : l \in KeptIn(clusters') <=> \E x \in Range(clusters') : l \in Range(x)
    BY DEF KeptIn, Range
  <2>3. Range(<<>>) = {}
    BY DEF Range
  <2>4. QED
    BY <1>6, <2>1, <2>2, <2>3
<1>9. \A k \in DOMAIN clusters' : clusters'[k] # <<>> /\ clusters'[k] \in Seq(Names(n))
  <2>1. \A k \in DOMAIN clusters' : clusters'[k] \in Range(clusters')
    BY DEF Range
  <2>2. QED
    BY <1>6, <1>7, <2>1, ElementOfSeq
<1>10. PICK f : PartOf(clusters', clusters, f)
  BY <1>5 DEF Picked
<1>11. ASSUME NEW k \in DOMAIN clusters', NEW m \in DOMAIN clusters', k < m,
              NEW x \in Range(clusters'[k]), NEW y \in Range(clusters'[m])
       PROVE  x[1] < y[1]
  <2>1. /\ f[k] \in 1 .. n /\ f[m] \in 1 .. n /\ f[k] < f[m]
        /\ clusters'[k] = clusters[f[k]] /\ clusters'[m] = clusters[f[m]]
    BY <1>2, <1>7, <1>10, <1>11 DEF PartOf
  <2>2. x[1] = f[k] /\ y[1] = f[m]
    BY <1>4, <2>1
  <2>3. QED
    BY <2>1, <2>2
<1>12. ASSUME NEW k \in DOMAIN clusters', NEW l \in Range(clusters'[k])
       PROVE  ~loops[l].merged
  <2>1. l \in KeptIn(clusters')
    BY DEF KeptIn
  <2>2. QED
    BY <1>3, <1>8, <2>1 DEF KeptOK
<1>13. Plain(loops, DOMAIN loops \ KeptIn(clusters'))
  BY <1>3 DEF Plain
<1>14. Merging(loops, clusters, i)'
  BY <1>1, <1>9, <1>11, <1>12, <1>13 DEF Merging
<1>15. Kept' = KeptIn(clusters)
  BY <1>8 DEF Kept, KeptIn
<1>16. Nesting(loops, KeptIn(clusters), Calls(program))
  BY <1>2, UnpushedNests
<1>17. /\ Nesting(loops, Kept, Calls(program))'
       /\ KeptOK(loops, Kept)'
       /\ LoopsOK(loops, Len(members), Calls(program))'
       /\ (clusters \in Seq(Seq(Names(Len(members)))))'
  BY <1>1, <1>3, <1>6, <1>15, <1>16 DEF n
<1>18. (i < Len(clusters) => /\ j \in i + 1 .. Len(clusters)
                             /\ a \in DOMAIN clusters[j] /\ b \in DOMAIN clusters[i])'
  <2> SUFFICES ASSUME 1 < Len(clusters')
               PROVE  /\ 2 \in 2 .. Len(clusters')
                      /\ 1 \in DOMAIN clusters'[2] /\ 1 \in DOMAIN clusters'[1]
    BY <1>1, <1>2
  <2>1. 1 \in DOMAIN clusters' /\ 2 \in DOMAIN clusters' /\ 2 \in 2 .. Len(clusters')
    BY <1>7
  <2>2. \A k \in DOMAIN clusters' : 1 \in DOMAIN clusters'[k]
    BY <1>9, NotEmptyHasFirst
  <2>3. QED
    BY <2>1, <2>2
<1>19. (program \in Programs /\ instants = Executed(program)
          /\ members = SortedClusters(program, instants) /\ phase = "merge"
          /\ i \in Nat /\ j \in Nat /\ i >= 1)'
  BY <1>1 DEF Inv
<1>20. QED
  BY <1>14, <1>17, <1>18, <1>19 DEF Inv

(* A loop of a later cluster has the higher rank.                            *)
LEMMA LaterRank ==
  ASSUME NEW l, NEW o, l[1] \in Nat, o[1] \in Nat, o[1] < l[1]
  PROVE  Rank(o) < Rank(l)
<1> DEFINE p == IF o[2] = 0 THEN 1 ELSE 0
           q == IF l[2] = 0 THEN 1 ELSE 0
<1>1. p \in 0 .. 1 /\ q \in 0 .. 1
  OBVIOUS
<1>2. Rank(o) = 2 * o[1] + p /\ Rank(l) = 2 * l[1] + q
  BY DEF Rank
<1> HIDE DEF p, q
<1>3. \A x, y \in Nat, u, v \in 0 .. 1 : x < y => 2 * x + u < 2 * y + v
  OBVIOUS
<1>4. QED
  BY <1>1, <1>2, <1>3

(* The loops at hand while clusters are merged: neither of them lies in      *)
(* another one yet, if the second one is not merged.                         *)
LEMMA PairAtHand ==
  ASSUME Inv, phase = "merge", i < Len(clusters),
         NEW l, l = clusters[j][a], NEW o, o = clusters[i][b]
  PROVE  /\ i \in DOMAIN clusters /\ j \in DOMAIN clusters /\ i < j
         /\ l \in Range(clusters[j]) /\ o \in Range(clusters[i])
         /\ l \in Kept /\ o \in Kept /\ l \in DOMAIN loops /\ o \in DOMAIN loops
         /\ ~loops[l].merged /\ l # o /\ Rank(o) < Rank(l)
<1>1. /\ Merging(loops, clusters, i) /\ KeptOK(loops, Kept)
      /\ j \in i + 1 .. Len(clusters) /\ a \in DOMAIN clusters[j] /\ b \in DOMAIN clusters[i]
      /\ i \in Nat /\ i >= 1
  BY DEF Inv
<1>2. Len(members) \in Nat
  BY InputOfInv DEF InputFacts
<1>3. Len(clusters) \in Nat /\ DOMAIN clusters = 1 .. Len(clusters)
  BY LenProperties DEF Inv
<1>4. i \in DOMAIN clusters /\ j \in DOMAIN clusters /\ i < j
  BY <1>1, <1>3
<1>5. l \in Range(clusters[j]) /\ o \in Range(clusters[i])
  BY <1>1 DEF Range
<1>6. l \in Kept /\ o \in Kept
  BY <1>4, <1>5 DEF Kept
<1>7. l \in DOMAIN loops /\ o \in DOMAIN loops
  BY <1>1, <1>6 DEF KeptOK
<1>8. ~loops[l].merged /\ o[1] < l[1]
  BY <1>1, <1>4, <1>5 DEF Merging
<1>9. l \in Names(Len(members)) /\ o \in Names(Len(members))
  BY <1>7 DEF Inv, LoopsOK, Ordered
<1>10. l[1] \in Nat /\ o[1] \in Nat
  BY <1>2, <1>9, NamesFacts
<1>11. Rank(o) < Rank(l)
  BY <1>8, <1>10, LaterRank
<1>12. QED
  BY <1>4, <1>5, <1>6, <1>7, <1>8, <1>10, <1>11

LEMMA NextOfLater ==
  ASSUME NEW n \in Nat, NEW x \in Nat, x >= 1, NEW y \in x + 1 .. n, y # n
  PROVE  /\ x \in 1 .. n /\ y + 1 \in Nat
         /\ y + 1 \in x + 1 .. n /\ y + 1 \in 1 .. n
OBVIOUS

LEMMA NextInList ==
  ASSUME NEW n \in Nat, NEW x \in 1 .. n, x < n
  PROVE  x + 1 \in 1 .. n
OBVIOUS

LEMMA NextPairInv ==
  ASSUME Inv, phase = "merge", i < Len(clusters), NextPair, clusters' = clusters
  PROVE  /\ i' \in Nat /\ i' >= i /\ j' \in Nat
         /\ i' < Len(clusters) => /\ j' \in i' + 1 .. Len(clusters)
                                  /\ a' \in DOMAIN clusters[j'] /\ b' \in DOMAIN clusters[i']
<1>1. /\ Merging(loops, clusters, i)
      /\ j \in i + 1 .. Len(clusters) /\ a \in DOMAIN clusters[j] /\ b \in DOMAIN clusters[i]
      /\ i \in Nat /\ i >= 1 /\ clusters \in Seq(Seq(Names(Len(members))))
  BY DEF Inv
<1>2. Len(clusters) \in Nat /\ DOMAIN clusters = 1 .. Len(clusters)
  BY <1>1, LenProperties
<1>3. \A k \in 1 .. Len(clusters) : clusters[k] \in Seq(Names(Len(members))) /\ clusters[k] # <<>>
  BY <1>1, <1>2, ElementOfSeq DEF Merging
<1>4. \A k \in 1 .. Len(clusters) : /\ 1 \in DOMAIN clusters[k]
                                    /\ DOMAIN clusters[k] = 1 .. Len(clusters[k])
                                    /\ Len(clusters[k]) \in Nat
  BY <1>3, NotEmptyHasFirst, LenProperties
<1>5. i \in 1 .. Len(clusters) /\ j \in 1 .. Len(clusters)
  BY <1>1, <1>2
<1>6. /\ DOMAIN clusters[i] = 1 .. Len(clusters[i]) /\ Len(clusters[i]) \in Nat
      /\ DOMAIN clusters[j] = 1 .. Len(clusters[j]) /\ Len(clusters[j]) \in Nat
  BY <1>4, <1>5
<1>7. CASE b < Len(clusters[i])
  <2>1. b' = b + 1 /\ a' = a /\ i' = i /\ j' = j
    BY <1>7 DEF NextPair
  <2>2. b + 1 \in 1 .. Len(clusters[i])
    BY <1>1, <1>6, <1>7, NextInList
  <2>3. b' \in DOMAIN clusters[i]
    BY <1>6, <2>1, <2>2
  <2>4. j \in Nat
    BY <1>5
  <2>5. QED
    BY <1>1, <2>1, <2>3, <2>4
<1>8. CASE ~(b < Len(clusters[i])) /\ a < Len(clusters[j])
  <2>1. b' = 1 /\ a' = a + 1 /\ i' = i /\ j' = j
    BY <1>8 DEF NextPair
  <2>2. a + 1 \in 1 .. Len(clusters[j])
    BY <1>1, <1>6, <1>8, NextInList
  <2>3. a' \in DOMAIN clusters[j]
    BY <1>6, <2>1, <2>2
  <2>4. 1 \in DOMAIN clusters[i] /\ j \in Nat
    BY <1>4, <1>5
  <2>5. QED
    BY <1>1, <2>1, <2>3, <2>4
<1>9. CASE ~(b < Len(clusters[i])) /\ ~(a < Len(clusters[j]))
  <2>1. /\ b' = 1 /\ a' = 1
        /\ (i' = i + 1 /\ j' = i + 2) \/ (j # Len(clusters) /\ j' = j + 1 /\ i' = i)
    BY <1>9 DEF NextPair
  <2>2. /\ i' \in Nat /\ i' >= i /\ j' \in Nat
        /\ i' < Len(clusters) => /\ i' \in 1 .. Len(clusters)
                                 /\ j' \in i' + 1 .. Len(clusters)
                                 /\ j' \in 1 .. Len(clusters)
    <3>1. CASE i' = i + 1 /\ j' = i + 2
      BY <1>1, <1>2, <3>1
    <3>2. CASE j # Len(clusters) /\ j' = j + 1 /\ i' = i
      <4>1. i \in Nat /\ i >= 1 /\ Len(clusters) \in Nat /\ j \in i + 1 .. Len(clusters)
        BY <1>1, <1>2
      <4>2. j # Len(clusters)
        BY <3>2
      <4>3. /\ i \in 1 .. Len(clusters) /\ j + 1 \in Nat
            /\ j + 1 \in i + 1 .. Len(clusters) /\ j + 1 \in 1 .. Len(clusters)
        BY <4>1, <4>2, NextOfLater
      <4>4. QED
        BY <3>2, <4>1, <4>3
    <3>3. QED
      BY <2>1, <3>1, <3>2
  <2>3. QED
    BY <1>4, <2>1, <2>2
<1>10. QED
  BY <1>7, <1>8, <1>9

LEMMA MergeStepInv == Inv /\ MergeStep => Inv'
<1> SUFFICES ASSUME Inv, MergeStep
             PROVE  Inv'
  OBVIOUS
<1> DEFINE n == Len(members)
           l == clusters[j][a]
           o == clusters[i][b]
<1>1. /\ phase = "merge" /\ i < Len(clusters)
      /\ loops' = IF ~loops[o].merged /\ is_subloop(l, o) THEN merge_with_subloop(l, o) ELSE loops
      /\ NextPair
      /\ UNCHANGED <<program, instants, members, clusters, phase>>
  BY DEF MergeStep
<1>2. /\ i \in DOMAIN clusters /\ j \in DOMAIN clusters /\ i < j
      /\ l \in Range(clusters[j]) /\ o \in Range(clusters[i])
      /\ l \in Kept /\ o \in Kept /\ l \in DOMAIN loops /\ o \in DOMAIN loops
      /\ ~loops[l].merged /\ l # o /\ Rank(o) < Rank(l)
  BY <1>1, PairAtHand
<1>3. n \in Nat
  BY InputOfInv DEF InputFacts
<1> HIDE DEF l, o, n
<1>4. /\ LoopsOK(loops, n, Calls(program)) /\ KeptOK(loops, Kept)
      /\ clusters \in Seq(Seq(Names(n)))
      /\ Merging(loops, clusters, i) /\ Nesting(loops, Kept, Calls(program))
      /\ i \in Nat /\ i >= 1
  BY <1>1 DEF Inv, n
<1>5. /\ i' \in Nat /\ i' >= i /\ j' \in Nat
      /\ i' < Len(clusters) => /\ j' \in i' + 1 .. Len(clusters)
                               /\ a' \in DOMAIN clusters[j'] /\ b' \in DOMAIN clusters[i']
  BY <1>1, NextPairInv
<1>6. Kept' = Kept /\ Kept = KeptIn(clusters)
  BY <1>1, KeptIs DEF Kept
<1>7. Plain(loops, DOMAIN loops \ Kept)
  BY <1>4, <1>6 DEF Merging
<1>8. /\ LoopsOK(loops', n, Calls(program))
      /\ KeptOK(loops', Kept)
      /\ Plain(loops', DOMAIN loops' \ Kept)
      /\ Nesting(loops', Kept, Calls(program))
      /\ \A x \in Kept \ {o} : loops'[x].merged = loops[x].merged
  <2>1. CASE ~loops[o].merged /\ is_subloop(l, o)
    <3>1. loops' = merge_with_subloop(l, o)
      BY <1>1, <2>1
    <3>2. /\ DOMAIN loops' = DOMAIN loops
          /\ Joined(loops, loops', l, o) \/ Nested(loops, loops', l, o)
          /\ \A x \in DOMAIN loops \ {l, o} : loops'[x] = loops[x]
          /\ loops'[o].merged /\ loops'[l].merged = loops[l].merged
          /\ \A x \in DOMAIN loops : loops'[x] \in LoopTypeOf(loops', Calls(program))
                                     /\ loops'[x].hidden = loops[x].hidden
      BY <1>2, <1>3, <1>4, <3>1, MergeChanges
    <3>3. /\ LoopsOK(loops', n, Calls(program))
          /\ KeptOK(loops', Kept)
          /\ Plain(loops', DOMAIN loops' \ Kept)
          /\ Nesting(loops', Kept, Calls(program))
      BY <1>2, <1>3, <1>4, <1>7, <2>1, <3>2, MergedNests
    <3>4. \A x \in Kept \ {o} : loops'[x].merged = loops[x].merged
      BY <1>4, <3>2 DEF KeptOK
    <3>5. QED
      BY <3>3, <3>4
  <2>2. CASE ~(~loops[o].merged /\ is_subloop(l, o))
    <3>1. loops' = loops
      BY <1>1, <2>2
    <3>2. QED
      BY <1>4, <1>7, <3>1
  <2>3. QED
    BY <2>1, <2>2
<1>9. Merging(loops, clusters, i)'
  <2>1. ASSUME NEW k \in DOMAIN clusters, k > i', NEW x \in Range(clusters[k])
        PROVE  ~loops'[x].merged
    <3>1. k \in Nat
      BY <1>4, LenProperties
    <3>2. k > i
      BY <1>4, <1>5, <2>1, <3>1
    <3>3. x \in Kept
      BY DEF Kept
    <3>4. ~loops[x].merged /\ o[1] < x[1]
      BY <1>2, <1>4, <3>2 DEF Merging
    <3>5. x \in Names(n) /\ o \in Names(n)
      BY <1>2, <1>4, <3>3 DEF KeptOK, LoopsOK, Ordered
    <3>6. x # o
      BY <1>3, <3>4, <3>5, NamesFacts
    <3>7. QED
      BY <1>8, <3>3, <3>4, <3>6
  <2>2. Plain(loops', DOMAIN loops' \ KeptIn(clusters))
    BY <1>6, <1>8
  <2>3. QED
    BY <1>1, <1>4, <2>1, <2>2 DEF Merging
<1>10. /\ LoopsOK(loops, Len(members), Calls(program))'
       /\ KeptOK(loops, Kept)' /\ Nesting(loops, Kept, Calls(program))'
       /\ (clusters \in Seq(Seq(Names(Len(members)))))'
  BY <1>1, <1>4, <1>6, <1>8 DEF n
<1>11. (i < Len(clusters) => /\ j \in i + 1 .. Len(clusters)
                             /\ a \in DOMAIN clusters[j] /\ b \in DOMAIN clusters[i])'
  BY <1>1, <1>5
<1>12. (program \in Programs /\ instants = Executed(program)
          /\ members = SortedClusters(program, instants) /\ phase = "merge"
          /\ i \in Nat /\ j \in Nat /\ i >= 1)'
  BY <1>1, <1>4, <1>5 DEF Inv
<1>13. QED
  BY <1>9, <1>10, <1>11, <1>12 DEF Inv

LEMMA EndMergeInv == Inv /\ EndMerge => Inv'
BY DEF Inv, EndMerge, Kept, Made

LEMMA StutterInv == Inv /\ UNCHANGED vars => Inv'
BY DEF Inv, vars, Kept, Made

-----------------------------------------------------------------------------
(* The theorems.                                                             *)

(* The inductive invariant holds in every state: before loops are merged     *)
(* every callstack is in one loop (run_loops_generation, push_datacond), and *)
(* while they are merged the loops are a forest (merge_clusters).            *)
THEOREM Invariance == Spec => []Inv
<1>1. Inv /\ [Next]_vars => Inv'
  <2> SUFFICES ASSUME Inv, [Next]_vars
               PROVE  Inv'
    OBVIOUS
  <2>1. CASE Generate
    BY <2>1, GenerateInv
  <2>2. CASE EndGenerate
    BY <2>2, EndGenerateInv
  <2>3. CASE PushStep
    BY <2>3, PushStepInv
  <2>4. CASE EndPush
    BY <2>4, EndPushInv
  <2>5. CASE MergeStep
    BY <2>5, MergeStepInv
  <2>6. CASE EndMerge
    BY <2>6, EndMergeInv
  <2>7. CASE Done \/ UNCHANGED vars
    BY <2>7, StutterInv DEF Done
  <2>8. QED
    BY <2>1, <2>2, <2>3, <2>4, <2>5, <2>6, <2>7 DEF Next
<1>2. QED
  BY InitInv, <1>1, PTL DEF Spec

LEMMA InvGivesTypeOK == Inv => TypeOK
<1> SUFFICES ASSUME Inv
             PROVE  TypeOK
  OBVIOUS
<1>1. \A l \in DOMAIN loops : loops[l] \in LoopTypeOf(loops, Calls(program))
  BY DEF Inv, LoopsOK
<1>2. \A l \in DOMAIN loops : loops[l] \in LoopType
  BY <1>1, Zenon DEF LoopType, LoopTypeOf
<1>3. \A k \in DOMAIN clusters : Range(clusters[k]) \subseteq Kept
  BY DEF Kept
<1>4. Kept \subseteq DOMAIN loops
  BY DEF Inv, KeptOK
<1>5. phase = "push" => i \in 1 .. Len(clusters) /\ j \in 0 .. i - 1
  BY DEF Inv
<1>6. phase = "merge" /\ i < Len(clusters)
        => j \in i + 1 .. Len(clusters) /\ a \in DOMAIN clusters[j] /\ b \in DOMAIN clusters[i]
  BY DEF Inv
<1>7. phase \in {"generate", "push", "merge", "done"}
  BY DEF Inv
<1>8. QED
  BY <1>2, <1>3, <1>4, <1>5, <1>6, <1>7 DEF TypeOK

(* Loop objects keep their shape, clusters hold existing loops, and the      *)
(* nested for loops of merge_clusters never run past the end of the clusters *)
(* whose loops they walk, although pushing empties some of them and drops    *)
(* the empty ones.                                                           *)
THEOREM TypeCorrect == Spec => []TypeOK
BY Invariance, InvGivesTypeOK, PTL

LEMMA InvNests ==
  ASSUME Inv, phase # "generate"
  PROVE  Nesting(loops, Kept, Calls(program))
<1>1. CASE phase = "push"
  <2>1. /\ Unpushed(loops, clusters, Len(members), Calls(program), Calls(program))
        /\ Len(members) \in Nat
    BY <1>1, InvUnpushed
  <2>2. Nesting(loops, KeptIn(clusters), Calls(program))
    BY <2>1, UnpushedNests
  <2>3. QED
    BY <2>2, KeptIs
<1>2. CASE phase \in {"merge", "done"}
  BY <1>2 DEF Inv
<1>3. QED
  BY <1>1, <1>2 DEF Inv

LEMMA InvGivesOneLoop == Inv => EveryCallInOneLoop
<1> SUFFICES ASSUME Inv, phase # "generate"
             PROVE  LET nest == Nest(Roots) IN
                    /\ \A c \in Calls(program) :
                         Cardinality(Holders(c, nest)) = IF c \in Lost THEN 0 ELSE 1
                    /\ \A l \in nest :
                         Cardinality({m \in nest : l \in loops[m].subs}) =
                           IF l \in Roots THEN 0 ELSE 1
  BY Zenon DEF EveryCallInOneLoop
<1> DEFINE N == Nest(Roots)
<1>1. Roots = RootsIn(loops, Kept)
  BY DEF Roots, RootsIn, Kept
<1>2. N = NestOf(loops, Roots)
  BY Zenon DEF Nest, NestOf
<1>3. Lost = LostIn(loops, Kept)
  <2>1. \A l : Flat(l) = FlatOf(loops, l)
    BY Zenon DEF Flat, FlatOf
  <2>2. QED
    BY <2>1 DEF Lost, LostIn
<1>4. Nesting(loops, Kept, Calls(program))
  BY InvNests
<1> HIDE DEF N
<1>5. /\ Tree(loops, Roots, N)
      /\ \A c \in Calls(program) : IF c \in Lost THEN NotHeld(loops, N, c)
                                                 ELSE HeldOnce(loops, N, c)
  BY <1>1, <1>2, <1>3, <1>4 DEF Nesting
<1>6. ASSUME NEW c \in Calls(program)
      PROVE  Cardinality(Holders(c, N)) = IF c \in Lost THEN 0 ELSE 1
  <2>1. CASE c \in Lost
    <3>1. Holders(c, N) = {}
      BY <1>5, <2>1 DEF Holders, NotHeld
    <3>2. QED
      BY <2>1, <3>1, FS_EmptySet
  <2>2. CASE c \notin Lost
    <3>1. HeldOnce(loops, N, c)
      BY <1>5, <2>2
    <3>2. PICK l \in N : c \in loops[l].calls /\ \A m \in N : c \in loops[m].calls => m = l
      BY <3>1 DEF HeldOnce
    <3>3. Holders(c, N) = {l}
      BY <3>2 DEF Holders
    <3>4. QED
      BY <2>2, <3>3, FS_Singleton
  <2>3. QED
    BY <2>1, <2>2
<1>7. ASSUME NEW l \in N
      PROVE  Cardinality({m \in N : l \in loops[m].subs}) = IF l \in Roots THEN 0 ELSE 1
  <2> DEFINE H == {m \in N : l \in loops[m].subs}
  <2>1. IF l \in Roots THEN \A m \in N : l \notin loops[m].subs ELSE InOneOf(loops, N, l)
    BY <1>5 DEF Tree
  <2>2. CASE l \in Roots
    <3>1. H = {}
      BY <2>1, <2>2
    <3>2. QED
      BY <2>2, <3>1, FS_EmptySet
  <2>3. CASE l \notin Roots
    <3>1. PICK m \in N : l \in loops[m].subs /\ \A q \in N : l \in loops[q].subs => q = m
      BY <2>1, <2>3 DEF InOneOf
    <3>2. H = {m}
      BY <3>1
    <3>3. QED
      BY <2>3, <3>2, FS_Singleton
  <2>4. QED
    BY <2>2, <2>3
<1>8. QED
  BY <1>6, <1>7 DEF N

(* Data conditions are pushed and loops merged by moving callstacks and      *)
(* loops between lists (push_datacond, merge): every callstack stays in      *)
(* exactly one loop of the nest, but for those of a superloop that was       *)
(* removed with an emptied subloop, and no loop ever lies in two others, for *)
(* any number of clusters, of loops in them and of callstacks.               *)
THEOREM NothingElseIsLost == Spec => []EveryCallInOneLoop
BY Invariance, InvGivesOneLoop, PTL

LEMMA InvUnmerged ==
  ASSUME Inv, phase \in {"generate", "push"}
  PROVE  \A l \in DOMAIN loops : ~loops[l].merged
BY DEF Inv, Unmerged

LEMMA MergedStay ==
  ASSUME Inv, [Next]_vars, NEW x \in DOMAIN loops, loops[x].merged
  PROVE  loops'[x] = loops[x]
<1>1. CASE Generate
  BY <1>1, InvUnmerged DEF Generate
<1>2. CASE PushStep
  BY <1>2, InvUnmerged DEF PushStep
<1>3. CASE EndGenerate \/ EndPush \/ EndMerge \/ Done \/ UNCHANGED vars
  BY <1>3 DEF EndGenerate, EndPush, EndMerge, Done, vars
<1>4. CASE MergeStep
  <2> DEFINE l == clusters[j][a]
             o == clusters[i][b]
  <2>1. /\ phase = "merge" /\ i < Len(clusters)
        /\ loops' = IF ~loops[o].merged /\ is_subloop(l, o) THEN merge_with_subloop(l, o) ELSE loops
    BY <1>4 DEF MergeStep
  <2>2. l \in DOMAIN loops /\ o \in DOMAIN loops /\ ~loops[l].merged /\ l # o
    BY <2>1, PairAtHand
  <2>3. LoopsOK(loops, Len(members), Calls(program)) /\ Len(members) \in Nat
    BY InputOfInv DEF Inv, InputFacts
  <2> HIDE DEF l, o
  <2>4. CASE ~loops[o].merged /\ is_subloop(l, o)
    <3>1. x # l /\ x # o
      BY <2>2, <2>4
    <3>2. loops' = merge_with_subloop(l, o)
      BY <2>1, <2>4
    <3>3. \A y \in DOMAIN loops \ {l, o} : loops'[y] = loops[y]
      BY <2>2, <2>3, <3>2, MergeChanges
    <3>4. QED
      BY <3>1, <3>3
  <2>5. CASE ~(~loops[o].merged /\ is_subloop(l, o))
    BY <2>1, <2>5
  <2>6. QED
    BY <2>4, <2>5
<1>5. QED
  BY <1>1, <1>2, <1>3, <1>4 DEF Next

(* already_merged: a loop that has been merged into another one is finished, *)
(* no later step of merge_clusters adds callstacks or loops to it or divides *)
(* its iterations once more; for clusters come in the order of the distances *)
(* and a cluster is left when all of its loops have been merged.             *)
THEOREM MergedLoopsAreFinished == Spec => MergedLoopsStay
<1>1. Inv /\ [Next]_vars => [\A l \in DOMAIN loops : loops[l].merged => loops'[l] = loops[l]]_vars
  BY MergedStay
<1>2. QED
  BY Invariance, <1>1, PTL DEF Spec, MergedLoopsStay
=============================================================================
