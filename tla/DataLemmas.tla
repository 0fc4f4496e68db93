---------------------------- MODULE DataLemmas -----------------------------
(***************************************************************************)
(* What the proofs need of the data the models are made of: sequences used *)
(* as queues or edited in place, the sets of what is in them, and, for     *)
(* what is defined by recursion over numbers, induction.  The library's    *)
(* theorems of induction take an operator; these take the set of the       *)
(* numbers a fact is true of.                                              *)
(***************************************************************************)
EXTENDS Integers, Sequences, SequenceTheorems, WellFoundedInduction, TLAPS

-----------------------------------------------------------------------------
(* Queues.                                                                 *)

Elements(q) == {q[i] : i \in DOMAIN q}

Distinct(q) == \A i, k \in DOMAIN q : q[i] = q[k] => i = k

\* Nothing is in the empty queue.
LEMMA EmptyQueue == Elements(<<>>) = {} /\ Distinct(<<>>)
  BY DEF Elements, Distinct

\* What is in a queue is of its type, and a queue with nothing in it is empty.
LEMMA QueueType ==
  ASSUME NEW S, NEW q \in Seq(S)
  PROVE  /\ Elements(q) \subseteq S
         /\ Elements(q) = {} => q = <<>>
<1>1. DOMAIN q = 1..Len(q) /\ Len(q) \in Nat /\ q \in [1..Len(q) -> S]
  BY LenProperties
<1>2. q # <<>> => Len(q) \in Nat \ {0}
  BY EmptySeq
<1>3. q # <<>> => 1 \in DOMAIN q
  BY <1>1, <1>2
<1> QED
  BY <1>1, <1>3 DEF Elements

\* Append adds one element, and keeps the queue free of duplicates if it was new.
LEMMA AppendQueue ==
  ASSUME NEW S, NEW q \in Seq(S), NEW e \in S
  PROVE  /\ Append(q, e) \in Seq(S)
         /\ Append(q, e) # <<>>
         /\ Elements(Append(q, e)) = Elements(q) \cup {e}
         /\ Distinct(q) /\ e \notin Elements(q) => Distinct(Append(q, e))
<1> DEFINE r == Append(q, e)
<1>1. /\ r \in Seq(S) /\ r # <<>> /\ Len(r) = Len(q) + 1
      /\ \A i \in 1..Len(q) : r[i] = q[i]
      /\ r[Len(q) + 1] = e
  BY AppendProperties
<1>2. /\ Len(q) \in Nat /\ DOMAIN q = 1..Len(q) /\ DOMAIN r = 1..(Len(q) + 1)
  BY <1>1, LenProperties
<1> HIDE DEF r
<1>3. DOMAIN r = DOMAIN q \cup {Len(q) + 1}
  BY <1>2
<1>4. Elements(r) = Elements(q) \cup {e}
  BY <1>1, <1>2, <1>3 DEF Elements
<1>5. Distinct(q) /\ e \notin Elements(q) => Distinct(r)
  BY <1>1, <1>2, <1>3 DEF Elements, Distinct
<1> QED
  BY <1>1, <1>4, <1>5 DEF r

\* Tail takes the head out, and nothing else if the queue has no duplicates.
LEMMA TailQueue ==
  ASSUME NEW S, NEW q \in Seq(S), q # <<>>, Distinct(q)
  PROVE  /\ Head(q) \in Elements(q)
         /\ Head(q) \in S
         /\ Tail(q) \in Seq(S)
         /\ Elements(Tail(q)) = Elements(q) \ {Head(q)}
         /\ Distinct(Tail(q))
<1> DEFINE t == Tail(q)
           n == Len(t)
<1>1. /\ Head(q) = q[1] /\ Head(q) \in S /\ t \in Seq(S) /\ Len(t) = Len(q) - 1
      /\ \A i \in 1..Len(t) : t[i] = q[i + 1]
  BY HeadTailProperties
<1>2. n \in Nat /\ DOMAIN t = 1..n /\ DOMAIN q = 1..(n + 1)
  BY <1>1, LenProperties
<1>3. \A i \in 1..n : t[i] = q[i + 1]
  BY <1>1
<1>4. Head(q) = q[1]
  BY <1>1
<1> HIDE DEF t, n
<1>5. Elements(t) \subseteq Elements(q) \ {q[1]}
  BY <1>2, <1>3 DEF Elements, Distinct
<1>6. ASSUME NEW k \in DOMAIN q, k # 1 PROVE q[k] \in Elements(t)
  <2>1. k - 1 \in 1..n /\ t[k - 1] = q[k]
    BY <1>2, <1>3, <1>6
  <2> QED
    BY <2>1, <1>2 DEF Elements
<1>7. Elements(t) = Elements(q) \ {q[1]}
  BY <1>5, <1>6 DEF Elements
<1>8. Distinct(t)
  <2> SUFFICES ASSUME NEW i \in DOMAIN t, NEW k \in DOMAIN t, t[i] = t[k] PROVE i = k
    BY DEF Distinct
  <2>1. i + 1 \in DOMAIN q /\ k + 1 \in DOMAIN q /\ q[i + 1] = q[k + 1]
    BY <1>2, <1>3
  <2>2. i + 1 = k + 1
    BY <2>1 DEF Distinct
  <2> QED
    BY <2>2, <1>2
<1>9. q[1] \in Elements(q)
  BY <1>2 DEF Elements
<1> QED
  BY <1>1, <1>4, <1>7, <1>8, <1>9 DEF t

-----------------------------------------------------------------------------
(* Insertion into a sequence, and removal from one.                        *)

\* q with e after its first i elements.
Inserted(q, i, e) == SubSeq(q, 1, i) \o <<e>> \o SubSeq(q, i + 1, Len(q))

\* q without its i-th element.
Removed(q, i) == SubSeq(q, 1, i - 1) \o SubSeq(q, i + 1, Len(q))

\* What the insertion of e moves.
Spliced(r, q, i, e) ==
  /\ Len(r) = Len(q) + 1
  /\ \A k \in 1..i : r[k] = q[k]
  /\ r[i + 1] = e
  /\ \A k \in (i + 2)..(Len(q) + 1) : r[k] = q[k - 1]

\* The insertion does that.
LEMMA InsertedIs ==
  ASSUME NEW S, NEW q \in Seq(S), NEW e \in S, NEW i \in 0..Len(q)
  PROVE  Inserted(q, i, e) \in Seq(S) /\ Spliced(Inserted(q, i, e), q, i, e)
<1> DEFINE a == SubSeq(q, 1, i)
           b == SubSeq(q, i + 1, Len(q))
           m == <<e>>
           n == Len(q)
           r == Inserted(q, i, e)
<1>1. n \in Nat /\ DOMAIN q = 1..n /\ i \in 0..n
  BY LenProperties
<1>2. a \in Seq(S) /\ Len(a) = i /\ \A k \in 1..i : a[k] = q[k]
  BY <1>1, SubSeqProperties
<1>3. b \in Seq(S) /\ Len(b) = n - i /\ \A k \in 1..(n - i) : b[k] = q[i + k]
  <2>1. /\ b \in Seq(S) /\ Len(b) = IF i + 1 <= n THEN n - (i + 1) + 1 ELSE 0
        /\ \A k \in 1..(n - (i + 1) + 1) : b[k] = q[(i + 1) + k - 1]
    <3>1. \A k \in (i + 1)..n : q[k] \in S
      BY <1>1
    <3> HIDE DEF n
    <3> QED
      BY <1>1, <3>1, SubSeqProperties
  <2> HIDE DEF b, n
  <2>2. n - (i + 1) + 1 = n - i /\ \A k \in 1..(n - i) : (i + 1) + k - 1 = i + k
    BY <1>1
  <2>3. Len(b) = n - i
    BY <1>1, <2>1
  <2> QED
    BY <2>1, <2>2, <2>3
<1>4. m \in Seq(S) /\ Len(m) = 1 /\ m[1] = e
  OBVIOUS
<1> DEFINE c == a \o m
<1>5. r = c \o b
  BY DEF Inserted
<1> HIDE DEF a, b, m, r, n
<1>6. c \in Seq(S) /\ Len(c) = i + 1 /\ \A k \in 1..(i + 1) : c[k] = IF k <= i THEN q[k] ELSE e
  <2>1. /\ c \in Seq(S) /\ Len(c) = i + 1
        /\ \A k \in 1..(i + 1) : c[k] = IF k <= i THEN a[k] ELSE m[k - i]
    <3>1. /\ c \in Seq(S) /\ Len(c) = Len(a) + Len(m)
          /\ \A k \in 1..(Len(a) + Len(m)) : c[k] = IF k <= Len(a) THEN a[k] ELSE m[k - Len(a)]
      BY <1>2, <1>4, ConcatProperties
    <3> QED
      BY <1>2, <1>4, <3>1
  <2> HIDE DEF c
  <2>2. ASSUME NEW k \in 1..(i + 1) PROVE c[k] = IF k <= i THEN q[k] ELSE e
    <3>1. CASE k <= i
      BY <1>1, <1>2, <2>1, <3>1
    <3>2. CASE ~(k <= i)
      <4>1. k - i = 1
        BY <1>1, <3>2
      <4> QED
        BY <1>4, <2>1, <3>2, <4>1
    <3> QED
      BY <3>1, <3>2
  <2> QED
    BY <2>1, <2>2
<1> HIDE DEF c
<1>7. /\ r \in Seq(S) /\ Len(r) = n + 1
      /\ \A k \in 1..(n + 1) : r[k] = IF k <= i + 1 THEN c[k] ELSE b[k - (i + 1)]
  <2>1. /\ r \in Seq(S) /\ Len(r) = Len(c) + Len(b)
        /\ \A k \in 1..(Len(c) + Len(b)) : r[k] = IF k <= Len(c) THEN c[k] ELSE b[k - Len(c)]
    BY <1>3, <1>5, <1>6, ConcatProperties
  <2>2. Len(c) + Len(b) = n + 1
    BY <1>1, <1>3, <1>6
  <2> QED
    BY <1>6, <2>1, <2>2
<1>8. ASSUME NEW k \in (i + 2)..(n + 1) PROVE r[k] = q[k - 1]
  <2>1. k \in 1..(n + 1) /\ ~(k <= i + 1) /\ k - (i + 1) \in 1..(n - i) /\ i + (k - (i + 1)) = k - 1
    BY <1>1
  <2> QED
    BY <1>3, <1>7, <2>1
<1>9. \A k \in 1..i : r[k] = q[k]
  <2>1. \A k \in 1..i : k \in 1..(n + 1) /\ k <= i + 1 /\ k \in 1..(i + 1) /\ k <= i
    BY <1>1
  <2> QED
    BY <1>6, <1>7, <2>1
<1>10. r[i + 1] = e
  <2>1. i + 1 \in 1..(n + 1) /\ i + 1 <= i + 1 /\ i + 1 \in 1..(i + 1) /\ ~(i + 1 <= i)
    BY <1>1
  <2> QED
    BY <1>6, <1>7, <2>1
<1> QED
  BY <1>7, <1>8, <1>9, <1>10 DEF r, n, Spliced

\* What a removal moves.
CutAt(r, q, i) ==
  /\ Len(r) = Len(q) - 1
  /\ \A k \in 1..(i - 1) : r[k] = q[k]
  /\ \A k \in i..(Len(q) - 1) : r[k] = q[k + 1]

\* The removal does that.
LEMMA RemovedIs ==
  ASSUME NEW S, NEW q \in Seq(S), NEW i \in 1..Len(q)
  PROVE  Removed(q, i) \in Seq(S) /\ CutAt(Removed(q, i), q, i)
<1> DEFINE a == SubSeq(q, 1, i - 1)
           b == SubSeq(q, i + 1, Len(q))
           r == Removed(q, i)
           n == Len(q)
<1>1. n \in Nat /\ DOMAIN q = 1..n /\ i \in 1..n
  BY LenProperties
<1>2. a \in Seq(S) /\ Len(a) = i - 1 /\ \A k \in 1..(i - 1) : a[k] = q[k]
  BY <1>1, SubSeqProperties
<1>3. b \in Seq(S) /\ Len(b) = n - i /\ \A k \in 1..(n - i) : b[k] = q[i + k]
  <2>1. /\ b \in Seq(S) /\ Len(b) = IF i + 1 <= n THEN n - (i + 1) + 1 ELSE 0
        /\ \A k \in 1..(n - (i + 1) + 1) : b[k] = q[(i + 1) + k - 1]
    <3>1. \A k \in (i + 1)..n : q[k] \in S
      BY <1>1
    <3> HIDE DEF n
    <3> QED
      BY <1>1, <3>1, SubSeqProperties
  <2> HIDE DEF b, n
  <2>2. n - (i + 1) + 1 = n - i /\ \A k \in 1..(n - i) : (i + 1) + k - 1 = i + k
    BY <1>1
  <2>3. Len(b) = n - i
    BY <1>1, <2>1
  <2> QED
    BY <2>1, <2>2, <2>3
<1>4. r = a \o b
  BY DEF Removed
<1> HIDE DEF a, b, r, n
<1>5. /\ r \in Seq(S) /\ Len(r) = n - 1
      /\ \A k \in 1..(n - 1) : r[k] = IF k <= i - 1 THEN a[k] ELSE b[k - (i - 1)]
  <2>1. /\ r \in Seq(S) /\ Len(r) = Len(a) + Len(b)
        /\ \A k \in 1..(Len(a) + Len(b)) : r[k] = IF k <= Len(a) THEN a[k] ELSE b[k - Len(a)]
    BY <1>2, <1>3, <1>4, ConcatProperties
  <2>2. Len(a) + Len(b) = n - 1
    BY <1>1, <1>2, <1>3
  <2> QED
    BY <1>2, <2>1, <2>2
<1>6. ASSUME NEW k \in i..(n - 1) PROVE r[k] = q[k + 1]
  <2>1. k \in 1..(n - 1) /\ ~(k <= i - 1) /\ k - (i - 1) \in 1..(n - i) /\ i + (k - (i - 1)) = k + 1
    BY <1>1
  <2> QED
    BY <1>3, <1>5, <2>1
<1>7. \A k \in 1..(i - 1) : r[k] = q[k]
  <2>1. \A k \in 1..(i - 1) : k \in 1..(n - 1) /\ k <= i - 1
    BY <1>1
  <2> QED
    BY <1>2, <1>5, <2>1
<1> QED
  BY <1>5, <1>6, <1>7 DEF r, n, CutAt

-----------------------------------------------------------------------------
(* Induction.                                                              *)

\* A set of numbers that is not empty has a least one.
LEMMA Least ==
  ASSUME NEW T \in SUBSET Nat, T # {}
  PROVE  \E n \in T : \A m \in T : n <= m
<1> DEFINE R == OpToRel(<, Nat)
<1>1. IsWellFoundedOn(R, Nat)
  BY NatLessThanWellFounded
<1>2. \A x, y \in Nat : <<x, y>> \in R <=> x < y
  BY DEF OpToRel
<1> HIDE DEF R
<1>3. \E x \in T : \A y \in T : ~ (<<y, x>> \in R)
  BY <1>1, WFMin
<1>4. PICK n \in T : \A m \in T : ~ (<<m, n>> \in R)
  BY <1>3
<1>5. n \in Nat /\ \A m \in T : m \in Nat
  OBVIOUS
<1>6. \A m \in T : ~ (m < n)
  BY <1>2, <1>4, <1>5
<1>7. \A m \in T : n <= m
  BY <1>5, <1>6
<1> QED
  BY <1>7

\* A set of numbers that has 0, and n + 1 with every n, has them all.
LEMMA SetInduction ==
  ASSUME NEW T \in SUBSET Nat, 0 \in T, \A n \in T : n + 1 \in T
  PROVE  T = Nat
<1>1. CASE Nat \ T = {}
  BY <1>1
<1>2. CASE Nat \ T # {}
  <2>1. Nat \ T \in SUBSET Nat
    OBVIOUS
  <2>2. PICK n \in Nat \ T : \A m \in Nat \ T : n <= m
    BY <1>2, <2>1, Least
  <2>3. n \in Nat /\ n # 0 /\ n - 1 \in Nat /\ ~(n <= n - 1)
    BY <2>2
  <2>4. n - 1 \in T
    BY <2>2, <2>3
  <2>5. (n - 1) + 1 = n
    BY <2>3
  <2> QED
    BY <2>2, <2>4, <2>5
<1> QED
  BY <1>1, <1>2

\* f starts with c, and its i-th value is what g makes of i and the value before.
Iterates(f, n, c, g) == f[0] = c /\ \A i \in 1..n : f[i] = g[<<i, f[i - 1]>>]

\* A function may be defined by recursion over 0..n.
LEMMA Recursion ==
  ASSUME NEW n \in Nat, NEW S, NEW c \in S, NEW g,
         \A i \in 1..n, x \in S : g[<<i, x>>] \in S
  PROVE  \E f \in [0..n -> S] : Iterates(f, n, c, g)
<1> DEFINE Good(m, f) == /\ f \in [0..m -> S] /\ f[0] = c
                         /\ \A i \in 1..m : f[i] = g[<<i, f[i - 1]>>]
           T == {m \in Nat : m <= n => \E f : Good(m, f)}
<1>1. 0 \in T
  <2> DEFINE f == [i \in 0..0 |-> c]
  <2>1. Good(0, f)
    OBVIOUS
  <2> QED
    BY <2>1
<1>2. ASSUME NEW m \in T PROVE m + 1 \in T
  <2> SUFFICES ASSUME m + 1 <= n PROVE \E f : Good(m + 1, f)
    OBVIOUS
  <2>1. m \in Nat /\ m <= n
    OBVIOUS
  <2>2. PICK f : Good(m, f)
    BY <2>1
  <2> DEFINE h == [i \in 0..(m + 1) |-> IF i = m + 1 THEN g[<<m + 1, f[m]>>] ELSE f[i]]
  <2>3. f[m] \in S /\ m + 1 \in 1..n
    BY <2>1, <2>2
  <2>4. g[<<m + 1, f[m]>>] \in S
    BY <2>3
  <2>5. /\ \A i \in 0..m : i \in 0..(m + 1) /\ i # m + 1
        /\ \A i \in 0..(m + 1) : i = m + 1 \/ i \in 0..m
        /\ \A i \in 1..m : i \in 0..m /\ i - 1 \in 0..m
        /\ \A i \in 1..(m + 1) : i = m + 1 \/ i \in 1..m
        /\ 0 \in 0..m /\ m \in 0..m /\ m + 1 \in 0..(m + 1) /\ (m + 1) - 1 = m
    BY <2>1
  <2>6. h \in [0..(m + 1) -> S]
    BY <2>2, <2>4, <2>5
  <2>7. h[m + 1] = g[<<m + 1, f[m]>>] /\ \A i \in 0..m : h[i] = f[i]
    BY <2>5
  <2> HIDE DEF h
  <2>8. Good(m + 1, h)
    <3>1. ASSUME NEW i \in 1..(m + 1) PROVE h[i] = g[<<i, h[i - 1]>>]
      <4>1. CASE i = m + 1
        BY <2>5, <2>7, <4>1
      <4>2. CASE i \in 1..m
        BY <2>2, <2>5, <2>7, <4>2
      <4> QED
        BY <2>5, <4>1, <4>2
    <3>2. h[0] = c
      BY <2>2, <2>5, <2>7
    <3> QED
      BY <2>6, <3>1, <3>2
  <2> QED
    BY <2>8
<1>3. T \in SUBSET Nat
  OBVIOUS
<1> HIDE DEF T
<1>4. n \in T
  BY <1>1, <1>2, <1>3, SetInduction
<1>5. n <= n
  OBVIOUS
<1> QED
  BY <1>4, <1>5 DEF T, Iterates
=============================================================================
