-------------------------- MODULE HashTableProofs ---------------------------
(***************************************************************************)
(* The hash table, for any keys, values, number of buckets and number of   *)
(* hashes: each item is where its key's hash says and no key has two,      *)
(* every block of memory is accounted for, and ht.c implements Map.        *)
(***************************************************************************)
EXTENDS HashTable, DataLemmas, FiniteSetTheorems

Item == [key : Keys, value : Values]

\* No key has two items in a bucket.
OneEach(s) == \A i, j \in DOMAIN s : s[i].key = s[j].key => i = j

KeySet(s) == {x.key : x \in Elements(s)}

\* Buckets as the table keeps them.
Good(bs) ==
  /\ bs \in [Slots -> Seq(Item)]
  /\ \A b \in Slots : OneEach(bs[b]) /\ \A x \in Elements(bs[b]) : Slot(x.key) = b

InUse(bs) == {b \in Slots : bs[b] # <<>>}

\* Where a walk may be: what is ahead of it in its bucket is there, once.
Underway(w, bs) ==
  /\ w.at \in Slots
  /\ w.todo \in Seq(Keys) /\ w.todo # <<>> /\ Distinct(w.todo)
  /\ Elements(w.todo) \subseteq KeySet(bs[w.at])

\* The counters agree with the buckets.
Whole ==
  /\ Good(buckets)
  /\ len = Cardinality(InUse(buckets))
  /\ NoLeak

IInv ==
  /\ made \in BOOLEAN
  /\ Whole
  /\ ~made => buckets = [b \in Slots |-> <<>>] /\ walk = NoWalk
  /\ walk = NoWalk \/ Underway(walk, buckets)

-----------------------------------------------------------------------------
(* Keys.                                                                   *)

\* djb2_hash gives a number whatever the key, so that ht_select gives a bucket.
LEMMA HashType ==
  ASSUME TableAssumption, NEW key \in Seq(Nat)
  PROVE  Hash(key) \in Nat /\ Slot(key) \in Slots
<1> DEFINE n == Len(key)
           g == [p \in (1..n) \X Nat |-> (33 * p[2] + key[p[1]]) % HashSpace]
           c == 5381 % HashSpace
           F(x) == [i \in 0..n |-> IF i = 0 THEN c ELSE (33 * x[i - 1] + key[i]) % HashSpace]
           h == CHOOSE x : x = F(x)
<1>0. Hash(key) = h[n]
  BY DEF Hash
<1> HIDE DEF h
<1>1. n \in Nat /\ \A i \in 1..n : key[i] \in Nat
  OBVIOUS
<1>2. c \in Nat
  BY DEF TableAssumption
<1>3. \A x, y \in Nat : (33 * x + y) % HashSpace \in Nat
  BY DEF TableAssumption
<1>4. \A i \in 1..n, x \in Nat : g[<<i, x>>] \in Nat
  BY <1>1, <1>3
<1>5. \A i \in 1..n, x \in Nat : g[<<i, x>>] = (33 * x + key[i]) % HashSpace
  BY <1>1
<1> HIDE DEF g, n, c
<1>6. PICK f \in [0..n -> Nat] : f[0] = c /\ \A i \in 1..n : f[i] = g[<<i, f[i - 1]>>]
  <2>1. \E f \in [0..n -> Nat] : Iterates(f, n, c, g)
    BY <1>1, <1>2, <1>4, Recursion
  <2> QED
    BY <2>1 DEF Iterates
<1>7. f = F(f)
  <2>1. ASSUME NEW i \in 0..n
        PROVE  f[i] = IF i = 0 THEN c ELSE (33 * f[i - 1] + key[i]) % HashSpace
    <3>1. CASE i = 0
      BY <1>6, <3>1
    <3>2. CASE i # 0
      <4>1. i \in 1..n /\ i - 1 \in 0..n
        BY <1>1, <3>2
      <4> QED
        BY <1>5, <1>6, <3>2, <4>1
    <3> QED
      BY <3>1, <3>2
  <2> QED
    BY <2>1
<1> HIDE DEF F
<1>8. h = F(h)
  BY <1>7 DEF h
<1> DEFINE T == {i \in Nat : i <= n => h[i] \in Nat}
<1>9. h = [i \in 0..n |-> IF i = 0 THEN c ELSE (33 * h[i - 1] + key[i]) % HashSpace]
  BY <1>8 DEF F
<1>10. 0 \in T
  BY <1>1, <1>2, <1>9
<1>11. ASSUME NEW i \in T PROVE i + 1 \in T
  <2> SUFFICES ASSUME i + 1 <= n PROVE h[i + 1] \in Nat
    OBVIOUS
  <2>1. i \in Nat /\ i <= n /\ h[i] \in Nat /\ i + 1 \in 0..n /\ i + 1 # 0 /\ (i + 1) - 1 = i /\ i + 1 \in 1..n
    BY <1>1
  <2>2. h[i + 1] = (33 * h[i] + key[i + 1]) % HashSpace
    BY <1>9, <2>1
  <2> QED
    BY <1>1, <1>3, <2>1, <2>2
<1>12. T \in SUBSET Nat
  OBVIOUS
<1> HIDE DEF T
<1>13. n \in T
  BY <1>1, <1>10, <1>11, <1>12, SetInduction
<1>14. n <= n
  BY <1>1
<1>15. Hash(key) \in Nat
  BY <1>0, <1>13, <1>14 DEF T
<1> QED
  BY <1>15 DEF Slot, Slots, TableAssumption

\* item_compare, which looks at the hashes and the lengths first, finds no
\* difference between two keys only if there is none.
LEMMA SameKeyIs ==
  ASSUME NEW a \in Seq(Nat), NEW b \in Seq(Nat)
  PROVE  SameKey(a, b) <=> a = b
<1>1. ASSUME SameKey(a, b) PROVE a = b
  <2> DEFINE differ == {i \in 1..Len(a) : a[i] # b[i]}
             first  == CHOOSE i \in differ : \A j \in differ : i <= j
  <2>1. Len(a) = Len(b) /\ (IF differ = {} THEN 0 ELSE a[first] - b[first]) = 0
    BY <1>1 DEF SameKey, Memcmp
  <2>2. /\ Len(a) \in Nat /\ DOMAIN a = 1..Len(a) /\ DOMAIN b = 1..Len(b)
        /\ \A i \in 1..Len(a) : a[i] \in Nat
        /\ \A i \in 1..Len(b) : b[i] \in Nat
    BY LenProperties
  <2>3. differ \in SUBSET Nat
    BY <2>2
  <2>4. differ # {} => first \in differ
    <3> HIDE DEF differ
    <3> QED
      BY <2>3, Least
  <2>5. differ # {} => a[first] # b[first] /\ a[first] \in Nat /\ b[first] \in Nat
    <3> HIDE DEF first
    <3> QED
      BY <2>1, <2>2, <2>4
  <2>6. differ = {}
    <3> HIDE DEF differ, first
    <3> QED
      BY <2>1, <2>5
  <2>7. \A i \in 1..Len(a) : a[i] = b[i]
    BY <2>6
  <2> QED
    BY <2>1, <2>2, <2>7, SeqEqual
<1>2. ASSUME a = b PROVE SameKey(a, b)
  <2>1. {i \in 1..Len(a) : a[i] # b[i]} = {}
    BY <1>2
  <2> QED
    BY <1>2, <2>1 DEF SameKey, Memcmp
<1> QED
  BY <1>1, <1>2

-----------------------------------------------------------------------------
(* A bucket.                                                               *)

\* A bucket's places and items.
LEMMA BucketType ==
  ASSUME NEW s \in Seq(Item)
  PROVE  /\ Len(s) \in Nat /\ DOMAIN s = 1..Len(s) /\ s \in [1..Len(s) -> Item]
         /\ Elements(s) \subseteq Item
         /\ \A i \in DOMAIN s : s[i] \in Item /\ s[i] \in Elements(s)
         /\ s # <<>> <=> Len(s) # 0
         /\ s # <<>> <=> Elements(s) # {}
<1>1. Len(s) \in Nat /\ DOMAIN s = 1..Len(s) /\ s \in [1..Len(s) -> Item]
  BY LenProperties
<1>2. s # <<>> <=> Len(s) # 0
  BY EmptySeq
<1>3. s # <<>> => 1 \in DOMAIN s
  BY <1>1, <1>2
<1>4. s = <<>> => DOMAIN s = {}
  BY <1>1, <1>2
<1> QED
  BY <1>1, <1>2, <1>3, <1>4 DEF Elements

\* Nothing is in an empty bucket.
LEMMA BucketEmpty == <<>> \in Seq(Item) /\ Elements(<<>>) = {} /\ OneEach(<<>>) /\ KeySet(<<>>) = {}
  BY EmptyQueue DEF OneEach, KeySet, Elements

\* Two items of a bucket with one key are one item.
LEMMA OneItem ==
  ASSUME NEW s \in Seq(Item), OneEach(s),
         NEW x \in Elements(s), NEW y \in Elements(s), x.key = y.key
  PROVE  x = y
  BY DEF Elements, OneEach

\* sll_append
LEMMA BucketAppend ==
  ASSUME NEW s \in Seq(Item), OneEach(s), NEW e \in Item, e.key \notin KeySet(s)
  PROVE  /\ Append(s, e) \in Seq(Item) /\ Append(s, e) # <<>>
         /\ OneEach(Append(s, e))
         /\ Elements(Append(s, e)) = Elements(s) \cup {e}
         /\ Len(Append(s, e)) = Len(s) + 1
<1> DEFINE r == Append(s, e)
<1>1. /\ r \in Seq(Item) /\ r # <<>> /\ Len(r) = Len(s) + 1
      /\ \A i \in 1..Len(s) : r[i] = s[i]
      /\ r[Len(s) + 1] = e
  BY AppendProperties
<1>2. /\ Len(s) \in Nat /\ DOMAIN s = 1..Len(s) /\ DOMAIN r = 1..(Len(s) + 1)
  BY <1>1, LenProperties
<1>3. Elements(r) = Elements(s) \cup {e}
  BY AppendQueue
<1> HIDE DEF r
<1>4. \A i \in DOMAIN s : s[i].key # e.key
  BY DEF KeySet, Elements
<1>5. OneEach(r)
  BY <1>1, <1>2, <1>4 DEF OneEach
<1> QED
  BY <1>1, <1>3, <1>5 DEF r

\* sll_remove
LEMMA BucketDrop ==
  ASSUME NEW s \in Seq(Item), OneEach(s), NEW i \in DOMAIN s
  PROVE  /\ Drop(i, s) \in Seq(Item)
         /\ OneEach(Drop(i, s))
         /\ Elements(Drop(i, s)) = Elements(s) \ {s[i]}
         /\ Len(Drop(i, s)) = Len(s) - 1
<1> DEFINE a == SubSeq(s, 1, i - 1)
           b == SubSeq(s, i + 1, Len(s))
           r == Drop(i, s)
           n == Len(s)
<1>1. n \in Nat /\ DOMAIN s = 1..n /\ i \in 1..n
  BY LenProperties
<1>2. /\ a \in Seq(Item) /\ Len(a) = i - 1
      /\ \A k \in 1..(i - 1) : a[k] = s[k]
  BY <1>1, SubSeqProperties
<1>3. /\ b \in Seq(Item) /\ Len(b) = n - i
      /\ \A k \in 1..(n - i) : b[k] = s[i + k]
  BY <1>1, SubSeqProperties
<1>4. r = a \o b
  BY DEF Drop
<1> HIDE DEF a, b, r
<1>5. /\ r \in Seq(Item) /\ Len(r) = n - 1
      /\ \A k \in 1..(i - 1) : r[k] = s[k]
      /\ \A k \in i..(n - 1) : r[k] = s[k + 1]
  <2>1. /\ r \in Seq(Item) /\ Len(r) = Len(a) + Len(b)
        /\ \A k \in 1..Len(r) : r[k] = IF k <= Len(a) THEN a[k] ELSE b[k - Len(a)]
    BY <1>2, <1>3, <1>4, ConcatProperties
  <2>2. Len(r) = n - 1
    BY <1>1, <1>2, <1>3, <2>1
  <2>3. ASSUME NEW k \in 1..(i - 1) PROVE r[k] = s[k]
    BY <1>1, <1>2, <2>1, <2>2
  <2>4. ASSUME NEW k \in i..(n - 1) PROVE r[k] = s[k + 1]
    <3>1. k \in 1..Len(r) /\ ~(k <= Len(a)) /\ k - Len(a) \in 1..(n - i) /\ i + (k - Len(a)) = k + 1
      BY <1>1, <1>2, <2>2
    <3>2. r[k] = b[k - Len(a)]
      BY <2>1, <3>1
    <3> QED
      BY <1>3, <3>1, <3>2
  <2> QED
    BY <2>1, <2>2, <2>3, <2>4
<1>6. DOMAIN r = 1..(n - 1)
  BY <1>5, LenProperties
<1> HIDE DEF n
<1> DEFINE old(k) == IF k < i THEN k ELSE k + 1
<1>7. \A k \in DOMAIN r : old(k) \in DOMAIN s /\ old(k) # i /\ r[k] = s[old(k)]
  BY <1>1, <1>5, <1>6
<1>8. \A j, k \in DOMAIN r : old(j) = old(k) => j = k
  BY <1>1, <1>6
<1> HIDE DEF old
<1>9. OneEach(r)
  BY <1>7, <1>8 DEF OneEach
<1>10. ASSUME NEW k \in DOMAIN r PROVE r[k] \in Elements(s) /\ r[k] # s[i]
  BY <1>7 DEF OneEach, Elements
<1>11. ASSUME NEW k \in DOMAIN s, k # i PROVE s[k] \in Elements(r)
  <2>1. CASE k < i
    BY <1>1, <1>5, <1>6, <2>1 DEF Elements
  <2>2. CASE k > i
    <3>1. k - 1 \in i..(n - 1) /\ k - 1 \in DOMAIN r /\ (k - 1) + 1 = k
      BY <1>1, <1>6, <2>2
    <3> QED
      BY <1>5, <3>1 DEF Elements
  <2> QED
    BY <1>1, <1>11, <2>1, <2>2
<1>12. Elements(r) = Elements(s) \ {s[i]}
  BY <1>10, <1>11 DEF Elements
<1> QED
  BY <1>5, <1>9, <1>12 DEF r, n

\* ht_set gives an item another value.
LEMMA BucketReplace ==
  ASSUME NEW s \in Seq(Item), OneEach(s), NEW i \in DOMAIN s, NEW v \in Values
  PROVE  LET r == [s EXCEPT ![i].value = v]
         IN  /\ r \in Seq(Item)
             /\ OneEach(r)
             /\ Elements(r) = (Elements(s) \ {s[i]}) \cup {[key |-> s[i].key, value |-> v]}
             /\ Len(r) = Len(s)
<1> DEFINE r == [s EXCEPT ![i].value = v]
           e == [key |-> s[i].key, value |-> v]
<1>1. /\ Len(s) \in Nat /\ DOMAIN s = 1..Len(s) /\ s \in [1..Len(s) -> Item]
      /\ i \in 1..Len(s)
  BY LenProperties
<1>2. e \in Item /\ e.key = s[i].key
  BY <1>1 DEF Item
<1>3. r = [s EXCEPT ![i] = e]
  <2>1. s[i] \in Item
    BY <1>1
  <2>2. [s[i] EXCEPT !.value = v] = e
    BY <2>1 DEF Item
  <2> QED
    BY <2>2
<1>4. r \in [1..Len(s) -> Item] /\ r[i] = e /\ \A k \in DOMAIN s : k # i => r[k] = s[k]
  BY <1>1, <1>2, <1>3
<1> HIDE DEF r, e
<1>5. r \in Seq(Item) /\ Len(r) = Len(s) /\ DOMAIN r = DOMAIN s
  BY <1>1, <1>4, SeqDef, LenProperties
<1>6. \A k \in DOMAIN s : r[k].key = s[k].key
  BY <1>2, <1>4
<1>7. OneEach(r)
  BY <1>5, <1>6 DEF OneEach
<1>8. Elements(r) = (Elements(s) \ {s[i]}) \cup {e}
  BY <1>4, <1>5 DEF Elements, OneEach
<1> QED
  BY <1>5, <1>7, <1>8 DEF r, e

-----------------------------------------------------------------------------
(* The buckets together.                                                   *)

\* ht_select gives every key of the table a bucket.
LEMMA KeySlot ==
  ASSUME TableAssumption, NEW k \in Keys
  PROVE  Slot(k) \in Slots
BY HashType DEF TableAssumption

\* sll_get finds the item of the key if there is one, and nothing else.
LEMMA SearchIs ==
  ASSUME TableAssumption, Good(buckets), NEW key \in Keys
  PROVE  LET s == buckets[Slot(key)]
             i == Search(key)
         IN  /\ i = 0 <=> key \notin KeySet(s)
             /\ i # 0 => i \in DOMAIN s /\ s[i].key = key
<1> DEFINE s == buckets[Slot(key)]
           same == {i \in DOMAIN s : SameKey(s[i].key, key)}
<1>1. s \in Seq(Item)
  BY KeySlot DEF Good
<1>2. Search(key) = IF same = {} THEN 0 ELSE CHOOSE i \in same : \A j \in same : i <= j
  BY DEF Search
<1> HIDE DEF s
<1>3. Len(s) \in Nat /\ DOMAIN s = 1..Len(s) /\ \A i \in DOMAIN s : s[i] \in Item
  BY <1>1, BucketType
<1>4. \A i \in DOMAIN s : SameKey(s[i].key, key) <=> s[i].key = key
  BY <1>3, SameKeyIs DEF TableAssumption, Item
<1>5. same = {i \in DOMAIN s : s[i].key = key}
  BY <1>4
<1> HIDE DEF same
<1>6. same = {} <=> key \notin KeySet(s)
  BY <1>5 DEF KeySet, Elements
<1>7. same # {} => Search(key) \in same
  <2>1. same \in SUBSET Nat
    BY <1>3, <1>5
  <2> QED
    BY <1>2, <2>1, Least
<1>8. same # {} => Search(key) \in DOMAIN s /\ s[Search(key)].key = key /\ Search(key) # 0
  BY <1>3, <1>5, <1>7
<1>9. Search(key) = 0 <=> key \notin KeySet(s)
  BY <1>2, <1>6, <1>8
<1> QED
  BY <1>2, <1>8, <1>9 DEF s

\* The value a bucket has for a key.
ValueIn(s, k) ==
  IF k \in KeySet(s) THEN (CHOOSE x \in Elements(s) : x.key = k).value ELSE Absent

\* It is that of the key's item.
LEMMA ValueOfItem ==
  ASSUME NEW s \in Seq(Item), OneEach(s), NEW x \in Elements(s)
  PROVE  ValueIn(s, x.key) = x.value
<1>1. x.key \in KeySet(s)
  BY DEF KeySet
<1> DEFINE y == CHOOSE y \in Elements(s) : y.key = x.key
<1>2. y \in Elements(s) /\ y.key = x.key
  OBVIOUS
<1>3. ValueIn(s, x.key) = y.value
  BY <1>1 DEF ValueIn
<1> HIDE DEF y
<1>4. y = x
  BY <1>2, OneItem
<1> QED
  BY <1>3, <1>4

\* One probe of one bucket finds all there is to find of a key.
LEMMA StoredIs ==
  ASSUME TableAssumption, NEW bs, Good(bs), NEW k \in Keys
  PROVE  Stored(bs)[k] = ValueIn(bs[Slot(k)], k)
<1>1. Slot(k) \in Slots /\ bs[Slot(k)] \in Seq(Item) /\ OneEach(bs[Slot(k)])
  BY KeySlot DEF Good
<1>2. AllItems(bs) = UNION {Elements(bs[b]) : b \in Slots}
  BY DEF AllItems, Elements
<1>3. ASSUME NEW x \in AllItems(bs), x.key = k PROVE x \in Elements(bs[Slot(k)])
  BY <1>2, <1>3 DEF Good
<1>4. Elements(bs[Slot(k)]) \subseteq AllItems(bs)
  BY <1>1, <1>2
<1>5. CASE k \notin KeySet(bs[Slot(k)])
  <2>1. ~\E x \in AllItems(bs) : x.key = k
    BY <1>3, <1>5 DEF KeySet
  <2> QED
    BY <1>5, <2>1 DEF Stored, ValueIn
<1>6. CASE k \in KeySet(bs[Slot(k)])
  <2> DEFINE x == CHOOSE x \in AllItems(bs) : x.key = k
  <2>1. PICK y \in Elements(bs[Slot(k)]) : y.key = k
    BY <1>6 DEF KeySet
  <2>2. y \in AllItems(bs)
    BY <1>4
  <2>3. x \in AllItems(bs) /\ x.key = k
    BY <2>1, <2>2
  <2>4. Stored(bs)[k] = x.value
    BY <2>1, <2>2 DEF Stored
  <2> HIDE DEF x
  <2>5. x \in Elements(bs[Slot(k)])
    BY <1>3, <2>3
  <2>6. ValueIn(bs[Slot(k)], x.key) = x.value
    BY <1>1, <2>5, ValueOfItem
  <2> QED
    BY <2>3, <2>4, <2>6
<1> QED
  BY <1>5, <1>6

\* The buckets with one of them changed.
With(bs, b, s) == [bs EXCEPT ![b] = s]

\* What becomes of the table when one bucket changes.
LEMMA BucketChange ==
  ASSUME TableAssumption, NEW bs, Good(bs), NEW b \in Slots,
         NEW s \in Seq(Item), OneEach(s), \A x \in Elements(s) : Slot(x.key) = b
  PROVE  LET cs == With(bs, b, s)
         IN  /\ Good(cs) /\ cs[b] = s /\ \A d \in Slots : d # b => cs[d] = bs[d]
             /\ InUse(cs) = IF s = <<>> THEN InUse(bs) \ {b} ELSE InUse(bs) \cup {b}
<1> DEFINE cs == With(bs, b, s)
<1>1. bs \in [Slots -> Seq(Item)]
  BY DEF Good
<1>2. cs \in [Slots -> Seq(Item)] /\ cs[b] = s /\ \A d \in Slots : d # b => cs[d] = bs[d]
  BY <1>1 DEF With
<1> HIDE DEF cs
<1>3. Good(cs)
  BY <1>2 DEF Good
<1>4. InUse(cs) = IF s = <<>> THEN InUse(bs) \ {b} ELSE InUse(bs) \cup {b}
  BY <1>2 DEF InUse
<1> QED
  BY <1>2, <1>3, <1>4 DEF cs

\* It changes what is stored for one key if it does in the bucket.
LEMMA StoredChange ==
  ASSUME TableAssumption, NEW bs, Good(bs), NEW cs, Good(cs), NEW key \in Keys, NEW v,
         \A d \in Slots : d # Slot(key) => cs[d] = bs[d],
         \A k \in Keys : k # key => ValueIn(cs[Slot(key)], k) = ValueIn(bs[Slot(key)], k),
         ValueIn(cs[Slot(key)], key) = v
  PROVE  Stored(cs) = [Stored(bs) EXCEPT ![key] = v]
<1>1. ASSUME NEW k \in Keys PROVE Stored(cs)[k] = IF k = key THEN v ELSE Stored(bs)[k]
  <2>1. Stored(cs)[k] = ValueIn(cs[Slot(k)], k) /\ Stored(bs)[k] = ValueIn(bs[Slot(k)], k)
    BY StoredIs
  <2>2. Slot(k) \in Slots
    BY KeySlot
  <2>3. CASE Slot(k) = Slot(key)
    BY <2>1, <2>3
  <2>4. CASE Slot(k) # Slot(key)
    BY <2>1, <2>2, <2>4
  <2> QED
    BY <2>3, <2>4
<1>2. /\ Stored(cs) = [k \in Keys |-> Stored(cs)[k]]
      /\ Stored(bs) = [k \in Keys |-> Stored(bs)[k]]
  BY DEF Stored
<1> QED
  BY <1>1, <1>2

-----------------------------------------------------------------------------
(* Counts.                                                                 *)

\* The sum over the buckets is well defined.
LEMMA ItemsIs ==
  ASSUME TableAssumption, NEW bs, Good(bs)
  PROVE  \E f \in [0..Capacity -> Nat] :
           /\ f[0] = 0
           /\ \A b \in 1..Capacity : f[b] = f[b - 1] + Len(bs[b - 1])
           /\ Items(bs) = f[Capacity]
<1> DEFINE n == Capacity
           g == [p \in (1..n) \X Nat |-> p[2] + Len(bs[p[1] - 1])]
           F(x) == [b \in 0..n |-> IF b = 0 THEN 0 ELSE x[b - 1] + Len(bs[b - 1])]
           h == CHOOSE x : x = F(x)
<1>1. Items(bs) = h[n]
  BY DEF Items
<1> HIDE DEF h
<1>2. n \in Nat /\ \A b \in 1..n : b - 1 \in Slots /\ Len(bs[b - 1]) \in Nat
  <2>1. \A b \in Slots : Len(bs[b]) \in Nat
    BY BucketType DEF Good
  <2>2. n \in Nat /\ \A b \in 1..n : b - 1 \in Slots
    BY DEF TableAssumption, Slots
  <2> QED
    BY <2>1, <2>2
<1> HIDE DEF n
<1>3. \A b \in 1..n, x \in Nat : g[<<b, x>>] = x + Len(bs[b - 1]) /\ g[<<b, x>>] \in Nat
  <2>1. \A b \in 1..n, x \in Nat : g[<<b, x>>] = x + Len(bs[b - 1])
    OBVIOUS
  <2> HIDE DEF g
  <2>2. ASSUME NEW b \in 1..n, NEW x \in Nat PROVE g[<<b, x>>] \in Nat
    <3>1. Len(bs[b - 1]) \in Nat /\ g[<<b, x>>] = x + Len(bs[b - 1])
      BY <1>2, <2>1
    <3> QED
      BY <3>1
  <2> QED
    BY <2>1, <2>2
<1> HIDE DEF g
<1>4. PICK f \in [0..n -> Nat] : f[0] = 0 /\ \A b \in 1..n : f[b] = g[<<b, f[b - 1]>>]
  <2>1. \E f \in [0..n -> Nat] : Iterates(f, n, 0, g)
    BY <1>2, <1>3, Recursion
  <2> QED
    BY <2>1 DEF Iterates
<1>5. \A b \in 1..n : f[b] = f[b - 1] + Len(bs[b - 1])
  <2>1. \A b \in 1..n : b - 1 \in 0..n
    BY <1>2
  <2> QED
    BY <1>3, <1>4, <2>1
<1>6. f = F(f)
  <2>1. ASSUME NEW b \in 0..n PROVE f[b] = IF b = 0 THEN 0 ELSE f[b - 1] + Len(bs[b - 1])
    <3>1. b # 0 => b \in 1..n
      BY <1>2
    <3> QED
      BY <1>4, <1>5, <3>1
  <2> QED
    BY <2>1
<1> HIDE DEF F
<1>7. h = F(h)
  BY <1>6 DEF h
<1>8. h = [b \in 0..n |-> IF b = 0 THEN 0 ELSE h[b - 1] + Len(bs[b - 1])]
  BY <1>7 DEF F
<1>9. h[0] = 0 /\ \A b \in 1..n : h[b] = h[b - 1] + Len(bs[b - 1])
  BY <1>2, <1>8
<1> DEFINE T == {b \in Nat : b <= n => h[b] \in Nat}
<1>10. 0 \in T
  BY <1>9
<1>11. ASSUME NEW b \in T PROVE b + 1 \in T
  <2> SUFFICES ASSUME b + 1 <= n PROVE h[b + 1] \in Nat
    OBVIOUS
  <2>1. h[b] \in Nat /\ b + 1 \in 1..n /\ (b + 1) - 1 = b
    BY <1>2
  <2>2. h[b + 1] = h[b] + Len(bs[b]) /\ Len(bs[b]) \in Nat
    BY <1>2, <1>9, <2>1
  <2> QED
    BY <2>1, <2>2
<1>12. T \in SUBSET Nat
  OBVIOUS
<1> HIDE DEF T
<1>13. T = Nat
  BY <1>10, <1>11, <1>12, SetInduction
<1>14. \A b \in 0..n : h[b] \in Nat
  BY <1>2, <1>13 DEF T
<1>15. h \in [0..n -> Nat]
  BY <1>8, <1>14
<1>16. n = Capacity
  BY DEF n
<1> QED
  BY <1>1, <1>9, <1>15, <1>16

\* It is a number, and 0 if the buckets are empty.
LEMMA ItemsType ==
  ASSUME TableAssumption, NEW bs, Good(bs)
  PROVE  /\ Items(bs) \in Nat
         /\ bs = [b \in Slots |-> <<>>] => Items(bs) = 0
<1>1. PICK f \in [0..Capacity -> Nat] :
        /\ f[0] = 0
        /\ \A b \in 1..Capacity : f[b] = f[b - 1] + Len(bs[b - 1])
        /\ Items(bs) = f[Capacity]
  BY ItemsIs
<1>2. Capacity \in Nat /\ Capacity \in 0..Capacity
  BY DEF TableAssumption
<1>3. ASSUME bs = [b \in Slots |-> <<>>] PROVE f[Capacity] = 0
  <2> DEFINE T == {b \in Nat : b <= Capacity => f[b] = 0}
  <2>1. 0 \in T
    BY <1>1
  <2>2. ASSUME NEW b \in T PROVE b + 1 \in T
    <3> SUFFICES ASSUME b + 1 <= Capacity PROVE f[b + 1] = 0
      OBVIOUS
    <3>1. f[b] = 0 /\ b + 1 \in 1..Capacity /\ (b + 1) - 1 = b /\ b \in Slots
      BY <1>2 DEF Slots
    <3>2. f[b + 1] = f[b] + Len(bs[b])
      BY <1>1, <3>1
    <3>3. Len(bs[b]) = 0
      BY <1>3, <3>1
    <3> QED
      BY <3>1, <3>2, <3>3
  <2>3. T \in SUBSET Nat
    OBVIOUS
  <2> HIDE DEF T
  <2>4. T = Nat
    BY <2>1, <2>2, <2>3, SetInduction
  <2> QED
    BY <1>2, <2>4 DEF T
<1> QED
  BY <1>1, <1>2, <1>3

\* A bucket that changes changes the sum by as much.
LEMMA ItemsChange ==
  ASSUME TableAssumption, NEW bs, Good(bs), NEW cs, Good(cs), NEW b \in Slots,
         \A d \in Slots : d # b => cs[d] = bs[d]
  PROVE  Items(cs) = Items(bs) + (Len(cs[b]) - Len(bs[b]))
<1>1. PICK f \in [0..Capacity -> Nat] :
        /\ f[0] = 0
        /\ \A d \in 1..Capacity : f[d] = f[d - 1] + Len(bs[d - 1])
        /\ Items(bs) = f[Capacity]
  BY ItemsIs
<1>2. PICK g \in [0..Capacity -> Nat] :
        /\ g[0] = 0
        /\ \A d \in 1..Capacity : g[d] = g[d - 1] + Len(cs[d - 1])
        /\ Items(cs) = g[Capacity]
  BY ItemsIs
<1>3. Capacity \in Nat /\ b \in 0..(Capacity - 1)
  BY DEF TableAssumption, Slots
<1>4. Len(bs[b]) \in Nat /\ Len(cs[b]) \in Nat /\ \A d \in Slots : Len(bs[d]) \in Nat
  BY BucketType DEF Good
<1> DEFINE m == Len(cs[b]) - Len(bs[b])
           shift(d) == IF d <= b THEN 0 ELSE m
<1>5. m \in Int /\ Len(cs[b]) = Len(bs[b]) + m
  BY <1>4
<1> HIDE DEF m
<1>6. /\ shift(0) = 0 /\ shift(Capacity) = m
      /\ \A d \in Nat : shift(d) \in Int /\ shift(d + 1) = shift(d) + IF d = b THEN m ELSE 0
  BY <1>3, <1>5
<1> HIDE DEF shift
<1> DEFINE T == {d \in Nat : d <= Capacity => g[d] = f[d] + shift(d)}
<1>7. 0 \in T
  BY <1>1, <1>2, <1>6
<1>8. ASSUME NEW d \in T PROVE d + 1 \in T
  <2> SUFFICES ASSUME d + 1 <= Capacity PROVE g[d + 1] = f[d + 1] + shift(d + 1)
    OBVIOUS
  <2>1. d \in Nat /\ d <= Capacity /\ g[d] = f[d] + shift(d)
    BY <1>3
  <2>2. d + 1 \in 1..Capacity /\ (d + 1) - 1 = d /\ d \in Slots /\ d \in 0..Capacity
    BY <1>3, <2>1 DEF Slots
  <2>3. g[d + 1] = g[d] + Len(cs[d]) /\ f[d + 1] = f[d] + Len(bs[d]) /\ f[d] \in Nat
    BY <1>1, <1>2, <2>2
  <2>4. Len(cs[d]) = Len(bs[d]) + IF d = b THEN m ELSE 0
    <3>1. CASE d = b
      BY <1>5, <3>1
    <3>2. CASE d # b
      BY <1>4, <2>2, <3>2
    <3> QED
      BY <3>1, <3>2
  <2>5. Len(bs[d]) \in Nat /\ shift(d) \in Int /\ (IF d = b THEN m ELSE 0) \in Int
        /\ shift(d + 1) = shift(d) + IF d = b THEN m ELSE 0
    BY <1>4, <1>5, <1>6, <2>1, <2>2
  <2> QED
    BY <2>1, <2>3, <2>4, <2>5
<1>9. T \in SUBSET Nat
  OBVIOUS
<1> HIDE DEF T
<1>10. T = Nat
  BY <1>7, <1>8, <1>9, SetInduction
<1>11. g[Capacity] = f[Capacity] + m
  <2>1. Capacity \in T /\ Capacity <= Capacity
    BY <1>3, <1>10
  <2> QED
    BY <1>6, <2>1 DEF T
<1> QED
  BY <1>1, <1>2, <1>11 DEF m

\* len counts a bucket when its first item comes and when its last one goes.
LEMMA InUseChange ==
  ASSUME TableAssumption, NEW bs, NEW b \in Slots
  PROVE  /\ Cardinality(InUse(bs)) \in Nat
         /\ Cardinality(InUse(bs) \cup {b}) =
              IF b \in InUse(bs) THEN Cardinality(InUse(bs)) ELSE Cardinality(InUse(bs)) + 1
         /\ Cardinality(InUse(bs) \ {b}) =
              IF b \in InUse(bs) THEN Cardinality(InUse(bs)) - 1 ELSE Cardinality(InUse(bs))
<1>1. IsFiniteSet(Slots)
  BY FS_Interval DEF Slots, TableAssumption
<1>2. IsFiniteSet(InUse(bs))
  BY <1>1, FS_Subset DEF InUse
<1> QED
  BY <1>2, FS_AddElement, FS_RemoveElement, FS_CardinalityType

\* No bucket is counted if and only if all are empty.
LEMMA InUseNone ==
  ASSUME TableAssumption, NEW bs, Good(bs)
  PROVE  Cardinality(InUse(bs)) = 0 <=> \A b \in Slots : bs[b] = <<>>
<1>1. IsFiniteSet(Slots)
  BY FS_Interval DEF Slots, TableAssumption
<1>2. IsFiniteSet(InUse(bs))
  BY <1>1, FS_Subset DEF InUse
<1>3. Cardinality(InUse(bs)) = 0 <=> InUse(bs) = {}
  BY <1>2, FS_EmptySet
<1> QED
  BY <1>3 DEF InUse

-----------------------------------------------------------------------------
(* What a call does to the table.                                          *)

\* ht_set of a key that is there changes its value and nothing else.
LEMMA ReplaceDoes ==
  ASSUME TableAssumption, Whole, made, made' = made,
         NEW key \in Keys, NEW v \in Values, Replace(key, v)
  PROVE  /\ Whole'
         /\ Stored(buckets') = [Stored(buckets) EXCEPT ![key] = v]
         /\ Stored(buckets)[key] # Absent
         /\ ret' = <<"EXISTS", key, v>>
         /\ \A b \in Slots : KeySet(buckets'[b]) = KeySet(buckets[b])
<1> DEFINE a == Slot(key)
           s == buckets[a]
           i == Search(key)
           r == [s EXCEPT ![i].value = v]
           e == [key |-> key, value |-> v]
<1>1. /\ Good(buckets) /\ a \in Slots /\ s \in Seq(Item) /\ OneEach(s)
      /\ buckets \in [Slots -> Seq(Item)]
      /\ \A x \in Elements(s) : Slot(x.key) = a
  BY KeySlot DEF Whole, Good
<1>2. i # 0 /\ i \in DOMAIN s /\ s[i].key = key /\ s[i] \in Elements(s) /\ s[i] \in Item
  BY <1>1, SearchIs, BucketType DEF Replace
<1>3. buckets' = [buckets EXCEPT ![a] = r] /\ UNCHANGED <<len, blocks>> /\ ret' = <<"EXISTS", key, v>>
  BY DEF Replace
<1>4. /\ r \in Seq(Item) /\ OneEach(r) /\ Len(r) = Len(s)
      /\ Elements(r) = (Elements(s) \ {s[i]}) \cup {e}
  <2> HIDE DEF s, i
  <2>1. /\ r \in Seq(Item) /\ OneEach(r) /\ Len(r) = Len(s)
        /\ Elements(r) = (Elements(s) \ {s[i]}) \cup {[key |-> s[i].key, value |-> v]}
    BY <1>1, <1>2, BucketReplace
  <2> HIDE DEF r
  <2> QED
    BY <1>2, <2>1
<1>5. e.key = key /\ e.value = v /\ e \in Elements(r)
  BY <1>4
<1> HIDE DEF s, r, i, e, a
<1>6. \A x \in Elements(r) : Slot(x.key) = a
  BY <1>1, <1>4, <1>5 DEF a
<1>7. r = <<>> <=> s = <<>>
  BY <1>1, <1>4, BucketType
<1>8. s # <<>>
  BY <1>1, <1>2, BucketType
<1>9. /\ Good(buckets') /\ buckets'[a] = r /\ \A d \in Slots : d # a => buckets'[d] = buckets[d]
      /\ InUse(buckets') = InUse(buckets) \cup {a}
  <2> DEFINE cs == With(buckets, a, r)
  <2>1. /\ Good(cs) /\ cs[a] = r /\ \A d \in Slots : d # a => cs[d] = buckets[d]
        /\ InUse(cs) = IF r = <<>> THEN InUse(buckets) \ {a} ELSE InUse(buckets) \cup {a}
    BY <1>1, <1>4, <1>6, BucketChange
  <2> HIDE DEF cs
  <2> QED
    BY <1>3, <1>7, <1>8, <2>1 DEF cs, With
<1>10. InUse(buckets') = InUse(buckets)
  BY <1>1, <1>8, <1>9 DEF InUse, s
<1>11. Items(buckets') = Items(buckets)
  <2>1. Items(buckets') = Items(buckets) + (Len(buckets'[a]) - Len(buckets[a]))
    BY <1>1, <1>9, ItemsChange
  <2>2. Len(buckets'[a]) = Len(buckets[a]) /\ Len(buckets[a]) \in Nat
    BY <1>1, <1>4, <1>9, BucketType DEF s
  <2> QED
    BY <1>1, <2>1, <2>2, ItemsType
<1>12. Whole'
  BY <1>3, <1>9, <1>10, <1>11 DEF Whole, NoLeak
<1>13. KeySet(r) = KeySet(s)
  BY <1>2, <1>4, <1>5 DEF KeySet
<1>14. \A b \in Slots : KeySet(buckets'[b]) = KeySet(buckets[b])
  BY <1>9, <1>13 DEF s
<1>15. ASSUME NEW k \in Keys, k # key PROVE ValueIn(r, k) = ValueIn(s, k)
  <2>1. CASE k \in KeySet(s)
    <3>1. PICK x \in Elements(s) : x.key = k
      BY <2>1 DEF KeySet
    <3>2. x \in Elements(r)
      BY <1>2, <1>4, <1>15, <3>1
    <3> QED
      BY <1>1, <1>4, <3>1, <3>2, ValueOfItem
  <2>2. CASE k \notin KeySet(s)
    BY <1>13, <2>2 DEF ValueIn
  <2> QED
    BY <2>1, <2>2
<1>16. ValueIn(r, key) = v
  BY <1>4, <1>5, ValueOfItem
<1>17. Stored(buckets') = [Stored(buckets) EXCEPT ![key] = v]
  BY <1>1, <1>9, <1>15, <1>16, StoredChange DEF a, s
<1>18. Stored(buckets)[key] # Absent
  <2>1. Stored(buckets)[key] = s[i].value
    BY <1>1, <1>2, StoredIs, ValueOfItem DEF s, a
  <2>2. s[i].value \in Values
    BY <1>2 DEF Item
  <2> QED
    BY <2>1, <2>2 DEF TableAssumption
<1> QED
  BY <1>3, <1>12, <1>14, <1>17, <1>18

\* ht_set of a key that is not there adds its item, to one bucket.
LEMMA AppendDoes ==
  ASSUME TableAssumption, Whole, made, made' = made,
         NEW key \in Keys, NEW v \in Values, AppendItem(key, v)
  PROVE  /\ Whole'
         /\ Stored(buckets') = [Stored(buckets) EXCEPT ![key] = v]
         /\ Stored(buckets)[key] = Absent
         /\ ret' = <<"SUCCESS", key, v>>
         /\ key \notin KeySet(buckets[Slot(key)])
         /\ KeySet(buckets'[Slot(key)]) = KeySet(buckets[Slot(key)]) \cup {key}
         /\ \A b \in Slots : b # Slot(key) => buckets'[b] = buckets[b]
<1> DEFINE a == Slot(key)
           s == buckets[a]
           e == [key |-> key, value |-> v]
           r == Append(s, e)
<1>1. /\ Good(buckets) /\ a \in Slots /\ s \in Seq(Item) /\ OneEach(s)
      /\ buckets \in [Slots -> Seq(Item)]
      /\ \A x \in Elements(s) : Slot(x.key) = a
  BY KeySlot DEF Whole, Good
<1>2. e \in Item /\ e.key = key /\ e.value = v
  BY DEF Item
<1>3. key \notin KeySet(s)
  BY <1>1, SearchIs DEF AppendItem
<1>4. /\ buckets' = [buckets EXCEPT ![a] = r] /\ ret' = <<"SUCCESS", key, v>>
      /\ len' = IF Len(buckets'[a]) = 1 THEN len + 1 ELSE len
      /\ blocks' = blocks + ItemBlocks
  BY DEF AppendItem
<1>5. /\ r \in Seq(Item) /\ r # <<>> /\ OneEach(r) /\ Len(r) = Len(s) + 1
      /\ Elements(r) = Elements(s) \cup {e}
  BY <1>1, <1>2, <1>3, BucketAppend
<1> HIDE DEF s, r, e, a
<1>6. \A x \in Elements(r) : Slot(x.key) = a
  BY <1>1, <1>2, <1>5 DEF a
<1>7. /\ Good(buckets') /\ buckets'[a] = r /\ \A d \in Slots : d # a => buckets'[d] = buckets[d]
      /\ InUse(buckets') = InUse(buckets) \cup {a}
  <2> DEFINE cs == With(buckets, a, r)
  <2>1. /\ Good(cs) /\ cs[a] = r /\ \A d \in Slots : d # a => cs[d] = buckets[d]
        /\ InUse(cs) = IF r = <<>> THEN InUse(buckets) \ {a} ELSE InUse(buckets) \cup {a}
    BY <1>1, <1>5, <1>6, BucketChange
  <2> HIDE DEF cs
  <2> QED
    BY <1>4, <1>5, <2>1 DEF cs, With
<1>8. Len(s) \in Nat /\ (s # <<>> <=> Len(s) # 0) /\ (a \in InUse(buckets) <=> s # <<>>)
  BY <1>1, BucketType DEF InUse, s
<1>9. len' = Cardinality(InUse(buckets'))
  <2>1. /\ Cardinality(InUse(buckets')) =
             IF a \in InUse(buckets) THEN Cardinality(InUse(buckets))
                                     ELSE Cardinality(InUse(buckets)) + 1
        /\ len = Cardinality(InUse(buckets))
    BY <1>1, <1>7, InUseChange DEF Whole
  <2>2. Len(buckets'[a]) = 1 <=> a \notin InUse(buckets)
    BY <1>5, <1>7, <1>8
  <2> QED
    BY <1>4, <2>1, <2>2
<1>10. Items(buckets') = Items(buckets) + 1
  <2>1. Items(buckets') = Items(buckets) + (Len(buckets'[a]) - Len(buckets[a]))
    BY <1>1, <1>7, ItemsChange
  <2>2. Len(buckets'[a]) - Len(buckets[a]) = 1
    BY <1>5, <1>7, <1>8 DEF s
  <2> QED
    BY <2>1, <2>2
<1>11. Whole'
  <2>1. blocks = Capacity + 2 + 5 * Items(buckets)
    BY DEF Whole, NoLeak, ItemBlocks
  <2>2. Items(buckets) \in Nat /\ Capacity \in Nat
    BY <1>1, ItemsType DEF TableAssumption
  <2>3. blocks' = Capacity + 2 + 5 * Items(buckets')
    BY <1>4, <1>10, <2>1, <2>2 DEF ItemBlocks
  <2> QED
    BY <1>7, <1>9, <2>3 DEF Whole, NoLeak, ItemBlocks
<1>12. KeySet(r) = KeySet(s) \cup {key}
  BY <1>2, <1>5 DEF KeySet
<1>13. ASSUME NEW k \in Keys, k # key PROVE ValueIn(r, k) = ValueIn(s, k)
  <2>1. CASE k \in KeySet(s)
    <3>1. PICK x \in Elements(s) : x.key = k
      BY <2>1 DEF KeySet
    <3>2. x \in Elements(r)
      BY <1>5
    <3> QED
      BY <1>1, <1>5, <3>1, <3>2, ValueOfItem
  <2>2. CASE k \notin KeySet(s)
    BY <1>12, <1>13, <2>2 DEF ValueIn
  <2> QED
    BY <2>1, <2>2
<1>14. ValueIn(r, key) = v
  BY <1>2, <1>5, ValueOfItem
<1>15. Stored(buckets') = [Stored(buckets) EXCEPT ![key] = v]
  BY <1>1, <1>7, <1>13, <1>14, StoredChange DEF a, s
<1>16. Stored(buckets)[key] = Absent
  BY <1>1, <1>3, StoredIs DEF s, a, ValueIn
<1> QED
  BY <1>3, <1>4, <1>7, <1>11, <1>12, <1>15, <1>16 DEF s, a

\* ht_del takes the key's item, if there is one, and nothing else.
LEMMA TakeDoes ==
  ASSUME TableAssumption, Whole, made, made' = made, NEW key \in Keys, Take(key)
  PROVE  /\ Whole'
         /\ Stored(buckets') = [Stored(buckets) EXCEPT ![key] = Absent]
         /\ ret' = <<IF Stored(buckets)[key] = Absent THEN "NOT_EXISTS" ELSE "SUCCESS", key>>
         /\ Stored(buckets)[key] = Absent <=> key \notin KeySet(buckets[Slot(key)])
         /\ KeySet(buckets'[Slot(key)]) = KeySet(buckets[Slot(key)]) \ {key}
         /\ \A b \in Slots : b # Slot(key) => buckets'[b] = buckets[b]
<1> DEFINE a == Slot(key)
           s == buckets[a]
           i == Search(key)
           r == Drop(i, s)
<1>1. /\ Good(buckets) /\ a \in Slots /\ s \in Seq(Item) /\ OneEach(s)
      /\ buckets \in [Slots -> Seq(Item)]
      /\ \A x \in Elements(s) : Slot(x.key) = a
  BY KeySlot DEF Whole, Good
<1>2. /\ i = 0 <=> key \notin KeySet(s)
      /\ i # 0 => i \in DOMAIN s /\ s[i].key = key /\ s[i] \in Elements(s) /\ s[i] \in Item
  BY <1>1, SearchIs, BucketType
<1>3. Stored(buckets)[key] = ValueIn(s, key)
  BY <1>1, StoredIs
<1>4. \/ i = 0 /\ ret' = <<"NOT_EXISTS", key>> /\ UNCHANGED <<buckets, len, blocks>>
      \/ /\ i # 0 /\ ret' = <<"SUCCESS", key>> /\ buckets' = [buckets EXCEPT ![a] = r]
         /\ len' = IF buckets'[a] = <<>> THEN len - 1 ELSE len
         /\ blocks' = blocks - ItemBlocks
  BY DEF Take
<1>5. CASE i = 0
  <2>1. Stored(buckets)[key] = Absent /\ key \notin KeySet(s)
    BY <1>2, <1>3, <1>5 DEF ValueIn
  <2>2. ret' = <<"NOT_EXISTS", key>> /\ UNCHANGED <<buckets, len, blocks>>
    BY <1>4, <1>5
  <2>3. Whole'
    BY <2>2 DEF Whole, NoLeak
  <2>4. Stored(buckets') = [Stored(buckets) EXCEPT ![key] = Absent]
    <3>1. Stored(buckets) = [k \in Keys |-> Stored(buckets)[k]]
      BY DEF Stored
    <3> HIDE DEF s, r, i, a
    <3> QED
      BY <2>1, <2>2, <3>1
  <2> QED
    BY <2>1, <2>2, <2>3, <2>4
<1>6. CASE i # 0
  <2>1. /\ ret' = <<"SUCCESS", key>> /\ buckets' = [buckets EXCEPT ![a] = r]
        /\ len' = IF buckets'[a] = <<>> THEN len - 1 ELSE len
        /\ blocks' = blocks - ItemBlocks
    BY <1>4, <1>6
  <2>2. i \in DOMAIN s /\ s[i].key = key /\ s[i] \in Elements(s) /\ s[i] \in Item
    BY <1>2, <1>6
  <2>3. /\ r \in Seq(Item) /\ OneEach(r) /\ Len(r) = Len(s) - 1
        /\ Elements(r) = Elements(s) \ {s[i]}
    BY <1>1, <2>2, BucketDrop
  <2> HIDE DEF s, r, i, a
  <2>4. /\ Good(buckets') /\ buckets'[a] = r /\ \A d \in Slots : d # a => buckets'[d] = buckets[d]
        /\ InUse(buckets') = IF r = <<>> THEN InUse(buckets) \ {a} ELSE InUse(buckets) \cup {a}
    <3>1. \A x \in Elements(r) : Slot(x.key) = a
      BY <1>1, <2>3
    <3> DEFINE cs == With(buckets, a, r)
    <3>2. /\ Good(cs) /\ cs[a] = r /\ \A d \in Slots : d # a => cs[d] = buckets[d]
          /\ InUse(cs) = IF r = <<>> THEN InUse(buckets) \ {a} ELSE InUse(buckets) \cup {a}
      BY <1>1, <2>3, <3>1, BucketChange
    <3> HIDE DEF cs
    <3> QED
      BY <2>1, <3>2 DEF cs, With
  <2>5. a \in InUse(buckets)
    BY <1>1, <2>2, BucketType DEF InUse, s
  <2>6. len' = Cardinality(InUse(buckets'))
    BY <1>1, <2>1, <2>4, <2>5, InUseChange DEF Whole
  <2>7. Items(buckets') = Items(buckets) - 1
    <3>1. Items(buckets') = Items(buckets) + (Len(buckets'[a]) - Len(buckets[a]))
      BY <1>1, <2>4, ItemsChange
    <3>2. Len(s) \in Nat /\ Items(buckets) \in Nat
      BY <1>1, BucketType, ItemsType
    <3> QED
      BY <2>3, <2>4, <3>1, <3>2 DEF s
  <2>8. Whole'
    <3>1. blocks = Capacity + 2 + 5 * Items(buckets)
      BY DEF Whole, NoLeak, ItemBlocks
    <3>2. Items(buckets) \in Nat /\ Capacity \in Nat
      BY <1>1, ItemsType DEF TableAssumption
    <3>3. blocks' = blocks - 5
      BY <2>1 DEF ItemBlocks
    <3>4. blocks' = Capacity + 2 + 5 * Items(buckets')
      BY <2>7, <3>1, <3>2, <3>3
    <3> QED
      BY <2>4, <2>6, <3>4 DEF Whole, NoLeak, ItemBlocks
  <2>9. \A x \in Elements(s) : x.key = key => x = s[i]
    BY <1>1, <2>2, OneItem
  <2>10. KeySet(r) = KeySet(s) \ {key}
    BY <2>2, <2>3, <2>9 DEF KeySet
  <2>11. ASSUME NEW k \in Keys, k # key PROVE ValueIn(r, k) = ValueIn(s, k)
    <3>1. CASE k \in KeySet(s)
      <4>1. PICK x \in Elements(s) : x.key = k
        BY <3>1 DEF KeySet
      <4>2. x \in Elements(r)
        BY <2>2, <2>3, <2>11, <4>1
      <4> QED
        BY <1>1, <2>3, <4>1, <4>2, ValueOfItem
    <3>2. CASE k \notin KeySet(s)
      BY <2>10, <3>2 DEF ValueIn
    <3> QED
      BY <3>1, <3>2
  <2>12. ValueIn(r, key) = Absent
    BY <2>10 DEF ValueIn
  <2>13. Stored(buckets') = [Stored(buckets) EXCEPT ![key] = Absent]
    BY <1>1, <2>4, <2>11, <2>12, StoredChange DEF a, s
  <2>14. Stored(buckets)[key] # Absent /\ key \in KeySet(s)
    <3>1. ValueIn(s, key) = s[i].value
      BY <1>1, <2>2, ValueOfItem
    <3>2. s[i].value \in Values
      BY <2>2 DEF Item
    <3> QED
      BY <1>2, <1>3, <1>6, <3>1, <3>2 DEF TableAssumption
  <2> QED
    BY <2>1, <2>4, <2>8, <2>10, <2>13, <2>14 DEF s, a
<1> QED
  BY <1>5, <1>6

-----------------------------------------------------------------------------
(* A walk.                                                                 *)

\* The keys in the buckets after a place.
Later(at, bs) == UNION {KeySet(bs[b]) : b \in {s \in Slots : s > at}}

\* What is ahead of a walk is in its bucket or in one of those.
LEMMA AheadIs ==
  ASSUME NEW w, NEW bs
  PROVE  Ahead(w, bs) = Elements(w.todo) \cup Later(w.at, bs)
BY DEF Ahead, Elements, Later, KeySet

\* Nothing is ahead of a walk that has ended.
LEMMA AheadNone ==
  ASSUME TableAssumption, NEW bs
  PROVE  Ahead(NoWalk, bs) = {}
<1>1. {s \in Slots : s > Capacity} = {}
  BY DEF Slots, TableAssumption
<1>2. Later(Capacity, bs) = {}
  BY <1>1 DEF Later
<1>3. NoWalk.at = Capacity /\ NoWalk.todo = <<>>
  BY DEF NoWalk
<1> QED
  BY <1>2, <1>3, AheadIs, EmptyQueue

\* The keys of a bucket, in its order.
LEMMA KeysOfIs ==
  ASSUME NEW s \in Seq(Item), OneEach(s)
  PROVE  /\ KeysOf(s) \in Seq(Keys)
         /\ Elements(KeysOf(s)) = KeySet(s)
         /\ Distinct(KeysOf(s))
         /\ s # <<>> => KeysOf(s) # <<>>
<1> DEFINE r == KeysOf(s)
<1>1. Len(s) \in Nat /\ DOMAIN s = 1..Len(s) /\ \A i \in DOMAIN s : s[i] \in Item
  BY BucketType
<1>2. r = [i \in 1..Len(s) |-> s[i].key]
  BY <1>1 DEF KeysOf
<1>3. \A i \in 1..Len(s) : s[i].key \in Keys
  BY <1>1 DEF Item
<1> HIDE DEF r
<1>4. r \in [1..Len(s) -> Keys]
  BY <1>2, <1>3
<1>5. r \in Seq(Keys) /\ Len(r) = Len(s) /\ DOMAIN r = DOMAIN s
  BY <1>1, <1>4, SeqDef, LenProperties
<1>6. \A i \in DOMAIN s : r[i] = s[i].key
  BY <1>1, <1>2
<1>7. Elements(r) = KeySet(s)
  BY <1>5, <1>6 DEF Elements, KeySet
<1>8. Distinct(r)
  BY <1>5, <1>6 DEF Distinct, OneEach
<1>9. s # <<>> => r # <<>>
  BY <1>5, BucketType, EmptySeq
<1> QED
  BY <1>5, <1>7, <1>8, <1>9 DEF r

\* ht_foreach passes over empty buckets only.
LEMMA OnwardDoes ==
  ASSUME TableAssumption, NEW bs, Good(bs), NEW at \in Int, NEW todo \in Seq(Keys),
         todo # <<>> => at \in Slots /\ Distinct(todo) /\ Elements(todo) \subseteq KeySet(bs[at])
  PROVE  /\ Onward(at, todo, bs) = NoWalk \/ Underway(Onward(at, todo, bs), bs)
         /\ Ahead(Onward(at, todo, bs), bs) = Elements(todo) \cup Later(at, bs)
<1> DEFINE w == Onward(at, todo, bs)
           later == {b \in Slots : b > at /\ bs[b] # <<>>}
           first == CHOOSE x \in later : \A y \in later : x <= y
<1>1. CASE todo # <<>>
  <2>1. w = [at |-> at, todo |-> todo]
    BY <1>1 DEF Onward
  <2>2. w.at = at /\ w.todo = todo
    BY <2>1
  <2> HIDE DEF w
  <2>3. Underway(w, bs)
    BY <1>1, <2>2 DEF Underway
  <2>4. Ahead(w, bs) = Elements(todo) \cup Later(at, bs)
    BY <2>2, AheadIs
  <2> QED
    BY <2>3, <2>4 DEF w
<1>2. CASE todo = <<>> /\ later = {}
  <2>1. w = NoWalk
    BY <1>2 DEF Onward
  <2>2. \A b \in Slots : b > at => bs[b] = <<>>
    BY <1>2
  <2>3. Later(at, bs) = {}
    BY <2>2, BucketEmpty DEF Later
  <2> QED
    BY <1>2, <2>1, <2>3, AheadNone, EmptyQueue
<1>3. CASE todo = <<>> /\ later # {}
  <2>1. later \in SUBSET Nat
    BY DEF Slots, TableAssumption
  <2>2. first \in later /\ \A y \in later : first <= y
    <3> HIDE DEF later
    <3> QED
      BY <1>3, <2>1, Least
  <2>3. w = [at |-> first, todo |-> KeysOf(bs[first])]
    BY <1>3 DEF Onward
  <2>4. w.at = first /\ w.todo = KeysOf(bs[first])
    BY <2>3
  <2>5. first \in Slots /\ first > at /\ bs[first] # <<>> /\ first \in Nat
    BY <2>1, <2>2
  <2>6. ASSUME NEW b \in Slots, b > at, b # first, ~(b > first) PROVE bs[b] = <<>>
    <3>1. b \in Nat /\ ~(first <= b)
      BY <2>5, <2>6 DEF Slots
    <3> QED
      BY <2>2, <2>6, <3>1
  <2> HIDE DEF w, first, later
  <2>7. bs[first] \in Seq(Item) /\ OneEach(bs[first])
    BY <2>5 DEF Good
  <2>8. Underway(w, bs)
    BY <2>4, <2>5, <2>7, KeysOfIs DEF Underway
  <2>9. Later(at, bs) = KeySet(bs[first]) \cup Later(first, bs)
    <3>1. \A b \in Slots : b > first => b > at
      BY <2>5 DEF Slots, TableAssumption
    <3>2. ASSUME NEW b \in Slots, b > at
          PROVE  KeySet(bs[b]) \subseteq KeySet(bs[first]) \cup Later(first, bs)
      <4>1. CASE b = first
        BY <4>1
      <4>2. CASE b > first
        BY <4>2 DEF Later
      <4>3. CASE b # first /\ ~(b > first)
        BY <2>6, <3>2, <4>3, BucketEmpty
      <4> QED
        BY <4>1, <4>2, <4>3
    <3>3. Later(at, bs) \subseteq KeySet(bs[first]) \cup Later(first, bs)
      BY <3>2 DEF Later
    <3>4. KeySet(bs[first]) \cup Later(first, bs) \subseteq Later(at, bs)
      BY <2>5, <3>1 DEF Later
    <3> QED
      BY <3>3, <3>4
  <2>10. Ahead(w, bs) = Elements(todo) \cup Later(at, bs)
    BY <1>3, <2>4, <2>7, <2>9, AheadIs, KeysOfIs, EmptyQueue
  <2> QED
    BY <2>8, <2>10 DEF w
<1> QED
  BY <1>1, <1>2, <1>3

\* A key is stored if its bucket has an item of it.
LEMMA StoredNone ==
  ASSUME TableAssumption, NEW bs, Good(bs), NEW k \in Keys
  PROVE  Stored(bs)[k] = Absent <=> k \notin KeySet(bs[Slot(k)])
<1> DEFINE s == bs[Slot(k)]
<1>1. s \in Seq(Item) /\ OneEach(s) /\ Stored(bs)[k] = ValueIn(s, k)
  BY KeySlot, StoredIs DEF Good
<1> HIDE DEF s
<1>2. ASSUME k \in KeySet(s) PROVE ValueIn(s, k) # Absent
  <2>1. PICK x \in Elements(s) : x.key = k
    BY <1>2 DEF KeySet
  <2>2. ValueIn(s, k) = x.value /\ x \in Item
    BY <1>1, <2>1, ValueOfItem, BucketType
  <2> QED
    BY <2>2 DEF Item, TableAssumption
<1>3. k \notin KeySet(s) => ValueIn(s, k) = Absent
  BY DEF ValueIn
<1> QED
  BY <1>1, <1>2, <1>3 DEF s

\* A key is in the bucket ht_select gives it.
LEMMA KeyAt ==
  ASSUME NEW bs, Good(bs), NEW b \in Slots, NEW k \in KeySet(bs[b])
  PROVE  k \in Keys /\ Slot(k) = b
<1>1. bs[b] \in Seq(Item) /\ \A x \in Elements(bs[b]) : Slot(x.key) = b
  BY DEF Good
<1>2. PICK x \in Elements(bs[b]) : x.key = k
  BY DEF KeySet
<1>3. x \in Item
  BY <1>1, BucketType
<1> QED
  BY <1>1, <1>2, <1>3 DEF Item

\* The keys of the buckets are those with a value.
LEMMA PresentIs ==
  ASSUME TableAssumption, NEW bs, Good(bs)
  PROVE  Later(-1, bs) = {k \in Keys : Stored(bs)[k] # Absent}
<1>1. {s \in Slots : s > -1} = Slots
  BY DEF Slots, TableAssumption
<1>2. Later(-1, bs) = UNION {KeySet(bs[b]) : b \in Slots}
  BY <1>1 DEF Later
<1>3. ASSUME NEW b \in Slots, NEW k \in KeySet(bs[b])
      PROVE  k \in Keys /\ Slot(k) = b
  BY KeyAt
<1>4. Later(-1, bs) \subseteq {k \in Keys : Stored(bs)[k] # Absent}
  BY <1>2, <1>3, StoredNone
<1>5. {k \in Keys : Stored(bs)[k] # Absent} \subseteq Later(-1, bs)
  BY <1>2, KeySlot, StoredNone
<1> QED
  BY <1>4, <1>5

-----------------------------------------------------------------------------
(* The calls.                                                              *)

\* What the mapping makes of the next state is what it makes of its variables.
LEMMA Primes ==
  /\ Stored(buckets)' = Stored(buckets')
  /\ Ahead(walk, buckets)' = Ahead(walk', buckets')
BY DEF Stored, AllItems, Ahead

\* An empty table stores nothing.
LEMMA EmptyTable ==
  ASSUME TableAssumption
  PROVE  LET e == [b \in Slots |-> <<>>]
         IN  /\ Good(e) /\ Cardinality(InUse(e)) = 0 /\ Items(e) = 0
             /\ Stored(e) = Abstract!Empty
<1> DEFINE e == [b \in Slots |-> <<>>]
<1>1. e \in [Slots -> Seq(Item)] /\ \A b \in Slots : e[b] = <<>>
  BY BucketEmpty
<1>2. Good(e)
  BY <1>1, BucketEmpty DEF Good
<1>3. e = [b \in Slots |-> <<>>]
  OBVIOUS
<1> HIDE DEF e
<1>4. Cardinality(InUse(e)) = 0
  BY <1>1, <1>2, InUseNone
<1>5. Items(e) = 0
  BY <1>2, <1>3, ItemsType
<1>6. \A k \in Keys : Stored(e)[k] = Absent
  BY <1>1, <1>2, KeySlot, StoredNone, BucketEmpty
<1>7. Stored(e) = [k \in Keys |-> Stored(e)[k]]
  BY DEF Stored
<1>8. Stored(e) = Abstract!Empty
  BY <1>6, <1>7 DEF Abstract!Empty
<1> QED
  BY <1>2, <1>4, <1>5, <1>8 DEF e

\* There is no table at first.
LEMMA InitStep ==
  ASSUME TableAssumption, Init
  PROVE  IInv /\ Abstract!Init
<1>1. /\ made = FALSE /\ buckets = [b \in Slots |-> <<>>] /\ len = 0 /\ blocks = 0
      /\ walk = NoWalk /\ ret = <<"NONE">>
  BY DEF Init
<1>2. /\ Good(buckets) /\ Cardinality(InUse(buckets)) = 0 /\ Stored(buckets) = Abstract!Empty
  BY <1>1, EmptyTable
<1>3. Ahead(walk, buckets) = {}
  BY <1>1, AheadNone
<1>4. IInv
  BY <1>1, <1>2 DEF IInv, Whole, NoLeak
<1> QED
  BY <1>1, <1>2, <1>3, <1>4 DEF Abstract!Init

\* What a walk that is not under way leaves the map to do.
LEMMA IdleIs ==
  ASSUME TableAssumption, IInv, Idle
  PROVE  /\ Abstract!Idle /\ made /\ walk = NoWalk /\ Whole /\ Good(buckets)
         /\ Ahead(walk, buckets) = {}
BY AheadNone DEF Idle, IInv, Whole, Abstract!Idle

\* ht_create makes all of a table or nothing.
LEMMA CreateStep ==
  ASSUME TableAssumption, IInv, Create
  PROVE  IInv' /\ Abstract!Create
<1>1. /\ ~made /\ buckets = [b \in Slots |-> <<>>] /\ walk = NoWalk /\ Whole
      /\ UNCHANGED <<buckets, len, walk>>
  BY DEF Create, IInv
<1>2. PICK got \in 0..(Capacity + 2) :
        /\ made' = (got = Capacity + 2)
        /\ blocks' = blocks + got - IF made' THEN 0 ELSE FreedOf(got)
        /\ ret' = <<IF made' THEN "SUCCESS" ELSE "NULL">>
  BY DEF Create
<1>3. blocks = 0 /\ Items(buckets) = 0 /\ Capacity \in Nat
  BY <1>1, EmptyTable DEF Whole, NoLeak, TableAssumption
<1>4. FreedOf(got) = got
  BY <1>3 DEF FreedOf
<1>5. CASE got = Capacity + 2
  <2>1. made' = TRUE /\ blocks' = Capacity + 2 /\ ret' = <<"SUCCESS">>
    <3>1. made' = TRUE
      BY <1>2, <1>5, Zenon
    <3>2. blocks' = blocks + got - 0 /\ ret' = <<"SUCCESS">>
      BY <1>2, <3>1
    <3> QED
      BY <1>3, <1>5, <3>1, <3>2
  <2>2. Capacity + 2 = Capacity + 2 + ItemBlocks * Items(buckets)
    BY <1>3 DEF ItemBlocks
  <2>3. IInv'
    BY <1>1, <2>1, <2>2 DEF IInv, Whole, NoLeak
  <2>4. Abstract!Create
    BY <1>1, <2>1, Primes DEF Abstract!Create
  <2> QED
    BY <2>3, <2>4
<1>6. CASE got # Capacity + 2
  <2>1. made' = FALSE /\ blocks' = 0 /\ ret' = <<"NULL">>
    <3>1. made' = FALSE
      BY <1>2, <1>6, Zenon
    <3>2. blocks' = blocks + got - FreedOf(got) /\ ret' = <<"NULL">>
      BY <1>2, <3>1
    <3> QED
      BY <1>3, <1>4, <3>1, <3>2
  <2>2. IInv'
    BY <1>1, <2>1 DEF IInv, Whole, NoLeak
  <2>3. Abstract!Create
    BY <1>1, <2>1, Primes DEF Abstract!Create
  <2> QED
    BY <2>2, <2>3
<1> QED
  BY <1>5, <1>6

\* ht_destroy frees all there is.
LEMMA DestroyStep ==
  ASSUME TableAssumption, IInv, Destroy
  PROVE  IInv' /\ Abstract!Destroy
<1>1. /\ Idle /\ blocks' = blocks - (Capacity + 2) - ItemBlocks * Items(buckets)
      /\ buckets' = [b \in Slots |-> <<>>] /\ len' = 0 /\ made' = FALSE
      /\ ret' = <<"SUCCESS">> /\ walk' = walk
  BY DEF Destroy
<1>2. /\ Abstract!Idle /\ made /\ walk = NoWalk /\ Whole /\ Good(buckets)
      /\ Ahead(walk, buckets) = {}
  BY <1>1, IdleIs
<1>3. blocks' = 0
  <2>1. blocks = Capacity + 2 + ItemBlocks * Items(buckets)
    BY <1>2 DEF Whole, NoLeak
  <2>2. Items(buckets) \in Nat /\ Capacity \in Nat
    BY <1>2, ItemsType DEF TableAssumption
  <2>3. blocks' = blocks - (Capacity + 2) - ItemBlocks * Items(buckets)
    BY <1>1
  <2> QED
    BY <2>1, <2>2, <2>3 DEF ItemBlocks
<1>4. Good(buckets') /\ Cardinality(InUse(buckets')) = 0 /\ Stored(buckets') = Abstract!Empty
  BY <1>1, EmptyTable
<1>5. IInv'
  BY <1>1, <1>2, <1>3, <1>4 DEF IInv, Whole, NoLeak
<1>6. Ahead(walk', buckets') = {}
  BY <1>1, <1>2, AheadNone
<1> QED
  BY <1>1, <1>2, <1>4, <1>5, <1>6, Primes DEF Abstract!Destroy

\* ht_get answers with the value the key has.
LEMMA GetStep ==
  ASSUME TableAssumption, IInv, NEW key \in Keys, Get(key)
  PROVE  IInv' /\ Abstract!Get(key)
<1> DEFINE s == buckets[Slot(key)]
           i == Search(key)
<1>1. /\ Idle /\ UNCHANGED <<made, buckets, len, blocks, walk>>
      /\ ret' = IF i = 0 THEN <<"NULL", key>> ELSE <<"VALUE", key, s[i].value>>
  BY DEF Get
<1>2. /\ Abstract!Idle /\ made /\ walk = NoWalk /\ Whole /\ Good(buckets)
      /\ Ahead(walk, buckets) = {}
  BY <1>1, IdleIs
<1>3. /\ s \in Seq(Item) /\ OneEach(s)
      /\ i = 0 <=> key \notin KeySet(s)
      /\ i # 0 => i \in DOMAIN s /\ s[i].key = key
  BY <1>2, KeySlot, SearchIs DEF Good
<1>4. /\ Stored(buckets)[key] = ValueIn(s, key)
      /\ Stored(buckets)[key] = Absent <=> key \notin KeySet(s)
  BY <1>2, StoredIs, StoredNone
<1> HIDE DEF s, i
<1>5. i # 0 => Stored(buckets)[key] = s[i].value
  BY <1>3, <1>4, BucketType, ValueOfItem
<1>6. ret' = IF Stored(buckets)[key] = Absent
             THEN <<"NULL", key>> ELSE <<"VALUE", key, Stored(buckets)[key]>>
  BY <1>1, <1>3, <1>4, <1>5
<1>7. IInv'
  BY <1>1 DEF IInv, Whole, NoLeak
<1> QED
  BY <1>1, <1>2, <1>6, <1>7, Primes DEF Abstract!Get

\* ht_display finds the table empty when it is.
LEMMA DisplayStep ==
  ASSUME TableAssumption, IInv, Display
  PROVE  IInv' /\ Abstract!Display
<1>1. /\ Idle /\ UNCHANGED <<made, buckets, len, blocks, walk>>
      /\ ret' = <<IF len = 0 THEN "EMPTY" ELSE "SUCCESS">>
  BY DEF Display
<1>2. /\ Abstract!Idle /\ made /\ walk = NoWalk /\ Whole /\ Good(buckets)
  BY <1>1, IdleIs
<1>3. len = 0 <=> \A b \in Slots : buckets[b] = <<>>
  BY <1>2, InUseNone DEF Whole
<1>4. Later(-1, buckets) = Abstract!Present
  BY <1>2, PresentIs DEF Abstract!Present
<1>5. Later(-1, buckets) = {} <=> \A b \in Slots : buckets[b] = <<>>
  <2>1. ASSUME NEW b \in Slots PROVE KeySet(buckets[b]) = {} <=> buckets[b] = <<>>
    <3>1. buckets[b] # <<>> <=> Elements(buckets[b]) # {}
      BY <1>2, BucketType DEF Good
    <3> QED
      BY <3>1 DEF KeySet
  <2>2. \A b \in Slots : b > -1
    BY DEF Slots, TableAssumption
  <2> QED
    BY <2>1, <2>2 DEF Later
<1>6. IInv'
  BY <1>1 DEF IInv, Whole, NoLeak
<1> QED
  BY <1>1, <1>2, <1>3, <1>4, <1>5, <1>6, Primes DEF Abstract!Display

\* ht_set, with memory or without.
LEMMA SetStep ==
  ASSUME TableAssumption, IInv, NEW key \in Keys, NEW v \in Values, Set(key, v)
  PROVE  IInv' /\ Abstract!Set(key, v)
<1>1. Idle /\ made' = made /\ walk' = walk
  BY DEF Set
<1>2. /\ Abstract!Idle /\ made /\ walk = NoWalk /\ Whole /\ Good(buckets)
      /\ Ahead(walk, buckets) = {}
  BY <1>1, IdleIs
<1>3. ASSUME Whole' PROVE IInv' /\ Ahead(walk', buckets') = {}
  BY <1>1, <1>2, <1>3, AheadNone DEF IInv
<1>4. CASE Replace(key, v)
  <2>1. /\ Whole' /\ Stored(buckets') = [Stored(buckets) EXCEPT ![key] = v]
        /\ Stored(buckets)[key] # Absent /\ ret' = <<"EXISTS", key, v>>
    BY <1>1, <1>2, <1>4, ReplaceDoes
  <2> QED
    BY <1>1, <1>2, <1>3, <2>1, Primes DEF Abstract!Set
<1>5. CASE AppendItem(key, v)
  <2>1. /\ Whole' /\ Stored(buckets') = [Stored(buckets) EXCEPT ![key] = v]
        /\ Stored(buckets)[key] = Absent /\ ret' = <<"SUCCESS", key, v>>
    BY <1>1, <1>2, <1>5, AppendDoes
  <2> QED
    BY <1>1, <1>2, <1>3, <2>1, Primes DEF Abstract!Set
<1>6. CASE NoMemory(key, v)
  <2>1. PICK got \in 0..(ItemBlocks - 1) :
          /\ blocks' = blocks + got - Undo(got)
          /\ ret' = <<"ALLOC_FAILURE", key, v>> /\ UNCHANGED <<buckets, len>>
    BY <1>6 DEF NoMemory
  <2>2. blocks' = blocks
    <3>1. blocks = Capacity + 2 + ItemBlocks * Items(buckets)
      BY <1>2 DEF Whole, NoLeak
    <3>2. Items(buckets) \in Nat /\ Capacity \in Nat
      BY <1>2, ItemsType DEF TableAssumption
    <3>3. blocks \in Int
      BY <3>1, <3>2 DEF ItemBlocks
    <3> QED
      BY <2>1, <3>3 DEF Undo, ItemBlocks
  <2>3. Whole'
    BY <1>1, <1>2, <2>1, <2>2 DEF Whole, NoLeak
  <2> QED
    BY <1>1, <1>2, <1>3, <2>1, <2>3, Primes DEF Abstract!Set
<1> QED
  BY <1>4, <1>5, <1>6 DEF Set

\* ht_del
LEMMA DelStep ==
  ASSUME TableAssumption, IInv, NEW key \in Keys, Del(key)
  PROVE  IInv' /\ Abstract!Del(key)
<1>1. Idle /\ made' = made /\ walk' = walk /\ Take(key)
  BY DEF Del
<1>2. /\ Abstract!Idle /\ made /\ walk = NoWalk /\ Whole /\ Good(buckets)
      /\ Ahead(walk, buckets) = {}
  BY <1>1, IdleIs
<1>3. /\ Whole' /\ Stored(buckets') = [Stored(buckets) EXCEPT ![key] = Absent]
      /\ ret' = <<IF Stored(buckets)[key] = Absent THEN "NOT_EXISTS" ELSE "SUCCESS", key>>
  BY <1>1, <1>2, TakeDoes
<1>4. IInv' /\ Ahead(walk', buckets') = {}
  BY <1>1, <1>2, <1>3, AheadNone DEF IInv
<1> QED
  BY <1>1, <1>2, <1>3, <1>4, Primes DEF Abstract!Del

\* A walk starts with every key ahead of it.
LEMMA ForeachStep ==
  ASSUME TableAssumption, IInv, Foreach
  PROVE  IInv' /\ Abstract!Walk
<1>1. /\ Idle /\ walk' = Onward(-1, <<>>, buckets) /\ ret' = <<"SUCCESS">>
      /\ UNCHANGED <<made, buckets, len, blocks>>
  BY DEF Foreach
<1>2. /\ Abstract!Idle /\ made /\ walk = NoWalk /\ Whole /\ Good(buckets)
  BY <1>1, IdleIs
<1>3. /\ walk' = NoWalk \/ Underway(walk', buckets)
      /\ Ahead(walk', buckets) = Elements(<<>>) \cup Later(-1, buckets)
  <2>1. <<>> \in Seq(Keys) /\ -1 \in Int
    OBVIOUS
  <2>2. /\ Onward(-1, <<>>, buckets) = NoWalk \/ Underway(Onward(-1, <<>>, buckets), buckets)
        /\ Ahead(Onward(-1, <<>>, buckets), buckets) = Elements(<<>>) \cup Later(-1, buckets)
    BY <1>2, <2>1, OnwardDoes
  <2> QED
    BY <1>1, <2>2
<1>4. Ahead(walk', buckets') = Abstract!Present
  BY <1>1, <1>2, <1>3, PresentIs, EmptyQueue DEF Abstract!Present
<1>5. IInv'
  <2>1. Underway(walk, buckets)' <=> Underway(walk', buckets)
    BY <1>1 DEF Underway
  <2> QED
    BY <1>1, <1>2, <1>3, <2>1 DEF IInv, Whole, NoLeak
<1> QED
  BY <1>1, <1>2, <1>4, <1>5, Primes DEF Abstract!Walk

\* Buckets that keep their keys keep what is in the later ones.
LEMMA LaterSame ==
  ASSUME NEW at, NEW bs, NEW cs, \A b \in Slots : b > at => KeySet(cs[b]) = KeySet(bs[b])
  PROVE  Later(at, cs) = Later(at, bs)
BY DEF Later

\* item_foreach goes on with what it has ahead in the bucket of the walk.
LEMMA WalkOn ==
  ASSUME TableAssumption, IInv, made, made' = made, Whole',
         NEW at \in Slots, NEW rest \in Seq(Keys), Distinct(rest),
         rest # <<>> => Elements(rest) \subseteq KeySet(buckets'[at]),
         walk' = Onward(at, rest, buckets')
  PROVE  IInv' /\ Ahead(walk', buckets') = Elements(rest) \cup Later(at, buckets')
<1>1. Good(buckets') /\ at \in Int
  BY DEF Whole, Slots, TableAssumption
<1>2. /\ Onward(at, rest, buckets') = NoWalk \/ Underway(Onward(at, rest, buckets'), buckets')
      /\ Ahead(Onward(at, rest, buckets'), buckets') = Elements(rest) \cup Later(at, buckets')
  BY <1>1, OnwardDoes
<1>3. walk' = NoWalk \/ Underway(walk', buckets')
  BY <1>2
<1>4. Underway(walk, buckets)' <=> Underway(walk', buckets')
  BY DEF Underway
<1>5. made' \in BOOLEAN
  BY DEF IInv
<1> QED
  BY <1>2, <1>3, <1>4, <1>5 DEF IInv

\* The key the function is given, and what is ahead after it.
LEMMA WalkAt ==
  ASSUME TableAssumption, IInv, walk # NoWalk
  PROVE  LET key  == Head(walk.todo)
             rest == Tail(walk.todo)
             at   == walk.at
         IN  /\ made /\ Whole /\ Good(buckets)
             /\ at \in Slots /\ key \in Keys /\ Slot(key) = at /\ key \in KeySet(buckets[at])
             /\ rest \in Seq(Keys) /\ Distinct(rest) /\ key \notin Elements(rest)
             /\ Elements(rest) \subseteq KeySet(buckets[at])
             /\ key \in Ahead(walk, buckets)
             /\ Ahead(walk, buckets) \ {key} = Elements(rest) \cup Later(at, buckets)
<1> DEFINE key  == Head(walk.todo)
           rest == Tail(walk.todo)
           at   == walk.at
<1>1. made /\ Whole /\ Good(buckets) /\ Underway(walk, buckets)
  BY DEF IInv, Whole
<1>2. /\ at \in Slots /\ walk.todo \in Seq(Keys) /\ walk.todo # <<>> /\ Distinct(walk.todo)
      /\ Elements(walk.todo) \subseteq KeySet(buckets[at])
  BY <1>1 DEF Underway
<1>3. /\ key \in Elements(walk.todo) /\ key \in Keys /\ rest \in Seq(Keys)
      /\ Elements(rest) = Elements(walk.todo) \ {key} /\ Distinct(rest)
  BY <1>2, TailQueue
<1> HIDE DEF key, rest, at
<1>4. Ahead(walk, buckets) = Elements(walk.todo) \cup Later(at, buckets)
  BY AheadIs DEF at
<1>5. key \in KeySet(buckets[at]) /\ Slot(key) = at
  BY <1>1, <1>2, <1>3, KeyAt
<1>6. key \notin Later(at, buckets)
  <2> SUFFICES ASSUME NEW b \in Slots, b > at, key \in KeySet(buckets[b]) PROVE FALSE
    BY DEF Later
  <2>1. Slot(key) = b
    BY <1>1, KeyAt
  <2> QED
    BY <1>2, <1>5, <2>1 DEF Slots, TableAssumption
<1> QED
  BY <1>1, <1>2, <1>3, <1>4, <1>5, <1>6 DEF key, rest, at

\* The function lets the table be, stops the walk, or deletes the key it was given.
LEMMA VisitStep ==
  ASSUME TableAssumption, IInv, walk # NoWalk, made' = made,
         \/ /\ ret' = <<"SUCCESS">> /\ UNCHANGED <<buckets, len, blocks>>
            /\ walk' = Onward(walk.at, Tail(walk.todo), buckets')
         \/ /\ ret' = <<"STOPPED">> /\ UNCHANGED <<buckets, len, blocks>>
            /\ walk' = NoWalk
         \/ /\ Take(Head(walk.todo))
            /\ walk' = Onward(walk.at, Tail(walk.todo), buckets')
  PROVE  IInv' /\ Abstract!Visit
<1> DEFINE key  == Head(walk.todo)
           rest == Tail(walk.todo)
           at   == walk.at
<1>1. /\ made /\ Whole /\ Good(buckets)
      /\ at \in Slots /\ key \in Keys /\ Slot(key) = at /\ key \in KeySet(buckets[at])
      /\ rest \in Seq(Keys) /\ Distinct(rest) /\ key \notin Elements(rest)
      /\ Elements(rest) \subseteq KeySet(buckets[at])
      /\ key \in Ahead(walk, buckets)
      /\ Ahead(walk, buckets) \ {key} = Elements(rest) \cup Later(at, buckets)
  BY WalkAt
<1>2. \/ /\ ret' = <<"SUCCESS">> /\ UNCHANGED <<buckets, len, blocks>>
         /\ walk' = Onward(at, rest, buckets')
      \/ /\ ret' = <<"STOPPED">> /\ UNCHANGED <<buckets, len, blocks>> /\ walk' = NoWalk
      \/ Take(key) /\ walk' = Onward(at, rest, buckets')
  OBVIOUS
<1> HIDE DEF key, rest, at
<1>3. CASE /\ ret' = <<"SUCCESS">> /\ UNCHANGED <<buckets, len, blocks>>
           /\ walk' = Onward(at, rest, buckets')
  <2>1. Whole' /\ Elements(rest) \subseteq KeySet(buckets'[at])
    BY <1>1, <1>3 DEF Whole, NoLeak
  <2>2. IInv' /\ Ahead(walk', buckets') = Elements(rest) \cup Later(at, buckets')
    BY <1>1, <1>3, <2>1, WalkOn
  <2>3. Ahead(walk', buckets') = Ahead(walk, buckets) \ {key} /\ Stored(buckets') = Stored(buckets)
    BY <1>1, <1>3, <2>2
  <2> QED
    BY <1>1, <1>3, <2>2, <2>3, Primes DEF Abstract!Visit
<1>4. CASE ret' = <<"STOPPED">> /\ UNCHANGED <<buckets, len, blocks>> /\ walk' = NoWalk
  <2>1. IInv'
    BY <1>1, <1>4 DEF IInv, Whole, NoLeak
  <2>2. Ahead(walk', buckets') = {} /\ Stored(buckets') = Stored(buckets)
    BY <1>4, AheadNone
  <2> QED
    BY <1>1, <1>4, <2>1, <2>2, Primes DEF Abstract!Visit
<1>5. CASE Take(key) /\ walk' = Onward(at, rest, buckets')
  <2>1. /\ Whole'
        /\ Stored(buckets') = [Stored(buckets) EXCEPT ![key] = Absent]
        /\ ret' = <<IF Stored(buckets)[key] = Absent THEN "NOT_EXISTS" ELSE "SUCCESS", key>>
        /\ Stored(buckets)[key] = Absent <=> key \notin KeySet(buckets[Slot(key)])
        /\ KeySet(buckets'[Slot(key)]) = KeySet(buckets[Slot(key)]) \ {key}
        /\ \A b \in Slots : b # Slot(key) => buckets'[b] = buckets[b]
    BY <1>1, <1>5, TakeDoes
  <2>2. ret' = <<"SUCCESS", key>>
    BY <1>1, <2>1
  <2>3. Elements(rest) \subseteq KeySet(buckets'[at])
    BY <1>1, <2>1
  <2>4. IInv' /\ Ahead(walk', buckets') = Elements(rest) \cup Later(at, buckets')
    BY <1>1, <1>5, <2>1, <2>3, WalkOn
  <2>5. Later(at, buckets') = Later(at, buckets)
    <3>1. \A b \in Slots : b > at => buckets'[b] = buckets[b]
      BY <1>1, <2>1 DEF Slots, TableAssumption
    <3> QED
      BY <3>1, LaterSame
  <2>6. Ahead(walk', buckets') = Ahead(walk, buckets) \ {key}
    BY <1>1, <2>4, <2>5
  <2> QED
    BY <1>1, <2>1, <2>2, <2>4, <2>6, Primes DEF Abstract!Visit
<1> QED
  BY <1>2, <1>3, <1>4, <1>5

\* The function sets a key: a new one of its bucket is ahead of the walk unless the
\* walk is at the last node, and one of a later bucket always is.
LEMMA VisitSetStep ==
  ASSUME TableAssumption, IInv, walk # NoWalk, made' = made, NEW k \in Keys, NEW v \in Values,
         \/ Replace(k, v) /\ walk' = Onward(walk.at, Tail(walk.todo), buckets')
         \/ /\ AppendItem(k, v)
            /\ LET ahead == Slot(k) = walk.at /\ Tail(walk.todo) # <<>>
               IN walk' = Onward(walk.at, IF ahead THEN Append(Tail(walk.todo), k)
                                          ELSE Tail(walk.todo), buckets')
  PROVE  IInv' /\ Abstract!Visit
<1> DEFINE key  == Head(walk.todo)
           rest == Tail(walk.todo)
           at   == walk.at
           more == IF Slot(k) = at /\ rest # <<>> THEN Append(rest, k) ELSE rest
<1>1. /\ made /\ Whole /\ Good(buckets)
      /\ at \in Slots /\ key \in Keys /\ Slot(key) = at /\ key \in KeySet(buckets[at])
      /\ rest \in Seq(Keys) /\ Distinct(rest) /\ key \notin Elements(rest)
      /\ Elements(rest) \subseteq KeySet(buckets[at])
      /\ key \in Ahead(walk, buckets)
      /\ Ahead(walk, buckets) \ {key} = Elements(rest) \cup Later(at, buckets)
  BY WalkAt
<1>2. \/ Replace(k, v) /\ walk' = Onward(at, rest, buckets')
      \/ AppendItem(k, v) /\ walk' = Onward(at, more, buckets')
  OBVIOUS
<1>3. more = IF Slot(k) = at /\ rest # <<>> THEN Append(rest, k) ELSE rest
  OBVIOUS
<1> HIDE DEF key, rest, at, more
<1>4. CASE Replace(k, v) /\ walk' = Onward(at, rest, buckets')
  <2>1. /\ Whole'
        /\ Stored(buckets') = [Stored(buckets) EXCEPT ![k] = v]
        /\ Stored(buckets)[k] # Absent /\ ret' = <<"EXISTS", k, v>>
        /\ \A b \in Slots : KeySet(buckets'[b]) = KeySet(buckets[b])
    BY <1>1, <1>4, ReplaceDoes
  <2>2. Elements(rest) \subseteq KeySet(buckets'[at])
    BY <1>1, <2>1
  <2>3. IInv' /\ Ahead(walk', buckets') = Elements(rest) \cup Later(at, buckets')
    BY <1>1, <1>4, <2>1, <2>2, WalkOn
  <2>4. Ahead(walk', buckets') = Ahead(walk, buckets) \ {key}
    BY <1>1, <2>1, <2>3, LaterSame
  <2> QED
    BY <1>1, <2>1, <2>3, <2>4, Primes DEF Abstract!Visit
<1>5. CASE AppendItem(k, v) /\ walk' = Onward(at, more, buckets')
  <2>1. /\ Whole'
        /\ Stored(buckets') = [Stored(buckets) EXCEPT ![k] = v]
        /\ Stored(buckets)[k] = Absent /\ ret' = <<"SUCCESS", k, v>>
        /\ k \notin KeySet(buckets[Slot(k)])
        /\ KeySet(buckets'[Slot(k)]) = KeySet(buckets[Slot(k)]) \cup {k}
        /\ \A b \in Slots : b # Slot(k) => buckets'[b] = buckets[b]
    BY <1>1, <1>5, AppendDoes
  <2>2. k \notin Elements(rest)
    BY <1>1, <2>1, KeyAt
  <2>3. Slot(k) \in Slots
    BY KeySlot
  <2>4. Elements(rest) \subseteq KeySet(buckets'[at])
    BY <1>1, <2>1
  <2>5. CASE Slot(k) = at /\ rest # <<>>
    <3>1. more = Append(rest, k)
      BY <1>3, <2>5
    <3>2. /\ more \in Seq(Keys) /\ Distinct(more)
          /\ Elements(more) = Elements(rest) \cup {k}
      BY <1>1, <2>2, <3>1, AppendQueue
    <3>3. Elements(more) \subseteq KeySet(buckets'[at])
      BY <2>1, <2>4, <2>5, <3>2
    <3>4. IInv' /\ Ahead(walk', buckets') = Elements(more) \cup Later(at, buckets')
      BY <1>1, <1>5, <2>1, <3>2, <3>3, WalkOn
    <3>5. Later(at, buckets') = Later(at, buckets)
      <4>1. \A b \in Slots : b > at => buckets'[b] = buckets[b]
        BY <1>1, <2>1, <2>5 DEF Slots, TableAssumption
      <4> QED
        BY <4>1, LaterSame
    <3>6. Ahead(walk', buckets') = (Ahead(walk, buckets) \ {key}) \cup {k}
      BY <1>1, <3>2, <3>4, <3>5
    <3> QED
      BY <1>1, <2>1, <3>4, <3>6, Primes DEF Abstract!Visit
  <2>6. CASE ~(Slot(k) = at /\ rest # <<>>)
    <3>1. more = rest
      BY <1>3, <2>6
    <3>2. IInv' /\ Ahead(walk', buckets') = Elements(rest) \cup Later(at, buckets')
      BY <1>1, <1>5, <2>1, <2>4, <3>1, WalkOn
    <3>3. CASE Slot(k) > at
      <4>1. /\ \A b \in Slots : b > at /\ b # Slot(k) => KeySet(buckets'[b]) = KeySet(buckets[b])
            /\ KeySet(buckets'[Slot(k)]) = KeySet(buckets[Slot(k)]) \cup {k}
        BY <2>1
      <4>2. Later(at, buckets') = Later(at, buckets) \cup {k}
        <5>1. Later(at, buckets') \subseteq Later(at, buckets) \cup {k}
          BY <4>1 DEF Later
        <5>2. Later(at, buckets) \cup {k} \subseteq Later(at, buckets')
          BY <2>3, <3>3, <4>1 DEF Later
        <5> QED
          BY <5>1, <5>2
      <4>3. Ahead(walk', buckets') = (Ahead(walk, buckets) \ {key}) \cup {k}
        BY <1>1, <3>2, <4>2
      <4> QED
        BY <1>1, <2>1, <3>2, <4>3, Primes DEF Abstract!Visit
    <3>4. CASE ~(Slot(k) > at)
      <4>1. \A b \in Slots : b > at => buckets'[b] = buckets[b]
        BY <2>1, <3>4
      <4>2. Later(at, buckets') = Later(at, buckets)
        BY <4>1, LaterSame
      <4>3. Ahead(walk', buckets') = Ahead(walk, buckets) \ {key}
        BY <1>1, <3>2, <4>2
      <4> QED
        BY <1>1, <2>1, <3>2, <4>3, Primes DEF Abstract!Visit
    <3> QED
      BY <3>3, <3>4
  <2> QED
    BY <2>5, <2>6
<1> QED
  BY <1>2, <1>4, <1>5

-----------------------------------------------------------------------------
(* The theorems.                                                           *)

\* Every step keeps the invariant and is one that Map has, or a stutter.
LEMMA NextStep ==
  ASSUME TableAssumption, IInv, [Next]_vars
  PROVE  IInv' /\ [Abstract!Next]_(Abstract!vars)
<1>1. CASE Create
  BY <1>1, CreateStep DEF Abstract!Next
<1>2. CASE Destroy
  BY <1>2, DestroyStep DEF Abstract!Next
<1>3. CASE Display
  BY <1>3, DisplayStep DEF Abstract!Next
<1>4. CASE Foreach
  BY <1>4, ForeachStep DEF Abstract!Next
<1>5. CASE Visit
  <2>1. walk # NoWalk /\ made' = made
    BY <1>5 DEF Visit
  <2>2. CASE \/ /\ ret' = <<"SUCCESS">> /\ UNCHANGED <<buckets, len, blocks>>
                /\ walk' = Onward(walk.at, Tail(walk.todo), buckets')
             \/ /\ ret' = <<"STOPPED">> /\ UNCHANGED <<buckets, len, blocks>>
                /\ walk' = NoWalk
             \/ /\ Take(Head(walk.todo))
                /\ walk' = Onward(walk.at, Tail(walk.todo), buckets')
    BY <2>1, <2>2, VisitStep DEF Abstract!Next
  <2>3. ASSUME NEW k \in Keys, NEW v \in Values,
               \/ Replace(k, v) /\ walk' = Onward(walk.at, Tail(walk.todo), buckets')
               \/ /\ AppendItem(k, v)
                  /\ LET ahead == Slot(k) = walk.at /\ Tail(walk.todo) # <<>>
                     IN walk' = Onward(walk.at, IF ahead THEN Append(Tail(walk.todo), k)
                                                ELSE Tail(walk.todo), buckets')
        PROVE  IInv' /\ Abstract!Visit
    BY <2>1, <2>3, VisitSetStep
  <2> QED
    BY <1>5, <2>2, <2>3 DEF Visit, Abstract!Next
<1>6. ASSUME NEW key \in Keys, Get(key) \/ Del(key) \/ \E v \in Values : Set(key, v)
      PROVE  IInv' /\ Abstract!Next
  BY <1>6, GetStep, DelStep, SetStep DEF Abstract!Next
<1>7. CASE UNCHANGED vars
  <2>1. IInv'
    BY <1>7 DEF vars, IInv, Whole, NoLeak, Underway
  <2>2. Stored(buckets') = Stored(buckets) /\ Ahead(walk', buckets') = Ahead(walk, buckets)
        /\ made' = made /\ ret' = ret
    BY <1>7 DEF vars
  <2> QED
    BY <2>1, <2>2, Primes DEF Abstract!vars
<1> QED
  BY <1>1, <1>2, <1>3, <1>4, <1>5, <1>6, <1>7 DEF Next

\* The invariant holds of any table.
THEOREM Invariance == ASSUME TableAssumption PROVE Spec => []IInv
<1>1. Init => IInv
  BY InitStep
<1>2. IInv /\ [Next]_vars => IInv'
  BY NextStep
<1> QED
  BY <1>1, <1>2, PTL DEF Spec

\* A table that is in order has each item in its bucket.
LEMMA PlacedMeans ==
  ASSUME IInv
  PROVE  Placed
<1> SUFFICES ASSUME NEW b \in Slots, NEW i \in DOMAIN buckets[b]
             PROVE  /\ Slot(buckets[b][i].key) = b
                    /\ \A j \in DOMAIN buckets[b] :
                         buckets[b][i].key = buckets[b][j].key => i = j
  BY DEF Placed
<1>1. OneEach(buckets[b]) /\ \A x \in Elements(buckets[b]) : Slot(x.key) = b
  BY DEF IInv, Whole, Good
<1>2. buckets[b][i] \in Elements(buckets[b])
  BY DEF Elements
<1> QED
  BY <1>1, <1>2 DEF OneEach

\* One probe of one bucket of ht.c finds all there is to find: every item is in the
\* bucket its hash selects, and no key has two.
THEOREM PlacedCorrect == ASSUME TableAssumption PROVE Spec => []Placed
<1>1. IInv => Placed
  BY PlacedMeans
<1> QED
  BY <1>1, Invariance, PTL

\* Whatever allocation of whatever call fails, ht.c forgets no block of memory and
\* frees none twice.
THEOREM NoLeakCorrect == ASSUME TableAssumption PROVE Spec => []NoLeak
<1>1. IInv => NoLeak
  BY DEF IInv, Whole
<1> QED
  BY <1>1, Invariance, PTL

\* ht.c implements Map for any keys, also ones that share a bucket or a hash: each
\* call returns what the map says, a failing one changes nothing, and a walk meets
\* every key that was there once, whatever the function it applies does.
THEOREM MapImplemented == ASSUME TableAssumption PROVE Spec => ImplementsMap
<1>1. Init => Abstract!Init
  BY InitStep
<1>2. IInv /\ [Next]_vars => [Abstract!Next]_(Abstract!vars)
  BY NextStep
<1> QED
  BY <1>1, <1>2, Invariance, PTL DEF Spec, ImplementsMap, Abstract!Spec
=============================================================================
