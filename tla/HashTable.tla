----------------------------- MODULE HashTable -----------------------------
(***************************************************************************)
(* ht/src/ht.c: the hash table that holds the users, the administrators,   *)
(* the logged-in sessions and each user's requests.  A bucket is one of    *)
(* the lists of Sll, here the sequence of its items; the heap is a count   *)
(* of the blocks that are allocated, and any calloc may fail.  Two keys    *)
(* may share a bucket, and two keys may share a hash.                      *)
(***************************************************************************)
EXTENDS Bytes

CONSTANTS Keys,      \* byte strings
          Values,
          Absent,    \* no value
          Capacity,  \* buckets; the code never resizes
          HashSpace  \* hashes are modulo this; 2^64 in the code

VARIABLES made,      \* is there a table?  (the result of ht_create)
          buckets,   \* each bucket's items, in list order
          len,       \* buckets in use
          blocks,    \* allocated blocks of memory
          walk,      \* ht_foreach: its bucket, and the keys it has ahead there
          ret        \* what the last call returned, and its arguments

vars == <<made, buckets, len, blocks, walk, ret>>

\* Keys are byte strings; ht_create refuses a capacity of 0.
TableAssumption ==
  /\ Keys \subseteq Seq(Nat)
  /\ Absent \notin Values
  /\ Capacity \in Nat \ {0}
  /\ HashSpace \in Nat \ {0}

Slots == 0..(Capacity - 1)

NoWalk == [at |-> Capacity, todo |-> <<>>]

\* djb2_hash
Hash(key) ==
  LET h[i \in 0..Len(key)] ==
        IF i = 0 THEN 5381 % HashSpace ELSE (33 * h[i - 1] + key[i]) % HashSpace
  IN h[Len(key)]

\* ht_select
Slot(key) == Hash(key) % Capacity

\* Mutant: keys of one length with one hash are taken for the same key.
SameHash(a, b) == Hash(a) = Hash(b) /\ Len(a) = Len(b)

\* item_compare finds no difference.
SameKey(a, b) == Hash(a) = Hash(b) /\ Len(a) = Len(b) /\ Memcmp(a, b, Len(a)) = 0

\* sll_get on the bucket: the place of the key's item, or 0.
Search(key) ==
  LET same == {i \in DOMAIN buckets[Slot(key)] : SameKey(buckets[Slot(key)][i].key, key)}
  IN IF same = {} THEN 0 ELSE CHOOSE i \in same : \A j \in same : i <= j

KeysOf(bucket) == [i \in DOMAIN bucket |-> bucket[i].key]

Init ==
  /\ made = FALSE
  /\ buckets = [b \in Slots |-> <<>>]
  /\ len = 0
  /\ blocks = 0
  /\ walk = NoWalk
  /\ ret = <<"NONE">>

Idle == made /\ walk = NoWalk

\* What ht_destroy frees of a table without items after `got` successful
\* allocations: the table, the array of buckets, one list for each bucket.
FreedOf(got) == IF got = 0 THEN 0 ELSE IF got = 1 THEN 1 ELSE 2 + (got - 2)

\* ht_create: stops at the first allocation that fails and takes back the rest.
Create ==
  /\ ~made
  /\ \E got \in 0..(Capacity + 2) :
       /\ made' = (got = Capacity + 2)
       /\ blocks' = blocks + got - IF made' THEN 0 ELSE FreedOf(got)
       /\ ret' = <<IF made' THEN "SUCCESS" ELSE "NULL">>
  /\ UNCHANGED <<buckets, len, walk>>

\* An item, its key, its value, its node and its node's data.
ItemBlocks == 5

\* How many items there are.
Items(bs) ==
  LET sum[b \in 0..Capacity] == IF b = 0 THEN 0 ELSE sum[b - 1] + Len(bs[b - 1])
  IN sum[Capacity]

\* ht_destroy: each bucket's sll_destroy gives every item to item_destroy.
Destroy ==
  /\ Idle
  /\ blocks' = blocks - (Capacity + 2) - ItemBlocks * Items(buckets)
  /\ buckets' = [b \in Slots |-> <<>>]
  /\ len' = 0
  /\ made' = FALSE
  /\ ret' = <<"SUCCESS">>
  /\ UNCHANGED walk

\* ht_get
Get(key) ==
  /\ Idle
  /\ ret' = IF Search(key) = 0 THEN <<"NULL", key>>
            ELSE <<"VALUE", key, buckets[Slot(key)][Search(key)].value>>
  /\ UNCHANGED <<made, buckets, len, blocks, walk>>

\* ht_set finds the key: the item takes the new value, whose block replaces the
\* old one's, and the rest of the new item is freed.
Replace(key, value) ==
  /\ Search(key) # 0
  /\ buckets' = [buckets EXCEPT ![Slot(key)][Search(key)].value = value]
  /\ ret' = <<"EXISTS", key, value>>
  /\ UNCHANGED <<len, blocks>>

\* ht_set appends the item to its bucket.
AppendItem(key, value) ==
  /\ Search(key) = 0
  /\ buckets' = [buckets EXCEPT ![Slot(key)] = Append(@, [key |-> key, value |-> value])]
  /\ len' = IF Len(buckets'[Slot(key)]) = 1 THEN len + 1 ELSE len
  /\ blocks' = blocks + ItemBlocks
  /\ ret' = <<"SUCCESS", key, value>>

\* Mutant: the value is not freed with the item.
UndoKeepsValue(got) == IF got >= 3 THEN got - 1 ELSE got

\* What is freed of a new item after `got` successful allocations: the cleanup of
\* ht_set frees the item, its key and its value, sll_insert its own node.
Undo(got) == got

\* ht_set runs out of memory.  A node is only asked for when the key is new.
NoMemory(key, value) ==
  \E got \in 0..(ItemBlocks - 1) :
    /\ got >= 3 => Search(key) = 0
    /\ blocks' = blocks + got - Undo(got)
    /\ ret' = <<"ALLOC_FAILURE", key, value>>
    /\ UNCHANGED <<buckets, len>>

Set(key, value) ==
  /\ Idle
  /\ Replace(key, value) \/ AppendItem(key, value) \/ NoMemory(key, value)
  /\ UNCHANGED <<made, walk>>

Drop(i, s) == SubSeq(s, 1, i - 1) \o SubSeq(s, i + 1, Len(s))

\* ht_del: sll_remove hands the item to item_destroy.
Take(key) ==
  \/ /\ Search(key) = 0
     /\ ret' = <<"NOT_EXISTS", key>>
     /\ UNCHANGED <<buckets, len, blocks>>
  \/ /\ Search(key) # 0
     /\ buckets' = [buckets EXCEPT ![Slot(key)] = Drop(Search(key), @)]
     /\ len' = IF buckets'[Slot(key)] = <<>> THEN len - 1 ELSE len
     /\ blocks' = blocks - ItemBlocks
     /\ ret' = <<"SUCCESS", key>>

Del(key) == Idle /\ Take(key) /\ UNCHANGED <<made, walk>>

\* ht_display
Display ==
  /\ Idle
  /\ ret' = <<IF len = 0 THEN "EMPTY" ELSE "SUCCESS">>
  /\ UNCHANGED <<made, buckets, len, blocks, walk>>

\* ht_foreach moves on: the rest of its bucket, or the next bucket with items.
Onward(at, todo, bs) ==
  LET later == {b \in Slots : b > at /\ bs[b] # <<>>}
  IN IF todo # <<>> THEN [at |-> at, todo |-> todo]
     ELSE IF later = {} THEN NoWalk
     ELSE LET b == CHOOSE x \in later : \A y \in later : x <= y
          IN [at |-> b, todo |-> KeysOf(bs[b])]

Foreach ==
  /\ Idle
  /\ walk' = Onward(-1, <<>>, buckets)
  /\ ret' = <<"SUCCESS">>
  /\ UNCHANGED <<made, buckets, len, blocks>>

\* item_foreach applies the function, which may delete the key it was given, set a
\* key, or stop the walk.  An item appended to the bucket of the walk is ahead of
\* it unless the walk was at the bucket's last node.
Visit ==
  LET key  == Head(walk.todo)
      rest == Tail(walk.todo)
  IN /\ walk # NoWalk
     /\ \/ /\ ret' = <<"SUCCESS">>
           /\ UNCHANGED <<buckets, len, blocks>>
           /\ walk' = Onward(walk.at, rest, buckets')
        \/ /\ ret' = <<"STOPPED">>
           /\ UNCHANGED <<buckets, len, blocks>>
           /\ walk' = NoWalk
        \/ Take(key) /\ walk' = Onward(walk.at, rest, buckets')
        \/ \E k \in Keys, v \in Values :
             \/ Replace(k, v) /\ walk' = Onward(walk.at, rest, buckets')
             \/ /\ AppendItem(k, v)
                /\ LET ahead == Slot(k) = walk.at /\ rest # <<>>
                   IN walk' = Onward(walk.at, IF ahead THEN Append(rest, k) ELSE rest, buckets')
     /\ UNCHANGED made

Next ==
  \/ Create \/ Destroy \/ Display \/ Foreach \/ Visit
  \/ \E key \in Keys : Get(key) \/ Del(key) \/ \E value \in Values : Set(key, value)

Spec == Init /\ [][Next]_vars
----------------------------------------------------------------------------
\* Every item is in the bucket its hash selects and no key has two items, so that
\* one probe of one bucket finds all there is to find.
Placed ==
  \A b \in Slots : \A i \in DOMAIN buckets[b] :
    /\ Slot(buckets[b][i].key) = b
    /\ \A j \in DOMAIN buckets[b] : buckets[b][i].key = buckets[b][j].key => i = j

\* The heap holds the table's own blocks and five for each item, and nothing once
\* the table is destroyed or could not be made: whatever allocation of whatever
\* call fails, ht.c forgets no block and frees none twice.
NoLeak == blocks = IF made THEN Capacity + 2 + ItemBlocks * Items(buckets) ELSE 0

\* The items, the value each key has, and the keys that are ahead of a walk in its
\* bucket or in a later one.
AllItems(bs) == UNION {{bs[b][i] : i \in DOMAIN bs[b]} : b \in Slots}

Stored(bs) ==
  [k \in Keys |-> IF \E x \in AllItems(bs) : x.key = k
                  THEN (CHOOSE x \in AllItems(bs) : x.key = k).value ELSE Absent]

Ahead(w, bs) ==
  {w.todo[i] : i \in DOMAIN w.todo} \cup
  UNION {{x.key : x \in {bs[b][i] : i \in DOMAIN bs[b]}} : b \in {s \in Slots : s > w.at}}

Abstract == INSTANCE Map WITH map <- Stored(buckets), todo <- Ahead(walk, buckets)

\* ht.c keeps the promises of Map, also for keys that share a bucket or a hash: each
\* call returns what the map says, a call that runs out of memory changes nothing,
\* a walk visits every key once, and the table is shown as empty only when it is.
ImplementsMap == Abstract!Spec
=============================================================================
