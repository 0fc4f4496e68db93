-------------------------- MODULE LibrariesProofs --------------------------
(***************************************************************************)
(* What the run of Libraries checks of the hash table, of a connection's   *)
(* bytes, of the linked list and of the tree, proved for any values of its *)
(* constants: the first two by the theorems of HashTableProofs and         *)
(* WireProofs, the list and the tree here.                                 *)
(***************************************************************************)
EXTENDS Libraries, Bytes, DataLemmas, FiniteSetTheorems, TLAPS

USE LibrariesAssumption

\* The theorems about the first two, with the variables and constants of this module.
TP == INSTANCE HashTableProofs

SP == INSTANCE WireProofs

-----------------------------------------------------------------------------
(* TP and SP name again what Table and Stream name.                        *)

\* One table: the same calls and the same walk.
LEMMA SameTable ==
  /\ Table!Init <=> TP!Init
  /\ Table!Next <=> TP!Next
  /\ Table!vars = TP!vars
  /\ TP!TableAssumption
<1> USE DEF Table!Slots, TP!Slots, Table!NoWalk, TP!NoWalk, Table!Idle, TP!Idle,
            Table!Hash, TP!Hash, Table!Slot, TP!Slot
<1>1. \A k : Table!Search(k) = TP!Search(k)
  BY DEF Table!Search, TP!Search, Table!SameKey, TP!SameKey, Table!Memcmp, TP!Memcmp
<1>2. \A at, todo, bs : Table!Onward(at, todo, bs) = TP!Onward(at, todo, bs)
  BY DEF Table!Onward, TP!Onward, Table!KeysOf, TP!KeysOf
<1>3. \A k, v : Table!Replace(k, v) <=> TP!Replace(k, v)
  BY DEF Table!Replace, TP!Replace, Table!Search, TP!Search, Table!SameKey,
     TP!SameKey, Table!Memcmp, TP!Memcmp
<1>4. \A k, v : Table!AppendItem(k, v) <=> TP!AppendItem(k, v)
  BY <1>1 DEF Table!AppendItem, TP!AppendItem, Table!ItemBlocks, TP!ItemBlocks
<1>5. \A k, v : Table!NoMemory(k, v) <=> TP!NoMemory(k, v)
  BY <1>1 DEF Table!NoMemory, TP!NoMemory, Table!ItemBlocks, TP!ItemBlocks,
     Table!Undo, TP!Undo
<1>6. \A k : Table!Take(k) <=> TP!Take(k)
  BY DEF Table!Take, TP!Take, Table!Drop, TP!Drop, Table!ItemBlocks, TP!ItemBlocks,
     Table!Search, TP!Search, Table!SameKey, TP!SameKey, Table!Memcmp, TP!Memcmp
<1>7. Table!Create <=> TP!Create
  BY DEF Table!Create, TP!Create, Table!FreedOf, TP!FreedOf
<1>8. Table!Destroy <=> TP!Destroy
  BY DEF Table!Destroy, TP!Destroy, Table!Items, TP!Items, Table!ItemBlocks,
     TP!ItemBlocks
<1>9. Table!Display <=> TP!Display
  BY DEF Table!Display, TP!Display
<1>10. Table!Foreach <=> TP!Foreach
  BY <1>2 DEF Table!Foreach, TP!Foreach
<1>11. Table!Visit <=> TP!Visit
  BY <1>2, <1>3, <1>4, <1>6, ZenonT(60) DEF Table!Visit, TP!Visit
<1>12. \A k : Table!Get(k) <=> TP!Get(k)
  BY <1>1 DEF Table!Get, TP!Get
<1>13. \A k : Table!Del(k) <=> TP!Del(k)
  BY <1>6 DEF Table!Del, TP!Del
<1>14. \A k, v : Table!Set(k, v) <=> TP!Set(k, v)
  BY <1>3, <1>4, <1>5 DEF Table!Set, TP!Set
<1>15. Table!Next <=> TP!Next
  BY <1>7, <1>8, <1>9, <1>10, <1>11, <1>12, <1>13, <1>14 DEF Table!Next, TP!Next
<1> QED
  BY <1>15 DEF Table!Init, TP!Init, Table!vars, TP!vars, Table!TableAssumption,
     TP!TableAssumption

\* One map.
LEMMA SameMap ==
  /\ Table!Abstract!Init <=> TP!Abstract!Init
  /\ Table!Abstract!Next <=> TP!Abstract!Next
  /\ Table!Abstract!vars = TP!Abstract!vars
<1> USE DEF Table!Slots, TP!Slots, Table!AllItems, TP!AllItems, Table!Stored,
            TP!Stored, Table!Ahead, TP!Ahead, Table!Abstract!Idle,
            TP!Abstract!Idle, Table!Abstract!Empty, TP!Abstract!Empty,
            Table!Abstract!Present, TP!Abstract!Present
<1>1. Table!Abstract!Create <=> TP!Abstract!Create
  BY DEF Table!Abstract!Create, TP!Abstract!Create
<1>2. Table!Abstract!Destroy <=> TP!Abstract!Destroy
  BY DEF Table!Abstract!Destroy, TP!Abstract!Destroy
<1>3. Table!Abstract!Display <=> TP!Abstract!Display
  BY DEF Table!Abstract!Display, TP!Abstract!Display
<1>4. Table!Abstract!Walk <=> TP!Abstract!Walk
  BY DEF Table!Abstract!Walk, TP!Abstract!Walk
<1>5. Table!Abstract!Visit <=> TP!Abstract!Visit
  BY DEF Table!Abstract!Visit, TP!Abstract!Visit
<1>6. \A k : Table!Abstract!Get(k) <=> TP!Abstract!Get(k)
  BY DEF Table!Abstract!Get, TP!Abstract!Get
<1>7. \A k : Table!Abstract!Del(k) <=> TP!Abstract!Del(k)
  BY DEF Table!Abstract!Del, TP!Abstract!Del
<1>8. \A k, v : Table!Abstract!Set(k, v) <=> TP!Abstract!Set(k, v)
  BY DEF Table!Abstract!Set, TP!Abstract!Set
<1>9. Table!Abstract!Next <=> TP!Abstract!Next
  BY <1>1, <1>2, <1>3, <1>4, <1>5, <1>6, <1>7, <1>8 DEF Table!Abstract!Next,
     TP!Abstract!Next
<1> QED
  BY <1>9 DEF Table!Abstract!Init, TP!Abstract!Init, Table!Abstract!vars,
     TP!Abstract!vars

\* One stream.
LEMMA SameStream ==
  /\ Stream!Init <=> SP!Init
  /\ Stream!Next <=> SP!Next
  /\ Stream!vars = SP!vars
  /\ SP!WireAssumption
  /\ Stream!TypeOK <=> SP!TypeOK
  /\ Stream!InSync <=> SP!InSync
  /\ Stream!FramesWhole <=> SP!FramesWhole
<1> USE DEF Stream!HeaderSize, SP!HeaderSize, Stream!Sum, SP!Sum, Stream!SizeOf,
            SP!SizeOf, Stream!StartOf, SP!StartOf, Stream!Start, SP!Start,
            Stream!Writers, SP!Writers, Stream!Nothing, SP!Nothing,
            Stream!Returned, SP!Returned
<1>1. Stream!Break <=> SP!Break
  BY DEF Stream!Break, SP!Break
<1>2. Stream!RecvFails <=> SP!RecvFails
  BY DEF Stream!RecvFails, SP!RecvFails
<1>3. Stream!Begin <=> SP!Begin
  BY DEF Stream!Begin, SP!Begin
<1>4. Stream!Dispatch <=> SP!Dispatch
  BY DEF Stream!Dispatch, SP!Dispatch
<1>5. Stream!RespondStarved <=> SP!RespondStarved
  BY DEF Stream!RespondStarved, SP!RespondStarved
<1>6. Stream!Header <=> SP!Header
  BY DEF Stream!Header, SP!Header, Stream!DrainPieces, SP!DrainPieces, Stream!Umin,
     SP!Umin, Stream!Refuses, SP!Refuses, Stream!Overflow, SP!Overflow
<1>7. Stream!Continue <=> SP!Continue
  BY DEF Stream!Continue, SP!Continue
<1>8. Stream!Answer <=> SP!Answer
  BY DEF Stream!Answer, SP!Answer
<1>9. Stream!DrainStarved <=> SP!DrainStarved
  BY DEF Stream!DrainStarved, SP!DrainStarved, Stream!DrainPieces, SP!DrainPieces,
     Stream!Umin, SP!Umin
<1>10. Stream!Rest <=> SP!Rest
  BY DEF Stream!Rest, SP!Rest, Stream!vars, SP!vars
<1>11. \A k : Stream!Recv(k) <=> SP!Recv(k)
  BY DEF Stream!Recv, SP!Recv
<1>12. \A k : Stream!SendLock(k) <=> SP!SendLock(k)
  BY DEF Stream!SendLock, SP!SendLock, Stream!Wants, SP!Wants
<1>13. \A k : Stream!SendReturns(k) <=> SP!SendReturns(k)
  BY DEF Stream!SendReturns, SP!SendReturns, Stream!Partial, SP!Partial
<1>14. \A k, v : Stream!SendPart(k, v) <=> SP!SendPart(k, v)
  BY DEF Stream!SendPart, SP!SendPart, Stream!Partial, SP!Partial
<1>15. Stream!Next <=> SP!Next
  BY <1>1, <1>2, <1>3, <1>4, <1>5, <1>6, <1>7, <1>8, <1>9, <1>10, <1>11, <1>12,
     <1>13, <1>14 DEF Stream!Next, SP!Next
<1> QED
  BY <1>15 DEF Stream!Init, SP!Init, Stream!vars, SP!vars, Stream!WireAssumption,
     SP!WireAssumption, Stream!TypeOK, SP!TypeOK, Stream!InSync, SP!InSync,
     Stream!FramesWhole, SP!FramesWhole

-----------------------------------------------------------------------------
(* The theorems.                                                           *)

\* A behaviour that is about the table is one of the table.
LEMMA TableStep ==
  ASSUME which = "table" => TP!IInv, [Next]_<<which, box, wire>>
  PROVE  /\ which' = "table" => TP!IInv'
         /\ [which = "table" => Table!Abstract!Next]_<<which, Table!Abstract!vars>>
<1>1. which' = which
  BY DEF Next
<1>2. CASE which # "table"
  BY <1>1, <1>2
<1>3. CASE which = "table"
  <2>1. [TP!Next]_(TP!vars)
    BY <1>3, SameTable DEF Next, box, TP!vars
  <2>2. TP!IInv' /\ [TP!Abstract!Next]_(TP!Abstract!vars)
    BY <1>3, <2>1, SameTable, TP!NextStep
  <2>3. TP!Abstract!vars' = TP!Abstract!vars => Table!Abstract!vars' = Table!Abstract!vars
    BY DEF TP!Abstract!vars, Table!Abstract!vars, TP!Stored, Table!Stored, TP!Ahead,
           Table!Ahead, TP!AllItems, Table!AllItems, TP!Slots, Table!Slots
  <2> QED
    BY <1>1, <2>2, <2>3, SameMap
<1> QED
  BY <1>2, <1>3

\* ht.c, for any keys, capacity and hash: every item is in the bucket its hash selects,
\* no key has two, and whatever allocation of whatever call fails the heap holds the
\* blocks of the table and of its items, and no other.
THEOREM TableCorrect == Spec => []TableIsWhole
<1>1. Init => (which = "table" => TP!IInv)
  BY SameTable, TP!InitStep DEF Init
<1>2. (which = "table" => TP!IInv) /\ [Next]_<<which, box, wire>> => (which = "table" => TP!IInv)'
  BY TableStep
<1>3. (which = "table" => TP!IInv) => TableIsWhole
  <2>1. TP!IInv => TP!Placed /\ TP!NoLeak
    BY TP!PlacedMeans DEF TP!IInv, TP!Whole
  <2>2. TP!Placed /\ TP!NoLeak => Table!Placed /\ Table!NoLeak
    BY DEF Table!Placed, TP!Placed, Table!NoLeak, TP!NoLeak, Table!Slots, TP!Slots,
           Table!Slot, TP!Slot, Table!Hash, TP!Hash, Table!Items, TP!Items,
           Table!ItemBlocks, TP!ItemBlocks
  <2> QED
    BY <2>1, <2>2 DEF TableIsWhole
<1> QED
  BY <1>1, <1>2, <1>3, PTL DEF Spec

\* ht.c implements Map: each call returns what the map says, one that runs out of memory
\* changes nothing, and a walk meets every key that was there once, whatever the function
\* it applies does.
THEOREM MapCorrect == Spec => ImplementsMap
<1>1. Init => (which = "table" => TP!IInv) /\ (which = "table" => Table!Abstract!Init)
  BY SameTable, SameMap, TP!InitStep DEF Init
<1>2. (which = "table" => TP!IInv) /\ [Next]_<<which, box, wire>> =>
        /\ (which = "table" => TP!IInv)'
        /\ [which = "table" => Table!Abstract!Next]_<<which, Table!Abstract!vars>>
  BY TableStep
<1> QED
  BY <1>1, <1>2, PTL DEF Spec, ImplementsMap

\* A behaviour that is about the connection is one of the connection.
LEMMA StreamStep ==
  ASSUME which = "stream" => SP!SyncInv, [Next]_<<which, box, wire>>
  PROVE  which' = "stream" => SP!SyncInv'
<1>1. which' = which
  BY DEF Next
<1>2. CASE which = "stream"
  <2>1. [SP!Next]_(SP!vars)
    BY <1>2, SameStream DEF Next, wire, SP!vars
  <2> QED
    BY <1>2, <2>1, SameStream, SP!NextSync
<1> QED
  BY <1>1, <1>2

\* The invariant of a connection, in every behaviour that is about one.
LEMMA StreamInvariance == Spec => [](which = "stream" => SP!SyncInv)
<1>1. Init => (which = "stream" => SP!SyncInv)
  BY SameStream, SP!InitSync DEF Init
<1>2. (which = "stream" => SP!SyncInv) /\ [Next]_<<which, box, wire>>
        => (which = "stream" => SP!SyncInv)'
  BY StreamStep
<1> QED
  BY <1>1, <1>2, PTL DEF Spec

\* For any requests and any sizes of packets and chunks: a worker that waits for a request
\* has taken the ones before it, whole, and nothing of this one, however recv cuts the
\* bytes up and whatever was refused; and no packet is overrun.
THEOREM StreamCorrect == Spec => []WorkersInSync
<1>1. (which = "stream" => SP!SyncInv) => WorkersInSync
  BY SameStream, SP!SyncMeans DEF WorkersInSync
<1> QED
  BY <1>1, StreamInvariance, PTL

\* What a client is sent is a sequence of whole frames, whoever sends at once and however
\* little send takes.
THEOREM FramesCorrect == Spec => []FramesWhole
<1>1. SP!SyncInv => SP!FramesWhole
  BY DEF SP!SyncInv, SP!IInv
<1>2. (which = "stream" => SP!SyncInv) => FramesWhole
  BY <1>1, SameStream DEF FramesWhole
<1> QED
  BY <1>2, StreamInvariance, PTL

-----------------------------------------------------------------------------
(* Chains.                                                                 *)

\* The i-th node of c, or NULL after the last.
Nth(c, i) == IF i \in DOMAIN c THEN c[i] ELSE List!NULL

\* From n, the links of h lead through the nodes c.
Chained(c, n, h) ==
  /\ c \in Seq(List!Nodes) /\ Distinct(c)
  /\ n = Nth(c, 1)
  /\ \A i \in DOMAIN c : h[c[i]].next = Nth(c, i + 1)

\* Nodes and their number.
LEMMA ListTypes ==
  /\ ListNodes \in Nat /\ List!Nodes = 1..ListNodes /\ List!NULL = 0
  /\ List!NULL \notin List!Nodes
  /\ \A d \in ListData : d \in Seq(Nat)
<1>1. List!SllAssumption
  BY LibrariesAssumption
<1> QED
  BY <1>1 DEF List!SllAssumption, List!Nodes, List!NULL

\* What List names again.
LEMMA SameCardinality == \A S : List!Cardinality(S) = Cardinality(S)
  BY DEF List!Cardinality, Cardinality

\* No chain is longer than there are nodes.
LEMMA ChainFits ==
  ASSUME NEW c \in Seq(List!Nodes), Distinct(c)
  PROVE  /\ Len(c) \in Nat /\ DOMAIN c = 1..Len(c) /\ Len(c) <= ListNodes
         /\ IsFiniteSet(Elements(c)) /\ Cardinality(Elements(c)) = Len(c)
         /\ Elements(c) \subseteq List!Nodes
         /\ \A i \in DOMAIN c : c[i] \in List!Nodes
<1> DEFINE n == Len(c)
<1>1. n \in Nat /\ DOMAIN c = 1..n /\ c \in [1..n -> List!Nodes]
  BY LenProperties
<1> HIDE DEF n
<1>2. Elements(c) \subseteq List!Nodes /\ \A i \in DOMAIN c : c[i] \in List!Nodes
  BY <1>1 DEF Elements
<1>3. IsFiniteSet(1..n) /\ Cardinality(1..n) = n
  BY <1>1, FS_Interval
<1>4. ExistsBijection(1..n, Elements(c))
  <2>1. c \in Bijection(1..n, Elements(c))
    BY <1>1 DEF Elements, Distinct, Bijection, Injection, Surjection, IsInjective
  <2> QED
    BY <2>1 DEF ExistsBijection
<1>5. IsFiniteSet(Elements(c)) /\ Cardinality(Elements(c)) = n
  BY <1>3, <1>4, FS_Bijection
<1>6. IsFiniteSet(List!Nodes) /\ Cardinality(List!Nodes) = ListNodes
  BY ListTypes, FS_Interval
<1>7. n <= ListNodes
  BY <1>2, <1>5, <1>6, FS_Subset
<1> QED
  BY <1>1, <1>2, <1>5, <1>7 DEF n

\* The links lead through one sequence of nodes.
LEMMA FollowIs ==
  ASSUME NEW c, NEW n, NEW h, Chained(c, n, h)
  PROVE  List!Follow(n, h) = c
<1> DEFINE M == ListNodes
           G(x) == [i \in 0..M |-> IF i = 0 THEN n
                                   ELSE IF x[i - 1] = List!NULL THEN List!NULL ELSE h[x[i - 1]].next]
           at == CHOOSE x : x = G(x)
           f == [i \in 0..M |-> Nth(c, i + 1)]
           T == {i \in Nat : i <= M => at[i] = Nth(c, i + 1)}
           L == Len(c)
<1>1. List!Follow(n, h) = [i \in 1..Cardinality({j \in 0..M : at[j] # List!NULL}) |-> at[i - 1]]
  BY SameCardinality DEF List!Follow
<1> HIDE DEF at
<1>2. /\ L \in Nat /\ DOMAIN c = 1..L /\ L <= M /\ M \in Nat /\ c \in [1..L -> List!Nodes]
      /\ \A i \in DOMAIN c : c[i] \in List!Nodes /\ c[i] # List!NULL
  BY ChainFits, ListTypes, LenProperties DEF Chained
<1> HIDE DEF L, M
<1>3. ASSUME NEW i \in 1..M
      PROVE  Nth(c, i + 1) = IF Nth(c, i) = List!NULL THEN List!NULL ELSE h[Nth(c, i)].next
  <2>1. CASE i \in DOMAIN c
    BY <1>2, <2>1 DEF Nth, Chained
  <2>2. CASE i \notin DOMAIN c
    <3>1. i + 1 \notin DOMAIN c
      BY <1>2, <2>2
    <3> QED
      BY <2>2, <3>1 DEF Nth
  <2> QED
    BY <2>1, <2>2
<1>4. f = G(f)
  <2> SUFFICES ASSUME NEW i \in 0..M
               PROVE  f[i] = IF i = 0 THEN n
                             ELSE IF f[i - 1] = List!NULL THEN List!NULL ELSE h[f[i - 1]].next
    OBVIOUS
  <2>1. CASE i = 0
    BY <1>2, <2>1 DEF Chained
  <2>2. CASE i # 0
    <3>1. i \in 1..M /\ i - 1 \in 0..M /\ (i - 1) + 1 = i
      BY <1>2, <2>2
    <3>2. f[i - 1] = Nth(c, i) /\ f[i] = Nth(c, i + 1)
      BY <3>1
    <3> HIDE DEF f
    <3> QED
      BY <1>3, <2>2, <3>1, <3>2
  <2> QED
    BY <2>1, <2>2
<1> HIDE DEF f, G
<1>5. at = G(at)
  BY <1>4 DEF at
<1>6. at = [i \in 0..M |-> IF i = 0 THEN n
                           ELSE IF at[i - 1] = List!NULL THEN List!NULL ELSE h[at[i - 1]].next]
  BY <1>5 DEF G
<1>7. at[0] = n /\ \A i \in 1..M : at[i] = IF at[i - 1] = List!NULL THEN List!NULL ELSE h[at[i - 1]].next
  <2>1. 0 \in 0..M /\ \A i \in 1..M : i \in 0..M /\ i # 0
    BY <1>2
  <2> QED
    BY <1>6, <2>1
<1>8. 0 \in T
  <2>1. at[0] = Nth(c, 0 + 1)
    BY <1>7 DEF Chained
  <2> QED
    BY <2>1
<1>9. ASSUME NEW i \in T PROVE i + 1 \in T
  <2> SUFFICES ASSUME i + 1 <= M PROVE at[i + 1] = Nth(c, (i + 1) + 1)
    OBVIOUS
  <2>1. i \in Nat /\ i <= M /\ at[i] = Nth(c, i + 1) /\ i + 1 \in 1..M /\ (i + 1) - 1 = i
    BY <1>2
  <2> QED
    BY <1>3, <1>7, <2>1
<1>10. T \in SUBSET Nat
  OBVIOUS
<1> HIDE DEF T
<1>11. T = Nat
  BY <1>8, <1>9, <1>10, SetInduction
<1>12. \A i \in 0..M : at[i] = Nth(c, i + 1)
  BY <1>2, <1>11 DEF T
<1>13. {j \in 0..M : at[j] # List!NULL} = 0..(L - 1)
  <2>1. \A j \in 0..M : at[j] # List!NULL <=> j + 1 \in DOMAIN c
    BY <1>2, <1>12 DEF Nth
  <2>2. \A j \in 0..M : j + 1 \in DOMAIN c <=> j \in 0..(L - 1)
    BY <1>2
  <2>3. \A j \in 0..(L - 1) : j \in 0..M
    BY <1>2
  <2> QED
    BY <2>1, <2>2, <2>3
<1>14. Cardinality(0..(L - 1)) = L
  BY <1>2, FS_Interval
<1>15. \A i \in 1..L : at[i - 1] = c[i]
  <2>1. \A i \in 1..L : i - 1 \in 0..M /\ (i - 1) + 1 = i
    BY <1>2
  <2> QED
    BY <1>2, <1>12, <2>1 DEF Nth
<1>16. List!Follow(n, h) = [i \in 1..L |-> at[i - 1]]
  BY <1>1, <1>13, <1>14
<1> QED
  BY <1>2, <1>15, <1>16

\* The nodes of c from the k-th on.
From(c, k) == SubSeq(c, k, Len(c))

\* A walk in the middle of a list has a chain of its own.
LEMMA ChainedFrom ==
  ASSUME NEW c, NEW n, NEW h, Chained(c, n, h), NEW k \in 1..(Len(c) + 1)
  PROVE  /\ Chained(From(c, k), Nth(c, k), h)
         /\ Len(From(c, k)) = Len(c) + 1 - k
         /\ \A i \in 1..(Len(c) + 1 - k) : From(c, k)[i] = c[k + i - 1]
<1> DEFINE L == Len(c)
           r == From(c, k)
<1>1. /\ L \in Nat /\ DOMAIN c = 1..L /\ k \in 1..(L + 1)
      /\ c \in [1..L -> List!Nodes] /\ c \in Seq(List!Nodes)
  BY LenProperties DEF Chained
<1>2. r \in Seq(List!Nodes) /\ Len(r) = L + 1 - k /\ \A i \in 1..(L + 1 - k) : r[i] = c[k + i - 1]
  <2>1. \A i \in k..L : c[i] \in List!Nodes
    BY <1>1
  <2>2. /\ r \in Seq(List!Nodes) /\ Len(r) = IF k <= L THEN L - k + 1 ELSE 0
        /\ \A i \in 1..(L - k + 1) : r[i] = c[k + i - 1]
    BY <1>1, <2>1, SubSeqProperties DEF From
  <2> HIDE DEF L, r
  <2>3. L - k + 1 = L + 1 - k /\ Len(r) = L + 1 - k
    BY <1>1, <2>2
  <2> QED
    BY <2>2, <2>3
<1>3. DOMAIN r = 1..(L + 1 - k)
  BY <1>2, LenProperties
<1> HIDE DEF L, r
<1>4. \A i \in 1..(L + 1 - k) : k + i - 1 \in DOMAIN c /\ (k + i - 1) + 1 = k + (i + 1) - 1
  BY <1>1
<1>5. \A i \in Nat \ {0} : Nth(r, i) = Nth(c, k + i - 1)
  <2> SUFFICES ASSUME NEW i \in Nat \ {0} PROVE Nth(r, i) = Nth(c, k + i - 1)
    OBVIOUS
  <2>1. i \in DOMAIN r <=> k + i - 1 \in DOMAIN c
    BY <1>1, <1>3
  <2> QED
    BY <1>2, <1>3, <2>1 DEF Nth
<1>6. Distinct(r)
  <2> SUFFICES ASSUME NEW i \in DOMAIN r, NEW j \in DOMAIN r, r[i] = r[j] PROVE i = j
    BY DEF Distinct
  <2>1. c[k + i - 1] = c[k + j - 1] /\ k + i - 1 \in DOMAIN c /\ k + j - 1 \in DOMAIN c
    BY <1>2, <1>3, <1>4
  <2>2. k + i - 1 = k + j - 1
    BY <2>1 DEF Chained, Distinct
  <2> QED
    BY <1>1, <1>3, <2>2
<1>7. Nth(c, k) = Nth(r, 1)
  <2>1. k + 1 - 1 = k
    BY <1>1
  <2> QED
    BY <1>5, <2>1
<1>8. \A i \in DOMAIN r : h[r[i]].next = Nth(r, i + 1)
  <2> SUFFICES ASSUME NEW i \in DOMAIN r PROVE h[r[i]].next = Nth(r, i + 1)
    OBVIOUS
  <2>1. h[r[i]].next = Nth(c, (k + i - 1) + 1)
    BY <1>2, <1>3, <1>4 DEF Chained
  <2>2. i + 1 \in Nat \ {0}
    BY <1>1, <1>3
  <2> QED
    BY <1>3, <1>4, <1>5, <2>1, <2>2
<1> QED
  BY <1>2, <1>6, <1>7, <1>8 DEF Chained, r, L

\* sll_insert's links, if the link to the new node m is the only other one changed.
LEMMA ChainedInsert ==
  ASSUME NEW c, NEW n, NEW h, Chained(c, n, h), NEW i \in 0..Len(c),
         NEW m \in List!Nodes \ Elements(c), NEW g,
         g[m].next = Nth(c, i + 1),
         \A k \in DOMAIN c : g[c[k]].next = IF k = i THEN m ELSE h[c[k]].next
  PROVE  /\ Chained(Inserted(c, i, m), IF i = 0 THEN m ELSE n, g)
         /\ Elements(Inserted(c, i, m)) = Elements(c) \cup {m}
         /\ Len(Inserted(c, i, m)) = Len(c) + 1
<1> DEFINE L == Len(c)
           r == Inserted(c, i, m)
<1>1. /\ L \in Nat /\ DOMAIN c = 1..L /\ i \in 0..L
      /\ c \in [1..L -> List!Nodes] /\ c \in Seq(List!Nodes)
  BY LenProperties DEF Chained
<1>2. /\ r \in Seq(List!Nodes) /\ Len(r) = L + 1
      /\ \A k \in 1..i : r[k] = c[k]
      /\ r[i + 1] = m
      /\ \A k \in (i + 2)..(L + 1) : r[k] = c[k - 1]
  <2>1. m \in List!Nodes /\ i \in 0..Len(c)
    OBVIOUS
  <2>2. r \in Seq(List!Nodes) /\ Spliced(r, c, i, m)
    BY <1>1, <2>1, InsertedIs, Zenon
  <2> HIDE DEF r
  <2> QED
    BY <2>2 DEF Spliced
<1>3. DOMAIN r = 1..(L + 1)
  BY <1>2, LenProperties
<1>4. m \in List!Nodes /\ \A k \in DOMAIN c : c[k] # m
  BY DEF Elements
<1> HIDE DEF L, r
<1>5. \A k \in 1..(L + 1) : k \in 1..i \/ k = i + 1 \/ k \in (i + 2)..(L + 1)
  BY <1>1
<1>6. \A k \in 1..i : k \in DOMAIN c
  BY <1>1
<1>7. \A k \in (i + 2)..(L + 1) : k - 1 \in DOMAIN c /\ k - 1 # i /\ k - 1 > i
  BY <1>1
<1>8. Distinct(r)
  <2> SUFFICES ASSUME NEW j \in DOMAIN r, NEW k \in DOMAIN r, r[j] = r[k], j < k PROVE FALSE
    BY <1>1, <1>3 DEF Distinct
  <2>1. \A a, b \in DOMAIN c : c[a] = c[b] => a = b
    BY DEF Chained, Distinct
  <2>2. CASE k \in 1..i
    <3>1. j \in 1..i
      BY <1>1, <1>3, <2>2
    <3>2. c[j] = c[k] /\ j \in DOMAIN c /\ k \in DOMAIN c
      BY <1>2, <1>6, <2>2, <3>1
    <3> QED
      BY <1>1, <1>3, <2>1, <3>2
  <2>3. CASE k = i + 1
    <3>1. j \in 1..i
      BY <1>1, <1>3, <2>3
    <3> QED
      BY <1>2, <1>4, <1>6, <2>3, <3>1
  <2>4. CASE k \in (i + 2)..(L + 1)
    <3>1. CASE j \in 1..i
      <4>1. c[j] = c[k - 1] /\ j # k - 1 /\ j \in DOMAIN c /\ k - 1 \in DOMAIN c
        BY <1>1, <1>2, <1>6, <1>7, <2>4, <3>1
      <4> QED
        BY <2>1, <4>1
    <3>2. CASE j = i + 1
      BY <1>2, <1>4, <1>7, <2>4, <3>2
    <3>3. CASE j \in (i + 2)..(L + 1)
      <4>1. c[j - 1] = c[k - 1] /\ j - 1 # k - 1 /\ j - 1 \in DOMAIN c /\ k - 1 \in DOMAIN c
        BY <1>1, <1>2, <1>7, <2>4, <3>3
      <4> QED
        BY <2>1, <4>1
    <3> QED
      BY <1>3, <1>5, <3>1, <3>2, <3>3
  <2> QED
    BY <1>3, <1>5, <2>2, <2>3, <2>4
<1>9. (IF i = 0 THEN m ELSE n) = Nth(r, 1)
  <2>1. 1 \in DOMAIN r
    BY <1>1, <1>3
  <2>2. CASE i = 0
    BY <1>2, <2>1, <2>2 DEF Nth
  <2>3. CASE i # 0
    <3>1. 1 \in 1..i /\ 1 \in DOMAIN c
      BY <1>1, <2>3
    <3> QED
      BY <1>2, <2>1, <2>3, <3>1 DEF Nth, Chained
  <2> QED
    BY <2>2, <2>3
<1>10. ASSUME NEW k \in DOMAIN r PROVE g[r[k]].next = Nth(r, k + 1)
  <2>1. CASE k \in 1..(i - 1)
    <3>1. k \in 1..i /\ k + 1 \in 1..i /\ k \in DOMAIN c /\ k + 1 \in DOMAIN c /\ k + 1 \in DOMAIN r /\ k # i
      BY <1>1, <1>3, <2>1
    <3>2. r[k] = c[k] /\ r[k + 1] = c[k + 1]
      BY <1>2, <3>1
    <3>3. g[c[k]].next = Nth(c, k + 1)
      BY <3>1 DEF Chained
    <3> QED
      BY <3>1, <3>2, <3>3 DEF Nth
  <2>2. CASE k = i
    <3>1. k \in 1..i /\ k \in DOMAIN c /\ k + 1 \in DOMAIN r
      BY <1>1, <1>3, <2>2
    <3>2. r[k] = c[k] /\ r[k + 1] = m
      BY <1>2, <2>2, <3>1
    <3>3. g[c[k]].next = m
      BY <2>2, <3>1
    <3> QED
      BY <3>1, <3>2, <3>3 DEF Nth
  <2>3. CASE k = i + 1
    <3>1. r[k] = m /\ k + 1 = i + 2
      BY <1>1, <1>2, <2>3
    <3>2. Nth(r, i + 2) = Nth(c, i + 1)
      <4>1. CASE i + 1 \in DOMAIN c
        <5>1. i + 2 \in DOMAIN r /\ i + 2 \in (i + 2)..(L + 1) /\ (i + 2) - 1 = i + 1
          BY <1>1, <1>3, <4>1
        <5> QED
          BY <1>2, <4>1, <5>1 DEF Nth
      <4>2. CASE i + 1 \notin DOMAIN c
        <5>1. i + 2 \notin DOMAIN r
          BY <1>1, <1>3, <4>2
        <5> QED
          BY <4>2, <5>1 DEF Nth
      <4> QED
        BY <4>1, <4>2
    <3> QED
      BY <3>1, <3>2
  <2>4. CASE k \in (i + 2)..(L + 1)
    <3>1. r[k] = c[k - 1] /\ k - 1 \in DOMAIN c /\ k - 1 # i /\ (k - 1) + 1 = k
      BY <1>1, <1>2, <1>7, <2>4
    <3>2. g[r[k]].next = Nth(c, k)
      <4>1. h[c[k - 1]].next = Nth(c, (k - 1) + 1)
        BY <3>1 DEF Chained
      <4> QED
        BY <3>1, <4>1
    <3>3. Nth(c, k) = Nth(r, k + 1)
      <4>1. CASE k \in DOMAIN c
        <5>1. k + 1 \in DOMAIN r /\ k + 1 \in (i + 2)..(L + 1) /\ (k + 1) - 1 = k
          BY <1>1, <1>3, <2>4, <4>1
        <5> QED
          BY <1>2, <4>1, <5>1 DEF Nth
      <4>2. CASE k \notin DOMAIN c
        <5>1. k + 1 \notin DOMAIN r
          BY <1>1, <1>3, <2>4, <4>2
        <5> QED
          BY <4>2, <5>1 DEF Nth
      <4> QED
        BY <4>1, <4>2
    <3> QED
      BY <3>2, <3>3
  <2>5. k \in 1..(i - 1) \/ k = i \/ k = i + 1 \/ k \in (i + 2)..(L + 1)
    BY <1>1, <1>3
  <2> QED
    BY <2>1, <2>2, <2>3, <2>4, <2>5
<1>11. Elements(r) = Elements(c) \cup {m}
  <2>1. \A k \in DOMAIN r : r[k] \in Elements(c) \cup {m}
    BY <1>2, <1>3, <1>5, <1>6, <1>7 DEF Elements
  <2>2. m \in Elements(r)
    <3>1. i + 1 \in DOMAIN r
      BY <1>1, <1>3
    <3> QED
      BY <1>2, <3>1 DEF Elements
  <2>3. ASSUME NEW k \in DOMAIN c PROVE c[k] \in Elements(r)
    <3>1. CASE k \in 1..i
      <4>1. k \in DOMAIN r
        BY <1>1, <1>3, <3>1
      <4> QED
        BY <1>2, <3>1, <4>1 DEF Elements
    <3>2. CASE k \notin 1..i
      <4>1. k + 1 \in DOMAIN r /\ k + 1 \in (i + 2)..(L + 1) /\ (k + 1) - 1 = k
        BY <1>1, <1>3, <3>2
      <4>2. r[k + 1] = c[k]
        BY <1>2, <4>1
      <4> QED
        BY <4>1, <4>2 DEF Elements
    <3> QED
      BY <3>1, <3>2
  <2> QED
    BY <2>1, <2>2, <2>3 DEF Elements
<1> QED
  BY <1>2, <1>8, <1>9, <1>10, <1>11 DEF Chained, r, L

\* sll_remove's links: only the one that precedes the node is changed.
Skips(g, h, c, i) ==
  \A k \in DOMAIN c : k # i =>
    g[c[k]].next = IF k = i - 1 THEN h[c[i]].next ELSE h[c[k]].next

\* The removal of its i-th node from a chain, for links that lead past it.
LEMMA ChainedRemove ==
  ASSUME NEW c, NEW n, NEW h, Chained(c, n, h), NEW i \in DOMAIN c, NEW g, Skips(g, h, c, i),
         NEW m, m = IF i = 1 THEN h[c[i]].next ELSE n
  PROVE  /\ Chained(Removed(c, i), m, g)
         /\ Elements(Removed(c, i)) = Elements(c) \ {c[i]}
         /\ Len(Removed(c, i)) = Len(c) - 1
<1> DEFINE L == Len(c)
           r == Removed(c, i)
           old(k) == IF k < i THEN k ELSE k + 1
<1>1. /\ L \in Nat /\ DOMAIN c = 1..L /\ i \in 1..L
      /\ c \in [1..L -> List!Nodes] /\ c \in Seq(List!Nodes)
  BY LenProperties DEF Chained
<1>2. /\ r \in Seq(List!Nodes) /\ Len(r) = L - 1
      /\ \A k \in 1..(i - 1) : r[k] = c[k]
      /\ \A k \in i..(L - 1) : r[k] = c[k + 1]
  <2>1. i \in 1..Len(c)
    BY <1>1
  <2>2. r \in Seq(List!Nodes) /\ CutAt(r, c, i)
    BY <1>1, <2>1, RemovedIs, Zenon
  <2> HIDE DEF r
  <2> QED
    BY <2>2 DEF CutAt
<1>3. DOMAIN r = 1..(L - 1)
  BY <1>2, LenProperties
<1> HIDE DEF L, r
<1>4. \A k \in DOMAIN r : old(k) \in DOMAIN c /\ old(k) # i /\ r[k] = c[old(k)]
  BY <1>1, <1>2, <1>3
<1>5. \A k \in 1..L : Nth(r, k) = Nth(c, old(k))
  <2> SUFFICES ASSUME NEW k \in 1..L PROVE Nth(r, k) = Nth(c, old(k))
    OBVIOUS
  <2>1. k \in DOMAIN r \/ (k = L /\ k \notin DOMAIN r /\ old(k) \notin DOMAIN c)
    BY <1>1, <1>3
  <2> QED
    BY <1>4, <2>1 DEF Nth
<1>6. \A j, k \in DOMAIN r : old(j) = old(k) => j = k
  BY <1>1, <1>3
<1>7. \A a, b \in DOMAIN c : c[a] = c[b] => a = b
  BY DEF Chained, Distinct
<1>8. Distinct(r)
  <2> HIDE DEF old
  <2> QED
    BY <1>4, <1>6, <1>7 DEF Distinct
<1>9. m = Nth(r, 1)
  <2>1. 1 \in 1..L
    BY <1>1
  <2>2. CASE i = 1
    <3>1. Nth(r, 1) = Nth(c, 1 + 1)
      BY <1>5, <2>1, <2>2
    <3> QED
      BY <2>2, <3>1 DEF Chained
  <2>3. CASE i # 1
    <3>1. Nth(r, 1) = Nth(c, 1)
      BY <1>1, <1>5, <2>1, <2>3
    <3> QED
      BY <2>3, <3>1 DEF Chained
  <2> QED
    BY <2>2, <2>3
<1>10. ASSUME NEW k \in DOMAIN r PROVE g[r[k]].next = Nth(r, k + 1)
  <2>1. k + 1 \in 1..L /\ k \in 1..L
    BY <1>1, <1>3
  <2>2. Nth(r, k + 1) = Nth(c, old(k + 1))
    BY <1>5, <2>1
  <2>3. old(k) \in DOMAIN c /\ old(k) # i /\ r[k] = c[old(k)]
    BY <1>4
  <2>4. CASE old(k) = i - 1
    <3>1. old(k + 1) = i + 1
      BY <1>1, <2>1, <2>4
    <3>2. g[r[k]].next = h[c[i]].next
      BY <2>3, <2>4 DEF Skips
    <3>3. h[c[i]].next = Nth(c, i + 1)
      BY DEF Chained
    <3> QED
      BY <2>2, <3>1, <3>2, <3>3
  <2>5. CASE old(k) # i - 1
    <3>1. old(k + 1) = old(k) + 1
      BY <1>1, <2>1, <2>5
    <3> HIDE DEF old
    <3>2. g[r[k]].next = h[c[old(k)]].next
      BY <2>3, <2>5 DEF Skips
    <3>3. h[c[old(k)]].next = Nth(c, old(k) + 1)
      BY <2>3 DEF Chained
    <3> QED
      BY <2>2, <3>1, <3>2, <3>3
  <2> QED
    BY <2>4, <2>5
<1>11. Elements(r) = Elements(c) \ {c[i]}
  <2>1. \A k \in DOMAIN r : r[k] \in Elements(c) \ {c[i]}
    <3> HIDE DEF old
    <3> QED
      BY <1>4, <1>7 DEF Elements
  <2>2. ASSUME NEW k \in DOMAIN c, k # i PROVE c[k] \in Elements(r)
    <3>1. CASE k < i
      <4>1. k \in DOMAIN r /\ old(k) = k
        BY <1>1, <1>3, <3>1
      <4>2. r[k] = c[k]
        BY <1>4, <4>1
      <4> QED
        BY <4>1, <4>2 DEF Elements
    <3>2. CASE k > i
      <4>1. k - 1 \in DOMAIN r /\ old(k - 1) = k
        BY <1>1, <1>3, <3>2
      <4>2. r[k - 1] = c[k]
        BY <1>4, <4>1
      <4> QED
        BY <4>1, <4>2 DEF Elements
    <3> QED
      BY <1>1, <2>2, <3>1, <3>2
  <2> QED
    BY <2>1, <2>2 DEF Elements
<1> QED
  BY <1>2, <1>8, <1>9, <1>10, <1>11 DEF Chained, r, L

-----------------------------------------------------------------------------
(* Byte strings.                                                           *)

\* umin
LEMMA UminIs ==
  ASSUME NEW m \in Nat, NEW n \in Nat
  PROVE  /\ Umin(m, n) \in Nat /\ Umin(m, n) <= m /\ Umin(m, n) <= n
         /\ Umin(m, n) = m \/ Umin(m, n) = n
  BY DEF Umin

\* data_compare finds no difference only between equal strings.
LEMMA CompareIs ==
  ASSUME NEW a \in Seq(Nat), NEW b \in Seq(Nat)
  PROVE  Compare(a, b) = 0 <=> a = b
<1> DEFINE n == Umin(Len(a), Len(b))
           differ == {i \in 1..n : a[i] # b[i]}
           first == CHOOSE i \in differ : \A j \in differ : i <= j
<1>1. /\ Len(a) \in Nat /\ Len(b) \in Nat /\ DOMAIN a = 1..Len(a) /\ DOMAIN b = 1..Len(b)
      /\ \A i \in 1..Len(a) : a[i] \in Nat
      /\ \A i \in 1..Len(b) : b[i] \in Nat
  BY LenProperties
<1>2. n \in Nat /\ n <= Len(a) /\ n <= Len(b) /\ (Len(a) = Len(b) => n = Len(a))
  <2> HIDE DEF differ, first
  <2> QED
    BY <1>1, UminIs
<1>3. Memcmp(a, b, n) = IF differ = {} THEN 0 ELSE a[first] - b[first]
  BY DEF Memcmp
<1>4. Compare(a, b) = IF Memcmp(a, b, n) # 0 THEN Memcmp(a, b, n) ELSE Len(a) - Len(b)
  BY DEF Compare
<1> HIDE DEF n, first
<1>5. differ # {} => first \in differ
  <2>1. differ \in SUBSET Nat
    BY <1>2
  <2> HIDE DEF differ
  <2> QED
    BY <2>1, Least DEF first
<1>6. differ # {} => Memcmp(a, b, n) # 0
  <2>1. differ # {} => /\ first \in 1..Len(a) /\ first \in 1..Len(b)
                       /\ a[first] # b[first]
    <3>1. differ # {} => first \in 1..n /\ a[first] # b[first]
      BY <1>5
    <3>2. Len(a) \in Nat /\ Len(b) \in Nat
      BY <1>1
    <3>3. 1..n \subseteq 1..Len(a) /\ 1..n \subseteq 1..Len(b)
      BY <1>2, <3>2
    <3> HIDE DEF differ
    <3> QED
      BY <3>1, <3>3
  <2>2. differ # {} => a[first] \in Nat /\ b[first] \in Nat
    BY <1>1, <2>1
  <2> HIDE DEF differ
  <2> QED
    BY <1>3, <2>1, <2>2
<1>7. ASSUME Compare(a, b) = 0 PROVE a = b
  <2>1. differ = {} /\ Len(a) - Len(b) = 0
    BY <1>4, <1>6, <1>7
  <2>2. Len(a) = Len(b) /\ n = Len(a)
    <3>1. Len(a) \in Nat /\ Len(b) \in Nat
      BY <1>1
    <3> HIDE DEF differ
    <3> QED
      BY <1>2, <2>1, <3>1
  <2>3. \A i \in 1..Len(a) : a[i] = b[i]
    BY <2>1, <2>2
  <2> QED
    BY <2>2, <2>3, SeqEqual
<1>8. ASSUME a = b PROVE Compare(a, b) = 0
  <2>1. differ = {}
    BY <1>8
  <2>2. Memcmp(a, b, n) = 0 /\ Len(a) - Len(b) = 0
    BY <1>1, <1>3, <1>8, <2>1
  <2> QED
    BY <1>4, <2>2
<1> QED
  BY <1>7, <1>8

\* The comparison in List.
LEMMA SameCompare == \A a, b : List!Compare(a, b) = Compare(a, b)
  BY DEF List!Compare, Compare, List!Memcmp, Memcmp, List!Umin, Umin

-----------------------------------------------------------------------------
(* The list.                                                               *)

\* What a node holds: bytes.
Strings == Seq(Nat)

\* A node.
Cell == [data : Strings, next : 0..ListNodes]

\* The links lead to what is allocated, and len is its number.
ListInv ==
  /\ made \in BOOLEAN
  /\ heap \in [List!Nodes -> Cell]
  /\ Chained(List!Chain, p_head, heap)
  /\ Elements(List!Chain) = live
  /\ len = Len(List!Chain)
  /\ walk \in live \cup {List!NULL}
  /\ ~made => live = {} /\ walk = List!NULL

\* What the nodes hold.
LEMMA ContentsIs ==
  ASSUME NEW h \in [List!Nodes -> Cell], NEW q \in Seq(List!Nodes)
  PROVE  /\ List!Contents(q, h) \in Seq(Strings)
         /\ Len(List!Contents(q, h)) = Len(q)
         /\ DOMAIN List!Contents(q, h) = 1..Len(q)
         /\ Len(q) \in Nat
         /\ \A i \in 1..Len(q) : /\ List!Contents(q, h)[i] = h[q[i]].data
                                 /\ h[q[i]].data \in Strings
<1>1. Len(q) \in Nat /\ DOMAIN q = 1..Len(q) /\ \A i \in 1..Len(q) : q[i] \in List!Nodes
  BY LenProperties
<1>2. \A i \in 1..Len(q) : h[q[i]].data \in Strings
  BY <1>1 DEF Cell
<1> DEFINE r == List!Contents(q, h)
<1>3. r = [i \in 1..Len(q) |-> h[q[i]].data]
  BY <1>1 DEF List!Contents
<1> HIDE DEF r
<1>4. r \in [1..Len(q) -> Strings]
  BY <1>2, <1>3
<1>5. r \in Seq(Strings)
  BY <1>1, <1>4, SeqDef
<1>6. Len(r) = Len(q)
  BY <1>1, <1>3, <1>5, LenProperties
<1> QED
  BY <1>1, <1>2, <1>3, <1>5, <1>6 DEF r

\* An insertion of a node is one of what it holds.
LEMMA ContentsInsert ==
  ASSUME NEW h \in [List!Nodes -> Cell], NEW g \in [List!Nodes -> Cell],
         NEW c \in Seq(List!Nodes), NEW i \in 0..Len(c), NEW m \in List!Nodes,
         \A k \in 1..Len(c) : g[c[k]].data = h[c[k]].data
  PROVE  List!Contents(Inserted(c, i, m), g) = Inserted(List!Contents(c, h), i, g[m].data)
<1> DEFINE q == List!Contents(c, h)
           r == Inserted(c, i, m)
           s == List!Contents(r, g)
           d == g[m].data
           t == Inserted(q, i, d)
           n == Len(c)
<1>1. d \in Strings
  BY DEF Cell
<1>2. q \in Seq(Strings) /\ Len(q) = n /\ n \in Nat /\ \A k \in 1..n : q[k] = h[c[k]].data
  BY ContentsIs
<1>3. /\ r \in Seq(List!Nodes) /\ Len(r) = n + 1
      /\ \A k \in 1..i : r[k] = c[k]
      /\ r[i + 1] = m
      /\ \A k \in (i + 2)..(n + 1) : r[k] = c[k - 1]
  <2>1. r \in Seq(List!Nodes) /\ Spliced(r, c, i, m)
    BY InsertedIs, Zenon
  <2> HIDE DEF r
  <2> QED
    BY <2>1 DEF Spliced
<1> HIDE DEF r
<1>4. s \in Seq(Strings) /\ Len(s) = n + 1 /\ \A k \in 1..(n + 1) : s[k] = g[r[k]].data
  BY <1>3, ContentsIs
<1> HIDE DEF q, d, s
<1>5. i \in 0..Len(q)
  BY <1>2
<1>6. /\ t \in Seq(Strings) /\ Len(t) = Len(q) + 1
      /\ \A k \in 1..i : t[k] = q[k]
      /\ t[i + 1] = d
      /\ \A k \in (i + 2)..(Len(q) + 1) : t[k] = q[k - 1]
  <2>1. t \in Seq(Strings) /\ Spliced(t, q, i, d)
    BY <1>1, <1>2, <1>5, InsertedIs, Zenon
  <2> HIDE DEF t
  <2> QED
    BY <2>1 DEF Spliced
<1> HIDE DEF t, n
<1>7. ASSUME NEW k \in 1..(n + 1) PROVE s[k] = t[k]
  <2>0. n \in Nat /\ i \in 0..n
    BY <1>2, <1>5
  <2>1. CASE k \in 1..i
    <3>1. k \in 1..n
      BY <2>0, <2>1
    <3>2. r[k] = c[k] /\ t[k] = q[k] /\ q[k] = h[c[k]].data /\ s[k] = g[r[k]].data
      BY <1>2, <1>3, <1>4, <1>6, <2>1, <3>1
    <3> QED
      BY <3>1, <3>2 DEF n
  <2>2. CASE k = i + 1
    BY <1>3, <1>4, <1>6, <2>2 DEF d
  <2>3. CASE k \in (i + 2)..(n + 1)
    <3>1. k - 1 \in 1..n
      BY <2>0, <2>3
    <3>2. /\ r[k] = c[k - 1] /\ t[k] = q[k - 1] /\ q[k - 1] = h[c[k - 1]].data
          /\ s[k] = g[r[k]].data
      BY <1>2, <1>3, <1>4, <1>6, <2>3, <3>1
    <3> QED
      BY <3>1, <3>2 DEF n
  <2> QED
    BY <2>0, <2>1, <2>2, <2>3
<1>8. s = t
  BY <1>2, <1>4, <1>6, <1>7, SeqEqual
<1> QED
  BY <1>8 DEF s, t, q, d, r

\* A removal of a node is one of what it holds.
LEMMA ContentsRemove ==
  ASSUME NEW h \in [List!Nodes -> Cell], NEW g \in [List!Nodes -> Cell],
         NEW c \in Seq(List!Nodes), NEW i \in 1..Len(c),
         \A k \in 1..Len(c) : k # i => g[c[k]].data = h[c[k]].data
  PROVE  List!Contents(Removed(c, i), g) = Removed(List!Contents(c, h), i)
<1> DEFINE q == List!Contents(c, h)
           r == Removed(c, i)
           s == List!Contents(r, g)
           t == Removed(q, i)
           n == Len(c)
<1>1. q \in Seq(Strings) /\ Len(q) = n /\ n \in Nat /\ \A k \in 1..n : q[k] = h[c[k]].data
  BY ContentsIs
<1>2. /\ r \in Seq(List!Nodes) /\ Len(r) = n - 1
      /\ \A k \in 1..(i - 1) : r[k] = c[k]
      /\ \A k \in i..(n - 1) : r[k] = c[k + 1]
  <2>1. r \in Seq(List!Nodes) /\ CutAt(r, c, i)
    BY RemovedIs, Zenon
  <2> HIDE DEF r
  <2> QED
    BY <2>1 DEF CutAt
<1> HIDE DEF r
<1>3. s \in Seq(Strings) /\ Len(s) = n - 1 /\ \A k \in 1..(n - 1) : s[k] = g[r[k]].data
  BY <1>2, ContentsIs
<1> HIDE DEF q, s
<1>4. i \in 1..Len(q)
  BY <1>1
<1>5. /\ t \in Seq(Strings) /\ Len(t) = Len(q) - 1
      /\ \A k \in 1..(i - 1) : t[k] = q[k]
      /\ \A k \in i..(Len(q) - 1) : t[k] = q[k + 1]
  <2>1. t \in Seq(Strings) /\ CutAt(t, q, i)
    BY <1>1, <1>4, RemovedIs, Zenon
  <2> HIDE DEF t
  <2> QED
    BY <2>1 DEF CutAt
<1> HIDE DEF t, n
<1>6. ASSUME NEW k \in 1..(n - 1) PROVE s[k] = t[k]
  <2>0. n \in Nat /\ i \in 1..n
    BY <1>1, <1>4
  <2>1. CASE k \in 1..(i - 1)
    <3>1. k \in 1..n /\ k # i
      BY <2>0, <2>1
    <3>2. r[k] = c[k] /\ t[k] = q[k] /\ q[k] = h[c[k]].data /\ s[k] = g[r[k]].data
      BY <1>1, <1>2, <1>3, <1>5, <2>1, <3>1
    <3> QED
      BY <3>1, <3>2 DEF n
  <2>2. CASE k \in i..(n - 1)
    <3>1. k + 1 \in 1..n /\ k + 1 # i
      BY <2>0, <2>2
    <3>2. /\ r[k] = c[k + 1] /\ t[k] = q[k + 1] /\ q[k + 1] = h[c[k + 1]].data
          /\ s[k] = g[r[k]].data
      BY <1>1, <1>2, <1>3, <1>5, <2>2, <3>1
    <3> QED
      BY <3>1, <3>2 DEF n
  <2> QED
    BY <2>0, <2>1, <2>2
<1>7. s = t
  BY <1>1, <1>3, <1>5, <1>6, SeqEqual
<1> QED
  BY <1>7 DEF s, t, q, r

\* The list at rest.
LEMMA ListFacts ==
  ASSUME ListInv
  PROVE  LET c == List!Chain
             q == List!Contents(c, heap)
         IN  /\ c \in Seq(List!Nodes) /\ Distinct(c)
             /\ len \in 0..ListNodes /\ DOMAIN c = 1..len
             /\ live \subseteq List!Nodes /\ Cardinality(live) = len
             /\ \A i \in 1..len : c[i] \in live /\ c[i] \in List!Nodes /\ c[i] # List!NULL
             /\ q \in Seq(Strings) /\ Len(q) = len /\ DOMAIN q = 1..len
             /\ \A i \in 1..len : q[i] = heap[c[i]].data
<1> DEFINE c == List!Chain
<1>1. c \in Seq(List!Nodes) /\ Distinct(c) /\ Elements(c) = live /\ len = Len(c)
      /\ heap \in [List!Nodes -> Cell]
  BY DEF ListInv, Chained
<1> HIDE DEF c
<1>2. /\ Len(c) \in Nat /\ DOMAIN c = 1..Len(c) /\ Len(c) <= ListNodes
      /\ Cardinality(Elements(c)) = Len(c)
      /\ Elements(c) \subseteq List!Nodes /\ \A i \in DOMAIN c : c[i] \in List!Nodes
  BY <1>1, ChainFits
<1>3. \A i \in 1..len : c[i] \in live /\ c[i] \in List!Nodes /\ c[i] # List!NULL
  BY <1>1, <1>2, ListTypes DEF Elements
<1>4. len \in 0..ListNodes
  BY <1>1, <1>2, ListTypes
<1> QED
  BY <1>1, <1>2, <1>3, <1>4, ContentsIs DEF c

\* sll_get and sll_remove stop at the first place of what they look for.
LEMMA SearchIs ==
  ASSUME ListInv, NEW d \in Strings
  PROVE  LET i == List!Search(d)
             q == List!Contents(List!Chain, heap)
         IN  /\ i = List!Abstract!Place(d)
             /\ i = 0 \/ (i \in 1..len /\ q[i] = d /\ \A j \in 1..len : q[j] = d => i <= j)
             /\ i = 0 => \A j \in 1..len : q[j] # d
<1> DEFINE c == List!Chain
           q == List!Contents(c, heap)
           same == {i \in DOMAIN c : List!Compare(heap[c[i]].data, d) = 0}
           places == {i \in DOMAIN q : q[i] = d}
<1>1. /\ DOMAIN c = 1..len /\ DOMAIN q = 1..len /\ len \in Nat
      /\ \A i \in 1..len : q[i] = heap[c[i]].data /\ q[i] \in Strings
  <2>1. \A i \in 1..len : heap[c[i]].data \in Strings
    BY ListFacts DEF ListInv, Cell
  <2> QED
    BY <2>1, ListFacts
<1>2. List!Search(d) = IF same = {} THEN 0 ELSE CHOOSE i \in same : \A j \in same : i <= j
  BY DEF List!Search
<1>3. List!Abstract!Place(d) = IF places = {} THEN 0
                               ELSE CHOOSE i \in places : \A j \in places : i <= j
  BY DEF List!Abstract!Place, List!Abstract!Places
<1> HIDE DEF c, q
<1>4. same = places
  <2>1. \A i \in 1..len : List!Compare(heap[c[i]].data, d) = 0 <=> q[i] = d
    BY <1>1, CompareIs, SameCompare DEF Strings
  <2> QED
    BY <1>1, <2>1
<1>5. places \in SUBSET Nat
  BY <1>1
<1> HIDE DEF same, places
<1>6. CASE places = {}
  BY <1>1, <1>2, <1>3, <1>4, <1>6 DEF places, c, q
<1>7. CASE places # {}
  <2> DEFINE i == CHOOSE i \in places : \A j \in places : i <= j
  <2>1. i \in places /\ \A j \in places : i <= j
    BY <1>5, <1>7, Least
  <2>2. List!Search(d) = i /\ List!Abstract!Place(d) = i
    BY <1>2, <1>3, <1>4, <1>7
  <2> HIDE DEF i
  <2>3. i \in 1..len /\ q[i] = d /\ \A j \in 1..len : q[j] = d => i <= j
    BY <1>1, <2>1 DEF places
  <2>4. i # 0
    BY <1>1, <2>3
  <2> QED
    BY <2>2, <2>3, <2>4 DEF c, q
<1> QED
  BY <1>6, <1>7

\* A link is the list's own or a node's.
LEMMA RelinkIs ==
  ASSUME ListInv, NEW i \in 1..(len + 1), NEW n \in 0..ListNodes,
         NEW g \in [List!Nodes -> Cell], List!Relink(i, n, g)
  PROVE  /\ p_head' = IF i = 1 THEN n ELSE p_head
         /\ heap' \in [List!Nodes -> Cell]
         /\ \A k \in List!Nodes :
              /\ heap'[k].data = g[k].data
              /\ heap'[k].next = IF i # 1 /\ k = List!Chain[i - 1] THEN n ELSE g[k].next
<1>1. CASE i = 1
  BY <1>1 DEF List!Relink
<1>2. CASE i # 1
  <2> DEFINE x == List!Chain[i - 1]
  <2>1. heap' = [g EXCEPT ![x].next = n] /\ p_head' = p_head
    BY <1>2 DEF List!Relink
  <2>2. x \in List!Nodes
    <3>1. i - 1 \in 1..len
      BY <1>2, ListFacts
    <3> QED
      BY <3>1, ListFacts
  <2> HIDE DEF x
  <2>3. g[x] \in Cell
    BY <2>2
  <2>4. heap' = [g EXCEPT ![x] = [data |-> g[x].data, next |-> n]]
    <3>1. [g[x] EXCEPT !.next = n] = [data |-> g[x].data, next |-> n]
      BY <2>3 DEF Cell
    <3> QED
      BY <2>1, <3>1
  <2>5. [data |-> g[x].data, next |-> n] \in Cell
    BY <2>3 DEF Cell
  <2>6. heap' \in [List!Nodes -> Cell]
    BY <2>4, <2>5
  <2>7. \A k \in List!Nodes : heap'[k] = IF k = x THEN [data |-> g[x].data, next |-> n] ELSE g[k]
    BY <2>2, <2>4
  <2> QED
    BY <1>2, <2>1, <2>6, <2>7 DEF x
<1> QED
  BY <1>1, <1>2

\* The chain of the state after, and with it the abstract list.
LEMMA ChainNow ==
  ASSUME NEW c, Chained(c, p_head', heap')
  PROVE  List!Chain' = c
<1>1. List!Follow(p_head', heap') = c
  BY FollowIs
<1> QED
  BY <1>1 DEF List!Chain

\* sll_insert with memory.
LEMMA LinkDoes ==
  ASSUME ListInv, NEW d \in Strings, NEW idx \in 0..len, List!Link(d, idx)
  PROVE  \E m \in List!Nodes \ live :
           LET c == List!Chain
           IN  /\ heap' \in [List!Nodes -> Cell]
               /\ Chained(Inserted(c, idx, m), p_head', heap')
               /\ List!Chain' = Inserted(c, idx, m)
               /\ Elements(List!Chain)' = live'
               /\ live' = live \cup {m}
               /\ len' = Len(List!Chain)' /\ len' = len + 1
               /\ List!Contents(List!Chain', heap') = Inserted(List!Contents(c, heap), idx, d)
               /\ heap'[m].data = d
               /\ \A k \in 1..len : heap'[c[k]].data = heap[c[k]].data
               /\ ret' = <<"SUCCESS", d, idx>>
<1> DEFINE c == List!Chain
           q == List!Contents(c, heap)
           x == Nth(c, idx + 1)
<1>1. /\ c \in Seq(List!Nodes) /\ len \in Nat /\ Len(c) = len /\ DOMAIN c = 1..len
      /\ Elements(c) = live /\ Chained(c, p_head, heap)
      /\ \A i \in 1..len : c[i] \in live /\ c[i] \in List!Nodes
      /\ heap \in [List!Nodes -> Cell]
  BY ListFacts DEF ListInv
<1>2. x \in 0..ListNodes /\ (IF idx < Len(c) THEN c[idx + 1] ELSE List!NULL) = x
  <2> HIDE DEF c
  <2>1. idx < Len(c) <=> idx + 1 \in DOMAIN c
    BY <1>1
  <2> QED
    BY <1>1, <2>1, ListTypes DEF Nth
<1>3. PICK m \in List!Nodes \ live :
        /\ List!Relink(idx + 1, m, [heap EXCEPT ![m] = [data |-> d, next |-> x]])
        /\ live' = live \cup {m}
        /\ len' = len + 1
        /\ ret' = <<"SUCCESS", d, idx>>
  BY <1>2 DEF List!Link
<1> DEFINE g == [heap EXCEPT ![m] = [data |-> d, next |-> x]]
           r == Inserted(c, idx, m)
<1> HIDE DEF x, c, q
<1>4. m \in List!Nodes /\ m \notin live /\ m \in 0..ListNodes /\ idx + 1 \in 1..(len + 1)
  BY <1>1, ListTypes
<1>5. /\ g \in [List!Nodes -> Cell] /\ g[m] = [data |-> d, next |-> x]
      /\ \A k \in List!Nodes : k # m => g[k] = heap[k]
  <2>1. [data |-> d, next |-> x] \in Cell
    BY <1>2 DEF Cell
  <2> QED
    BY <1>1, <1>4, <2>1
<1> HIDE DEF g
<1>6. /\ p_head' = IF idx + 1 = 1 THEN m ELSE p_head
      /\ heap' \in [List!Nodes -> Cell]
      /\ \A k \in List!Nodes :
           /\ heap'[k].data = g[k].data
           /\ heap'[k].next = IF idx + 1 # 1 /\ k = c[(idx + 1) - 1] THEN m ELSE g[k].next
  <2>1. List!Relink(idx + 1, m, g)
    BY <1>3 DEF g
  <2> HIDE DEF ListInv
  <2> QED
    BY <1>4, <1>5, <2>1, RelinkIs DEF c
<1>7. /\ idx + 1 = 1 <=> idx = 0
      /\ (idx + 1) - 1 = idx
      /\ \A k \in 1..len : k = idx => idx # 0
  BY <1>1
<1>8. heap'[m].data = d /\ heap'[m].next = x
  <2>1. idx # 0 => c[idx] # m
    BY <1>1, <1>4
  <2> QED
    BY <1>4, <1>5, <1>6, <1>7, <2>1
<1>9. ASSUME NEW k \in 1..len
      PROVE  /\ heap'[c[k]].data = heap[c[k]].data
             /\ heap'[c[k]].next = IF k = idx THEN m ELSE heap[c[k]].next
  <2>1. c[k] \in List!Nodes /\ c[k] # m
    BY <1>1, <1>4
  <2>2. idx # 0 => (c[k] = c[idx] <=> k = idx)
    BY <1>1 DEF Chained, Distinct
  <2> QED
    BY <1>5, <1>6, <1>7, <2>1, <2>2
<1>10. /\ Chained(r, p_head', heap') /\ Elements(r) = live \cup {m} /\ Len(r) = len + 1
  <2>1. p_head' = IF idx = 0 THEN m ELSE p_head
    BY <1>6, <1>7
  <2>2. heap'[m].next = Nth(c, idx + 1)
    BY <1>8 DEF x
  <2>3. \A k \in DOMAIN c : heap'[c[k]].next = IF k = idx THEN m ELSE heap[c[k]].next
    BY <1>1, <1>9
  <2>4. m \in List!Nodes \ Elements(c) /\ idx \in 0..Len(c)
    BY <1>1, <1>4
  <2>5. /\ Chained(Inserted(c, idx, m), IF idx = 0 THEN m ELSE p_head, heap')
        /\ Elements(Inserted(c, idx, m)) = Elements(c) \cup {m}
        /\ Len(Inserted(c, idx, m)) = Len(c) + 1
    BY <1>1, <2>2, <2>3, <2>4, ChainedInsert
  <2> QED
    BY <1>1, <2>1, <2>5
<1>11. List!Chain' = r
  BY <1>10, ChainNow
<1>12. List!Contents(r, heap') = Inserted(q, idx, d)
  <2>1. \A k \in 1..Len(c) : heap'[c[k]].data = heap[c[k]].data
    BY <1>1, <1>9
  <2>2. idx \in 0..Len(c)
    BY <1>1
  <2>3. List!Contents(r, heap') = Inserted(List!Contents(c, heap), idx, heap'[m].data)
    BY <1>1, <1>4, <1>6, <2>1, <2>2, ContentsInsert DEF r
  <2> QED
    BY <1>8, <2>3 DEF q
<1>13. Elements(List!Chain)' = live' /\ len' = Len(List!Chain)'
  <2>1. Elements(List!Chain') = live' /\ len' = Len(List!Chain')
    BY <1>3, <1>10, <1>11
  <2> QED
    BY <2>1 DEF Elements
<1> QED
  BY <1>3, <1>6, <1>8, <1>9, <1>10, <1>11, <1>12, <1>13 DEF c, q, r

\* sll_remove's change, for the node at place i.
Cuts(i) ==
  LET n == List!Chain[i]
  IN  /\ List!Relink(i, heap[n].next, [heap EXCEPT ![n] = List!Freed])
      /\ live' = live \ {n}
      /\ len' = len - 1

\* sll_remove when there is a match.
LEMMA CutDoes ==
  ASSUME ListInv, NEW i \in 1..len, Cuts(i)
  PROVE  LET c == List!Chain
         IN  /\ heap' \in [List!Nodes -> Cell]
             /\ Chained(Removed(c, i), p_head', heap')
             /\ List!Chain' = Removed(c, i)
             /\ Elements(List!Chain)' = live'
             /\ len' = Len(List!Chain)'
             /\ List!Contents(List!Chain', heap') = Removed(List!Contents(c, heap), i)
             /\ \A k \in 1..len : k # i => heap'[c[k]].data = heap[c[k]].data
             /\ \A k \in 1..len : k > i => heap'[c[k]].next = heap[c[k]].next
<1> DEFINE c == List!Chain
           x == c[i]
           g == [heap EXCEPT ![x] = List!Freed]
           y == heap[x].next
           r == Removed(c, i)
<1>1. /\ c \in Seq(List!Nodes) /\ len \in Nat /\ Len(c) = len /\ DOMAIN c = 1..len
      /\ Elements(c) = live /\ Chained(c, p_head, heap) /\ Distinct(c)
      /\ \A k \in 1..len : c[k] \in live /\ c[k] \in List!Nodes
      /\ heap \in [List!Nodes -> Cell]
  BY ListFacts DEF ListInv
<1>2. List!Relink(i, y, g) /\ live' = live \ {x} /\ len' = len - 1
  BY DEF Cuts
<1> HIDE DEF c, g, y
<1>3. x \in List!Nodes /\ y \in 0..ListNodes /\ i \in 1..(len + 1) /\ i \in 1..Len(c)
  BY <1>1 DEF Cell, y
<1>4. g \in [List!Nodes -> Cell] /\ \A k \in List!Nodes : k # x => g[k] = heap[k]
  <2>1. List!Freed \in Cell
    BY ListTypes DEF List!Freed, Cell, Strings
  <2> QED
    BY <1>1, <1>3, <2>1 DEF g
<1> HIDE DEF x
<1>5. /\ p_head' = IF i = 1 THEN y ELSE p_head
      /\ heap' \in [List!Nodes -> Cell]
      /\ \A k \in List!Nodes :
           /\ heap'[k].data = g[k].data
           /\ heap'[k].next = IF i # 1 /\ k = c[i - 1] THEN y ELSE g[k].next
  <2> HIDE DEF ListInv
  <2> QED
    BY <1>2, <1>3, <1>4, RelinkIs DEF c
<1>6. ASSUME NEW k \in 1..len, k # i
      PROVE  /\ heap'[c[k]].data = heap[c[k]].data
             /\ heap'[c[k]].next = IF k = i - 1 THEN y ELSE heap[c[k]].next
  <2>1. c[k] \in List!Nodes /\ c[k] # x
    BY <1>1, <1>3, <1>6 DEF x, Distinct
  <2>2. i # 1 => (c[k] = c[i - 1] <=> k = i - 1)
    <3>1. i # 1 => i - 1 \in 1..len
      BY <1>1
    <3> QED
      BY <1>1, <3>1 DEF Distinct
  <2>3. k = i - 1 => i # 1
    BY <1>1
  <2> QED
    BY <1>4, <1>5, <2>1, <2>2, <2>3
<1>7. Chained(r, p_head', heap') /\ Elements(r) = live \ {x} /\ Len(r) = len - 1
  <2>1. Skips(heap', heap, c, i)
    BY <1>1, <1>6 DEF x, y, Skips
  <2>2. i \in DOMAIN c /\ p_head' = IF i = 1 THEN heap[c[i]].next ELSE p_head
    BY <1>1, <1>5 DEF x, y
  <2>3. Chained(r, p_head', heap') /\ Elements(r) = Elements(c) \ {c[i]} /\ Len(r) = Len(c) - 1
    BY <1>1, <2>1, <2>2, ChainedRemove
  <2> QED
    BY <1>1, <2>3 DEF x
<1> HIDE DEF r
<1>8. List!Chain' = r
  BY <1>7, ChainNow
<1>9. Elements(List!Chain)' = live' /\ len' = Len(List!Chain)'
  <2>1. Elements(List!Chain') = live' /\ len' = Len(List!Chain')
    BY <1>2, <1>7, <1>8
  <2> QED
    BY <2>1 DEF Elements
<1>10. List!Contents(r, heap') = Removed(List!Contents(c, heap), i)
  <2>1. \A k \in 1..Len(c) : k # i => heap'[c[k]].data = heap[c[k]].data
    BY <1>1, <1>6
  <2> QED
    BY <1>1, <1>3, <1>5, <2>1, ContentsRemove DEF r
<1>11. \A k \in 1..len : k > i => heap'[c[k]].next = heap[c[k]].next
  <2>1. \A k \in 1..len : k > i => k # i /\ k # i - 1
    BY <1>1
  <2> QED
    BY <1>6, <2>1
<1> QED
  BY <1>5, <1>6, <1>7, <1>8, <1>9, <1>10, <1>11 DEF c, r

-----------------------------------------------------------------------------
(* A list's calls are those of List.                                       *)

\* What a walk at the k-th node, or past the last, has ahead of it.
Remains(t, c, k, h) ==
  /\ Len(t) = Len(c) + 1 - k
  /\ \A i \in 1..(Len(c) + 1 - k) : t[i] = h[c[k + i - 1]].data

\* The contents of what a walk has ahead of it.
LEMMA TodoIs ==
  ASSUME NEW c, NEW n, NEW h, Chained(c, n, h), h \in [List!Nodes -> Cell],
         NEW k \in 1..(Len(c) + 1), NEW w, w = Nth(c, k)
  PROVE  LET t == List!Contents(List!Follow(w, h), h)
         IN  t \in Seq(Strings) /\ Remains(t, c, k, h)
<1> DEFINE r == From(c, k)
<1>1. /\ Chained(r, w, h) /\ Len(r) = Len(c) + 1 - k
      /\ \A i \in 1..(Len(c) + 1 - k) : r[i] = c[k + i - 1]
  BY ChainedFrom
<1> HIDE DEF r
<1>2. List!Follow(w, h) = r
  BY <1>1, FollowIs
<1>3. r \in Seq(List!Nodes)
  BY <1>1 DEF Chained
<1> QED
  BY <1>1, <1>2, <1>3, ContentsIs DEF Remains

\* No links lead on from NULL.
LEMMA TodoNone == \A h : List!Contents(List!Follow(List!NULL, h), h) = <<>>
<1> SUFFICES ASSUME NEW h PROVE List!Contents(List!Follow(List!NULL, h), h) = <<>>
  OBVIOUS
<1>1. Chained(<<>>, List!NULL, h)
  BY EmptyQueue DEF Chained, Nth
<1>2. List!Follow(List!NULL, h) = <<>>
  BY <1>1, FollowIs
<1> QED
  BY <1>2 DEF List!Contents

\* A walk is over when nothing is ahead of it.
LEMMA WalkIs ==
  ASSUME ListInv
  PROVE  /\ walk = List!NULL <=> List!Contents(List!Follow(walk, heap), heap) = <<>>
         /\ walk # List!NULL => made /\ \E k \in 1..len : walk = List!Chain[k]
<1> DEFINE c == List!Chain
<1>1. /\ c \in Seq(List!Nodes) /\ len \in Nat /\ Len(c) = len /\ DOMAIN c = 1..len
      /\ Elements(c) = live /\ Chained(c, p_head, heap) /\ heap \in [List!Nodes -> Cell]
  BY ListFacts DEF ListInv
<1>2. walk # List!NULL => made /\ \E k \in 1..len : walk = c[k]
  BY <1>1 DEF ListInv, Elements
<1> HIDE DEF c
<1>3. ASSUME walk # List!NULL PROVE List!Contents(List!Follow(walk, heap), heap) # <<>>
  <2>1. PICK k \in 1..len : walk = c[k]
    BY <1>2, <1>3
  <2>2. k \in 1..(Len(c) + 1) /\ walk = Nth(c, k) /\ Len(c) + 1 - k # 0
    BY <1>1, <2>1 DEF Nth
  <2>3. Len(List!Contents(List!Follow(walk, heap), heap)) # 0
    BY <1>1, <2>2, TodoIs DEF Remains
  <2> QED
    BY <2>3, EmptySeq
<1> QED
  BY <1>2, <1>3, TodoNone DEF c

\* A call that leaves the list as it is.
LEMMA SameList ==
  ASSUME ListInv, UNCHANGED <<p_head, len, live, heap>>
  PROVE  /\ List!Chain' = List!Chain
         /\ List!Contents(List!Chain, heap)' = List!Contents(List!Chain, heap)
         /\ Chained(List!Chain', p_head', heap')
         /\ Elements(List!Chain)' = live' /\ len' = Len(List!Chain')
         /\ heap' \in [List!Nodes -> Cell]
<1>1. List!Chain' = List!Chain
  BY DEF List!Chain
<1>2. Elements(List!Chain') = live'
  BY <1>1 DEF ListInv
<1>3. Elements(List!Chain)' = live'
  BY <1>2 DEF Elements
<1>4. List!Contents(List!Chain', heap') = List!Contents(List!Chain, heap)
  BY <1>1
<1> QED
  BY <1>1, <1>3, <1>4 DEF ListInv

\* There is no list yet.
LEMMA ListInit == List!Init => ListInv /\ List!Abstract!Init
<1> SUFFICES ASSUME List!Init PROVE ListInv /\ List!Abstract!Init
  OBVIOUS
<1>1. /\ made = FALSE /\ p_head = List!NULL /\ len = 0 /\ live = {} /\ walk = List!NULL
      /\ heap = [n \in List!Nodes |-> List!Freed] /\ ret = <<"NONE">>
  BY DEF List!Init
<1>2. heap \in [List!Nodes -> Cell]
  BY <1>1, ListTypes DEF List!Freed, Cell, Strings
<1>3. Chained(<<>>, p_head, heap)
  BY <1>1, EmptyQueue DEF Chained, Nth
<1>4. List!Chain = <<>>
  BY <1>3, FollowIs DEF List!Chain
<1>5. ListInv
  BY <1>1, <1>2, <1>3, <1>4, EmptyQueue, EmptySeq DEF ListInv
<1>6. List!Contents(List!Chain, heap) = <<>>
  BY <1>4 DEF List!Contents
<1>7. List!Contents(List!Follow(walk, heap), heap) = <<>>
  BY <1>1, TodoNone
<1>8. ret[1] # "NODE"
  BY <1>1
<1> QED
  BY <1>1, <1>5, <1>6, <1>7, <1>8 DEF List!Abstract!Init

\* sll_create
LEMMA CreateStep ==
  ASSUME ListInv, List!Create
  PROVE  ListInv' /\ List!Abstract!Create
<1>1. /\ ~made /\ UNCHANGED <<p_head, len, live, heap>> /\ walk' = walk
      /\ \/ made' = TRUE /\ ret' = <<"SUCCESS">>
         \/ made' = FALSE /\ ret' = <<"NULL">>
  BY DEF List!Create
<1>2. ListInv'
  BY <1>1, SameList DEF ListInv
<1>3. List!Contents(List!Follow(walk, heap), heap)' = List!Contents(List!Follow(walk, heap), heap)
  BY <1>1
<1>4. ret'[1] # "NODE"
  BY <1>1
<1> QED
  BY <1>1, <1>2, <1>3, <1>4, SameList DEF List!Abstract!Create

\* sll_destroy
LEMMA DestroyStep ==
  ASSUME ListInv, List!Destroy
  PROVE  ListInv' /\ List!Abstract!Destroy
<1> DEFINE gone == {List!Chain[i] : i \in DOMAIN List!Chain}
<1>1. /\ made /\ walk = List!NULL /\ walk' = walk
      /\ live' = live \ gone
      /\ heap' = [n \in List!Nodes |-> IF n \in gone THEN List!Freed ELSE heap[n]]
      /\ p_head' = List!NULL /\ len' = 0 /\ made' = FALSE /\ ret' = <<"SUCCESS">>
  BY DEF List!Destroy, List!Idle
<1>2. gone = live
  BY DEF ListInv, Elements
<1> HIDE DEF gone
<1>3. live' = {}
  BY <1>1, <1>2
<1>4. heap' \in [List!Nodes -> Cell]
  <2>1. List!Freed \in Cell
    BY ListTypes DEF List!Freed, Cell, Strings
  <2>2. heap \in [List!Nodes -> Cell]
    BY DEF ListInv
  <2> QED
    BY <1>1, <2>1, <2>2
<1>5. Chained(<<>>, p_head', heap')
  BY <1>1, EmptyQueue DEF Chained, Nth
<1>6. List!Chain' = <<>>
  BY <1>5, ChainNow
<1>7. Elements(List!Chain)' = {} /\ Len(List!Chain') = 0
  <2>1. Elements(List!Chain') = {}
    BY <1>6, EmptyQueue
  <2>2. Len(List!Chain') = 0
    BY <1>6, EmptySeq
  <2> QED
    BY <2>1, <2>2 DEF Elements
<1>8. ListInv'
  BY <1>1, <1>3, <1>4, <1>5, <1>6, <1>7 DEF ListInv
<1>9. List!Contents(List!Chain', heap') = <<>>
  BY <1>6 DEF List!Contents
<1>10. /\ List!Contents(List!Follow(walk, heap), heap) = <<>>
       /\ List!Contents(List!Follow(walk', heap'), heap') = <<>>
  BY <1>1, TodoNone
<1>11. ret'[1] # "NODE"
  BY <1>1
<1> QED
  BY <1>1, <1>8, <1>9, <1>10, <1>11 DEF List!Abstract!Destroy, List!Abstract!Idle

\* sll_get
LEMMA GetStep ==
  ASSUME ListInv, NEW d \in ListData, List!Get(d)
  PROVE  ListInv' /\ List!Abstract!Get(d)
<1> DEFINE s == List!Search(d)
           c == List!Chain
<1>1. /\ made /\ walk = List!NULL /\ UNCHANGED <<p_head, len, live, heap>> /\ walk' = walk
      /\ made' = made /\ ret' = <<"NODE", d, IF s = 0 THEN List!NULL ELSE c[s]>>
  BY DEF List!Get, List!Idle
<1>2. d \in Strings
  BY ListTypes DEF Strings
<1>3. s = List!Abstract!Place(d) /\ (s = 0 \/ s \in 1..len)
  BY <1>2, SearchIs
<1>4. ListInv'
  BY <1>1, SameList DEF ListInv
<1>5. /\ List!Contents(List!Follow(walk, heap), heap) = <<>>
      /\ List!Contents(List!Follow(walk', heap'), heap') = <<>>
  BY <1>1, TodoNone
<1>6. /\ c \in Seq(List!Nodes) /\ Distinct(c) /\ len \in Nat /\ DOMAIN c = 1..len
      /\ \A i \in 1..len : c[i] # List!NULL
      /\ List!Chain' = c
  BY <1>1, ListFacts, SameList
<1> HIDE DEF s, c
<1>7. (IF ret'[3] = List!NULL THEN 0 ELSE CHOOSE i \in DOMAIN List!Chain' : List!Chain'[i] = ret'[3]) = s
  <2>1. ret'[3] = IF s = 0 THEN List!NULL ELSE c[s]
    BY <1>1
  <2>2. CASE s = 0
    BY <2>1, <2>2
  <2>3. CASE s \in 1..len
    <3>1. ret'[3] = c[s] /\ ret'[3] # List!NULL
      BY <1>6, <2>1, <2>3
    <3>2. \A i \in DOMAIN c : c[i] = c[s] <=> i = s
      BY <1>6, <2>3 DEF Distinct
    <3>3. (CHOOSE i \in DOMAIN c : c[i] = c[s]) = s
      BY <1>6, <2>3, <3>2
    <3> QED
      BY <1>6, <3>1, <3>3
  <2> QED
    BY <1>3, <2>2, <2>3
<1>8. ret'[1] = "NODE" /\ ret'[2] = d
  BY <1>1
<1> QED
  BY <1>1, <1>3, <1>4, <1>5, <1>7, <1>8, SameList DEF List!Abstract!Get, List!Abstract!Idle

\* sll_insert and sll_append, outside a walk.
LEMMA PutStep ==
  ASSUME ListInv, NEW d \in ListData, NEW idx \in 0..ListNodes, List!Idle,
         List!Insert(d, idx), UNCHANGED <<made, walk>>
  PROVE  ListInv' /\ List!Abstract!Put(d, idx)
<1> DEFINE q == List!Contents(List!Chain, heap)
<1>1. made /\ walk = List!NULL /\ walk' = walk /\ made' = made
  BY DEF List!Idle
<1>2. d \in Strings
  BY ListTypes DEF Strings
<1>3. /\ List!Contents(List!Follow(walk, heap), heap) = <<>>
      /\ List!Contents(List!Follow(walk', heap'), heap') = <<>>
  BY <1>1, TodoNone
<1>4. Len(q) = len /\ len \in Nat /\ idx \in Nat
  BY ListFacts, ListTypes
<1> HIDE DEF q
<1>5. CASE idx <= len /\ List!Link(d, idx)
  <2>1. idx \in 0..len
    BY <1>4, <1>5
  <2>2. PICK m \in List!Nodes \ live :
          /\ heap' \in [List!Nodes -> Cell]
          /\ Chained(Inserted(List!Chain, idx, m), p_head', heap')
          /\ List!Chain' = Inserted(List!Chain, idx, m)
          /\ Elements(List!Chain)' = live'
          /\ len' = Len(List!Chain)'
          /\ List!Contents(List!Chain', heap') = Inserted(q, idx, d)
          /\ ret' = <<"SUCCESS", d, idx>>
    BY <1>2, <1>5, <2>1, LinkDoes DEF q
  <2>3. ListInv'
    BY <1>1, <2>2 DEF ListInv
  <2>4. ret'[1] # "NODE"
    BY <2>2
  <2>5. Inserted(q, idx, d) = List!Abstract!Insert(d, idx)
    BY DEF Inserted, List!Abstract!Insert, q
  <2> QED
    BY <1>1, <1>3, <1>4, <1>5, <2>2, <2>3, <2>4, <2>5
    DEF List!Abstract!Put, List!Abstract!Idle, q
<1>6. CASE /\ UNCHANGED <<p_head, len, live, heap>>
           /\ \/ idx > len /\ ret' = <<"OUT_OF_BOUNDS", d, idx>>
              \/ idx <= len /\ ret' = <<"ALLOC_FAILURE", d, idx>>
  <2>1. ListInv'
    BY <1>1, <1>6, SameList DEF ListInv
  <2>2. List!Contents(List!Chain, heap)' = q
    BY <1>6, SameList DEF q
  <2>3. ret' = <<IF idx > Len(q) THEN "OUT_OF_BOUNDS" ELSE "ALLOC_FAILURE", d, idx>>
    BY <1>4, <1>6
  <2>4. ret'[1] # "NODE"
    BY <1>6
  <2> QED
    BY <1>1, <1>3, <2>1, <2>2, <2>3, <2>4 DEF List!Abstract!Put, List!Abstract!Idle, q
<1> QED
  BY <1>5, <1>6 DEF List!Insert, List!Say

\* sll_remove, also by the function sll_foreach applies: where it cuts.
LEMMA UnlinkDoes ==
  ASSUME ListInv, NEW d \in Strings, List!Unlink(d)
  PROVE  LET i == List!Search(d)
             c == List!Chain
             q == List!Contents(c, heap)
         IN  /\ i = List!Abstract!Place(d)
             /\ \/ i = 0 /\ ret' = <<"NOT_EXISTS", d>> /\ UNCHANGED <<p_head, len, live, heap>>
                \/ /\ i \in 1..len /\ ret' = <<"SUCCESS", d>>
                   /\ live' = live \ {c[i]}
                   /\ heap' \in [List!Nodes -> Cell]
                   /\ Chained(Removed(c, i), p_head', heap')
                   /\ List!Chain' = Removed(c, i)
                   /\ Elements(List!Chain)' = live'
                   /\ len' = Len(List!Chain)' /\ len' = len - 1
                   /\ List!Contents(List!Chain', heap') = Removed(q, i)
                   /\ \A k \in 1..len : k # i => heap'[c[k]].data = heap[c[k]].data
                   /\ \A k \in 1..len : k > i => heap'[c[k]].next = heap[c[k]].next
<1> DEFINE i == List!Search(d)
<1>1. i = List!Abstract!Place(d) /\ (i = 0 \/ i \in 1..len)
  BY SearchIs
<1>2. CASE i = 0 /\ List!Say(<<"NOT_EXISTS", d>>)
  <2>1. ret' = <<"NOT_EXISTS", d>> /\ UNCHANGED <<p_head, len, live, heap>>
    BY <1>2 DEF List!Say
  <2> QED
    BY <1>1, <1>2, <2>1
<1>3. CASE i # 0 /\ Cuts(i) /\ ret' = <<"SUCCESS", d>>
  <2> HIDE DEF i
  <2>1. i \in 1..len /\ live' = live \ {List!Chain[i]} /\ len' = len - 1
    BY <1>1, <1>3 DEF Cuts
  <2> HIDE DEF ListInv
  <2>2. /\ heap' \in [List!Nodes -> Cell]
        /\ Chained(Removed(List!Chain, i), p_head', heap')
        /\ List!Chain' = Removed(List!Chain, i)
        /\ Elements(List!Chain)' = live'
        /\ len' = Len(List!Chain)'
        /\ List!Contents(List!Chain', heap') = Removed(List!Contents(List!Chain, heap), i)
        /\ \A k \in 1..len : k # i => heap'[List!Chain[k]].data = heap[List!Chain[k]].data
        /\ \A k \in 1..len : k > i => heap'[List!Chain[k]].next = heap[List!Chain[k]].next
    BY <1>3, <2>1, CutDoes
  <2> QED
    BY <1>1, <1>3, <2>1, <2>2 DEF i
<1> QED
  BY <1>2, <1>3 DEF List!Unlink, Cuts

\* sll_remove, outside a walk.
LEMMA RemoveStep ==
  ASSUME ListInv, NEW d \in ListData, List!Remove(d)
  PROVE  ListInv' /\ List!Abstract!Remove(d)
<1> DEFINE i == List!Search(d)
           c == List!Chain
           q == List!Contents(c, heap)
<1>1. /\ made /\ walk = List!NULL /\ walk' = walk /\ made' = made /\ List!Unlink(d)
  BY DEF List!Remove, List!Idle
<1>2. d \in Strings
  BY ListTypes DEF Strings
<1>3. /\ List!Contents(List!Follow(walk, heap), heap) = <<>>
      /\ List!Contents(List!Follow(walk', heap'), heap') = <<>>
  BY <1>1, TodoNone
<1>0. i = List!Abstract!Place(d)
  BY <1>1, <1>2, UnlinkDoes
<1>4. CASE i = 0 /\ ret' = <<"NOT_EXISTS", d>> /\ UNCHANGED <<p_head, len, live, heap>>
  <2>1. ListInv'
    BY <1>1, <1>4, SameList DEF ListInv
  <2>2. ret'[1] # "NODE"
    BY <1>4
  <2>3. List!Contents(List!Chain, heap)' = List!Contents(List!Chain, heap)
    BY <1>4, SameList
  <2> QED
    BY <1>0, <1>1, <1>3, <1>4, <2>1, <2>2, <2>3 DEF List!Abstract!Remove, List!Abstract!Idle
<1>5. CASE /\ i \in 1..len /\ ret' = <<"SUCCESS", d>>
           /\ heap' \in [List!Nodes -> Cell]
           /\ Chained(Removed(c, i), p_head', heap')
           /\ List!Chain' = Removed(c, i)
           /\ Elements(List!Chain)' = live'
           /\ len' = Len(List!Chain)'
           /\ List!Contents(List!Chain', heap') = Removed(q, i)
  <2>1. ListInv'
    BY <1>1, <1>5 DEF ListInv
  <2>2. ret'[1] # "NODE" /\ i # 0
    <3>1. len \in Nat
      BY ListFacts
    <3> HIDE DEF i
    <3> QED
      BY <1>5, <3>1
  <2>3. Removed(q, i) = List!Abstract!Without(i)
    BY <1>0 DEF Removed, List!Abstract!Without
  <2>4. List!Contents(List!Chain, heap)' = Removed(q, i)
    BY <1>5
  <2> HIDE DEF c, q
  <2> QED
    BY <1>0, <1>1, <1>3, <1>5, <2>1, <2>2, <2>3, <2>4 DEF List!Abstract!Remove, List!Abstract!Idle
<1> QED
  BY <1>1, <1>2, <1>4, <1>5, UnlinkDoes

\* sll_foreach takes the first node.
LEMMA ForeachStep ==
  ASSUME ListInv, List!Foreach
  PROVE  ListInv' /\ List!Abstract!Walk
<1>1. /\ made /\ walk = List!NULL /\ walk' = p_head /\ ret' = <<"SUCCESS">> /\ made' = made
      /\ UNCHANGED <<p_head, len, live, heap>>
  BY DEF List!Foreach, List!Idle
<1>2. p_head \in live \cup {List!NULL}
  BY DEF ListInv, Chained, Nth, Elements
<1>3. ListInv'
  BY <1>1, <1>2, SameList DEF ListInv
<1>4. List!Contents(List!Follow(walk, heap), heap) = <<>>
  BY <1>1, TodoNone
<1>5. List!Contents(List!Follow(walk, heap), heap)' = List!Contents(List!Chain, heap)
  <2>1. List!Contents(List!Follow(walk', heap'), heap') = List!Contents(List!Follow(p_head, heap), heap)
    BY <1>1
  <2> QED
    BY <2>1 DEF List!Chain
<1>6. ret'[1] # "NODE"
  BY <1>1
<1> QED
  BY <1>1, <1>3, <1>4, <1>5, <1>6, SameList DEF List!Abstract!Walk, List!Abstract!Idle

\* Where a walk stands, and what it has ahead of it.
LEMMA VisitAt ==
  ASSUME ListInv, walk # List!NULL
  PROVE  LET c == List!Chain
             t == List!Contents(List!Follow(walk, heap), heap)
         IN  \E k \in 1..len :
               /\ made /\ walk = c[k] /\ List!After = Nth(c, k + 1)
               /\ heap[walk].data \in Strings /\ List!Contents(c, heap)[k] = heap[walk].data
               /\ t \in Seq(Strings) /\ t # <<>> /\ Len(t) = len + 1 - k
               /\ Head(t) = heap[walk].data
               /\ Tail(t) \in Seq(Strings) /\ Len(Tail(t)) = len - k
               /\ \A j \in 1..(len - k) : Tail(t)[j] = heap[c[k + j]].data
<1> DEFINE c == List!Chain
           t == List!Contents(List!Follow(walk, heap), heap)
<1>1. /\ c \in Seq(List!Nodes) /\ len \in Nat /\ Len(c) = len /\ DOMAIN c = 1..len
      /\ Chained(c, p_head, heap) /\ heap \in [List!Nodes -> Cell]
      /\ \A i \in 1..len : c[i] \in List!Nodes /\ List!Contents(c, heap)[i] = heap[c[i]].data
  BY ListFacts DEF ListInv
<1> HIDE DEF c
<1>2. PICK k \in 1..len : walk = c[k]
  BY WalkIs DEF c
<1>3. made
  BY WalkIs
<1>4. List!After = Nth(c, k + 1)
  BY <1>1, <1>2 DEF List!After, Chained
<1>5. heap[walk].data \in Strings /\ List!Contents(c, heap)[k] = heap[walk].data
  BY <1>1, <1>2 DEF Cell
<1>6. t \in Seq(Strings) /\ Len(t) = len + 1 - k /\ \A i \in 1..(len + 1 - k) : t[i] = heap[c[k + i - 1]].data
  <2>1. k \in 1..(Len(c) + 1) /\ walk = Nth(c, k)
    BY <1>1, <1>2 DEF Nth
  <2>2. t \in Seq(Strings) /\ Remains(t, c, k, heap)
    BY <1>1, <2>1, TodoIs, Zenon
  <2> HIDE DEF t
  <2> QED
    BY <1>1, <2>2 DEF Remains
<1> HIDE DEF t
<1>7. len + 1 - k \in Nat \ {0} /\ k + 1 - 1 = k /\ 1 \in 1..(len + 1 - k)
  BY <1>1
<1>8. t # <<>> /\ t[1] = heap[walk].data
  <2>1. t[1] = heap[c[k + 1 - 1]].data
    BY <1>6, <1>7
  <2> QED
    BY <1>2, <1>6, <1>7, <2>1, EmptySeq
<1>9. /\ Head(t) = t[1] /\ Tail(t) \in Seq(Strings) /\ Len(Tail(t)) = len - k
      /\ \A j \in 1..Len(Tail(t)) : Tail(t)[j] = t[j + 1]
  <2>1. Head(t) = t[1] /\ Tail(t) \in Seq(Strings) /\ Len(Tail(t)) = Len(t) - 1
        /\ \A j \in 1..Len(Tail(t)) : Tail(t)[j] = t[j + 1]
    BY <1>6, <1>8, HeadTailProperties
  <2> QED
    BY <1>1, <1>6, <2>1
<1>10. ASSUME NEW j \in 1..(len - k) PROVE Tail(t)[j] = heap[c[k + j]].data
  <2>1. j + 1 \in 1..(len + 1 - k) /\ k + (j + 1) - 1 = k + j
    BY <1>1
  <2>2. t[j + 1] = heap[c[k + (j + 1) - 1]].data
    BY <1>6, <2>1
  <2> QED
    BY <1>9, <2>1, <2>2
<1> QED
  BY <1>2, <1>3, <1>4, <1>5, <1>6, <1>8, <1>9, <1>10 DEF c, t

\* The function sll_foreach applies does nothing, or ends the walk.
LEMMA VisitSame ==
  ASSUME ListInv, walk # List!NULL, made' = made, UNCHANGED <<p_head, len, live, heap>>,
         \/ ret' = <<"SUCCESS">> /\ walk' = List!After
         \/ ret' = <<"STOPPED">> /\ walk' = List!NULL
  PROVE  ListInv' /\ List!Abstract!Visit
<1> DEFINE c == List!Chain
           t == List!Contents(List!Follow(walk, heap), heap)
<1>1. PICK k \in 1..len :
        /\ made /\ walk = c[k] /\ List!After = Nth(c, k + 1)
        /\ t # <<>> /\ Tail(t) \in Seq(Strings) /\ Len(Tail(t)) = len - k
        /\ \A j \in 1..(len - k) : Tail(t)[j] = heap[c[k + j]].data
  BY VisitAt
<1>2. /\ c \in Seq(List!Nodes) /\ len \in Nat /\ Len(c) = len /\ DOMAIN c = 1..len
      /\ Chained(c, p_head, heap) /\ heap \in [List!Nodes -> Cell]
      /\ \A i \in 1..len : c[i] \in live
  BY ListFacts DEF ListInv
<1>3. List!After \in live \cup {List!NULL}
  BY <1>1, <1>2 DEF Nth
<1>4. ListInv'
  BY <1>1, <1>3, SameList DEF ListInv
<1> DEFINE u == List!Contents(List!Follow(List!After, heap), heap)
<1>5. u = Tail(t)
  <2>1. k + 1 \in 1..(Len(c) + 1) /\ Len(c) + 1 - (k + 1) = len - k
    BY <1>2
  <2>2. /\ u \in Seq(Strings) /\ Len(u) = Len(c) + 1 - (k + 1)
        /\ \A i \in 1..(Len(c) + 1 - (k + 1)) : u[i] = heap[c[(k + 1) + i - 1]].data
    <3> HIDE DEF c, t
    <3>1. u \in Seq(Strings) /\ Remains(u, c, k + 1, heap)
      BY <1>1, <1>2, <2>1, TodoIs, Zenon
    <3> HIDE DEF u
    <3> QED
      BY <3>1 DEF Remains
  <2> HIDE DEF c, t, u
  <2>3. ASSUME NEW j \in 1..(len - k) PROVE u[j] = Tail(t)[j]
    <3>1. (k + 1) + j - 1 = k + j
      BY <1>2
    <3> QED
      BY <1>1, <2>1, <2>2, <3>1
  <2> QED
    BY <1>1, <2>1, <2>2, <2>3, SeqEqual
<1>6. ret'[1] # "NODE"
  OBVIOUS
<1>7. CASE ret' = <<"SUCCESS">> /\ walk' = List!After
  <2>1. List!Contents(List!Follow(walk', heap'), heap') = Tail(t)
    BY <1>5, <1>7
  <2> HIDE DEF u
  <2> QED
    BY <1>1, <1>4, <1>6, <1>7, <2>1, SameList DEF List!Abstract!Visit
<1>8. CASE ret' = <<"STOPPED">> /\ walk' = List!NULL
  <2>1. List!Contents(List!Follow(walk', heap'), heap') = <<>>
    BY <1>8, TodoNone
  <2> HIDE DEF u
  <2> QED
    BY <1>1, <1>4, <1>6, <1>8, <2>1, SameList DEF List!Abstract!Visit
<1> QED
  BY <1>7, <1>8

\* The function removes the datum it was given: an equal one may come first.
LEMMA VisitRemove ==
  ASSUME ListInv, walk # List!NULL, made' = made,
         List!Unlink(heap[walk].data), walk' = List!After
  PROVE  ListInv' /\ List!Abstract!Visit
<1> DEFINE c == List!Chain
           q == List!Contents(c, heap)
           t == List!Contents(List!Follow(walk, heap), heap)
           d == heap[walk].data
           i == List!Search(d)
           r == Removed(c, i)
<1>1. PICK k \in 1..len :
        /\ made /\ walk = c[k] /\ List!After = Nth(c, k + 1)
        /\ d \in Strings /\ q[k] = d
        /\ t # <<>> /\ Head(t) = d /\ Tail(t) \in Seq(Strings) /\ Len(Tail(t)) = len - k
        /\ \A j \in 1..(len - k) : Tail(t)[j] = heap[c[k + j]].data
  BY VisitAt
<1>2. /\ c \in Seq(List!Nodes) /\ len \in Nat /\ Len(c) = len /\ DOMAIN c = 1..len
      /\ Distinct(c) /\ heap \in [List!Nodes -> Cell]
      /\ \A n \in 1..len : c[n] \in live
  BY ListFacts DEF ListInv
<1>3. i \in 1..len /\ i <= k /\ i = List!Abstract!Place(d)
  BY <1>1, SearchIs
<1>4. List!Unlink(d) /\ walk' = List!After
  OBVIOUS
<1> HIDE DEF d, i
<1>5. /\ ret' = <<"SUCCESS", d>>
      /\ live' = live \ {c[i]}
      /\ heap' \in [List!Nodes -> Cell]
      /\ Chained(r, p_head', heap')
      /\ List!Chain' = r
      /\ Elements(List!Chain)' = live'
      /\ len' = Len(List!Chain)' /\ len' = len - 1
      /\ List!Contents(List!Chain', heap') = Removed(q, i)
      /\ \A n \in 1..len : n # i => heap'[c[n]].data = heap[c[n]].data
  <2>1. i # 0
    BY <1>2, <1>3
  <2> QED
    BY <1>1, <1>4, <2>1, UnlinkDoes DEF i
<1> HIDE DEF c, q, t, r
<1>6. /\ Len(r) = len - 1 /\ DOMAIN r = 1..(len - 1)
      /\ \A n \in i..(len - 1) : r[n] = c[n + 1]
  <2>1. r \in Seq(List!Nodes) /\ CutAt(r, c, i)
    <3>1. i \in 1..Len(c)
      BY <1>2, <1>3
    <3> QED
      BY <1>2, <3>1, RemovedIs, Zenon DEF r
  <2> QED
    BY <1>2, <2>1, LenProperties DEF CutAt
<1>7. walk' = Nth(r, k) /\ k \in 1..(Len(r) + 1)
  <2>1. CASE k < len
    <3>1. k \in i..(len - 1) /\ k \in DOMAIN r /\ k + 1 \in DOMAIN c
      BY <1>2, <1>3, <1>6, <2>1
    <3> QED
      BY <1>1, <1>2, <1>4, <1>6, <3>1 DEF Nth
  <2>2. CASE k = len
    <3>1. k \notin DOMAIN r /\ k + 1 \notin DOMAIN c
      BY <1>2, <1>6, <2>2
    <3> QED
      BY <1>1, <1>2, <1>4, <1>6, <2>2, <3>1 DEF Nth
  <2> QED
    BY <1>2, <2>1, <2>2
<1>8. walk' \in live' \cup {List!NULL}
  <2>1. CASE k + 1 \in DOMAIN c
    <3>1. c[k + 1] # c[i]
      BY <1>2, <1>3, <2>1 DEF Distinct
    <3> QED
      BY <1>1, <1>2, <1>4, <1>5, <2>1, <3>1 DEF Nth
  <2>2. CASE k + 1 \notin DOMAIN c
    BY <1>1, <1>4, <2>2 DEF Nth
  <2> QED
    BY <2>1, <2>2
<1>9. ListInv'
  BY <1>1, <1>5, <1>8 DEF ListInv
<1> DEFINE u == List!Contents(List!Follow(walk', heap'), heap')
<1>10. u = Tail(t)
  <2>1. /\ u \in Seq(Strings) /\ Len(u) = Len(r) + 1 - k
        /\ \A n \in 1..(Len(r) + 1 - k) : u[n] = heap'[r[k + n - 1]].data
    <3>1. u \in Seq(Strings) /\ Remains(u, r, k, heap')
      BY <1>5, <1>7, TodoIs, Zenon
    <3> HIDE DEF u
    <3> QED
      BY <3>1 DEF Remains
  <2> HIDE DEF u
  <2>2. Len(r) + 1 - k = len - k
    BY <1>2, <1>6
  <2>3. ASSUME NEW j \in 1..(len - k) PROVE u[j] = Tail(t)[j]
    <3>1. k + j - 1 \in i..(len - 1) /\ (k + j - 1) + 1 = k + j /\ k + j \in 1..len /\ k + j # i
      BY <1>2, <1>3
    <3>2. r[k + j - 1] = c[k + j]
      BY <1>6, <3>1
    <3>3. heap'[c[k + j]].data = heap[c[k + j]].data
      BY <1>5, <3>1
    <3> QED
      BY <1>1, <2>1, <2>2, <3>2, <3>3
  <2> QED
    BY <1>1, <2>1, <2>2, <2>3, SeqEqual
<1>11. ret'[1] # "NODE"
  BY <1>5
<1>12. Removed(q, i) = List!Abstract!Without(List!Abstract!Place(Head(t)))
  BY <1>1, <1>3 DEF Removed, List!Abstract!Without, q, c
<1> HIDE DEF u
<1> QED
  BY <1>1, <1>5, <1>9, <1>10, <1>11, <1>12 DEF List!Abstract!Visit, u, t

\* The function appends a datum: the walk meets it unless it was at the last node.
LEMMA VisitAppend ==
  ASSUME ListInv, walk # List!NULL, made' = made, NEW d \in ListData,
         List!Link(d, len), walk' = List!After
  PROVE  ListInv' /\ List!Abstract!Visit
<1> DEFINE c == List!Chain
           q == List!Contents(c, heap)
           t == List!Contents(List!Follow(walk, heap), heap)
<1>1. PICK k \in 1..len :
        /\ made /\ walk = c[k] /\ List!After = Nth(c, k + 1)
        /\ t \in Seq(Strings) /\ t # <<>> /\ Len(t) = len + 1 - k
        /\ Tail(t) \in Seq(Strings) /\ Len(Tail(t)) = len - k
        /\ \A j \in 1..(len - k) : Tail(t)[j] = heap[c[k + j]].data
  BY VisitAt
<1>2. /\ c \in Seq(List!Nodes) /\ len \in Nat /\ Len(c) = len /\ DOMAIN c = 1..len
      /\ \A n \in 1..len : c[n] \in live
      /\ q \in Seq(Strings) /\ Len(q) = len
  BY ListFacts
<1>3. d \in Strings /\ len \in 0..len
  BY <1>2, ListTypes DEF Strings
<1>4. PICK m \in List!Nodes \ live :
        /\ heap' \in [List!Nodes -> Cell]
        /\ Chained(Inserted(c, len, m), p_head', heap')
        /\ List!Chain' = Inserted(c, len, m)
        /\ Elements(List!Chain)' = live'
        /\ live' = live \cup {m}
        /\ len' = Len(List!Chain)' /\ len' = len + 1
        /\ List!Contents(List!Chain', heap') = Inserted(q, len, d)
        /\ heap'[m].data = d
        /\ \A n \in 1..len : heap'[c[n]].data = heap[c[n]].data
        /\ ret' = <<"SUCCESS", d, len>>
  BY <1>3, LinkDoes
<1> DEFINE r == Inserted(c, len, m)
<1> HIDE DEF c, q, t
<1>5. /\ Len(r) = len + 1 /\ r[len + 1] = m
      /\ \A n \in 1..len : r[n] = c[n]
  <2>1. r \in Seq(List!Nodes) /\ Spliced(r, c, len, m)
    <3>1. len \in 0..Len(c) /\ m \in List!Nodes
      BY <1>2, <1>3
    <3> QED
      BY <1>2, <3>1, InsertedIs, Zenon
  <2> HIDE DEF r
  <2> QED
    BY <1>2, <2>1 DEF Spliced
<1>6. Inserted(q, len, d) = Append(q, d)
  <2>1. len \in 0..Len(q)
    BY <1>2, <1>3
  <2>2. Inserted(q, len, d) \in Seq(Strings) /\ Spliced(Inserted(q, len, d), q, len, d)
    BY <1>2, <1>3, <2>1, InsertedIs, Zenon
  <2>3. /\ Append(q, d) \in Seq(Strings) /\ Len(Append(q, d)) = len + 1
        /\ \A n \in 1..len : Append(q, d)[n] = q[n]
        /\ Append(q, d)[len + 1] = d
    BY <1>2, <1>3, AppendProperties
  <2> DEFINE a == Inserted(q, len, d)
             b == Append(q, d)
  <2> HIDE DEF a, b
  <2>4. /\ a \in Seq(Strings) /\ Len(a) = len + 1
        /\ \A n \in 1..len : a[n] = q[n]
        /\ a[len + 1] = d
    BY <1>2, <2>2 DEF a, Spliced
  <2>5. ASSUME NEW n \in 1..(len + 1) PROVE a[n] = b[n]
    <3>1. n \in 1..len \/ n = len + 1
      BY <1>2
    <3> QED
      BY <2>3, <2>4, <3>1 DEF b
  <2>6. b \in Seq(Strings) /\ Len(b) = len + 1
    BY <2>3 DEF b
  <2>7. a = b
    BY <2>4, <2>5, <2>6, SeqEqual
  <2> QED
    BY <2>7 DEF a, b
<1> HIDE DEF r
<1>7. walk' \in live' \cup {List!NULL}
  BY <1>1, <1>2, <1>4 DEF Nth
<1>8. ListInv'
  BY <1>1, <1>4, <1>7 DEF ListInv
<1> DEFINE u == List!Contents(List!Follow(walk', heap'), heap')
<1>9. CASE k = len
  <2>1. walk' = List!NULL
    <3>1. k + 1 \notin DOMAIN c
      BY <1>2, <1>9
    <3> QED
      BY <1>1, <3>1 DEF Nth
  <2>2. u = <<>> /\ Len(t) = 1
    <3>1. len + 1 - len = 1
      BY <1>2
    <3> QED
      BY <1>1, <1>9, <2>1, <3>1, TodoNone
  <2> HIDE DEF u
  <2> QED
    BY <1>1, <1>2, <1>4, <1>6, <1>8, <2>2 DEF List!Abstract!Visit, u, t, q, c
<1>10. CASE k # len
  <2>0. k < len
    BY <1>2, <1>10
  <2>1. walk' = Nth(r, k + 1) /\ k + 1 \in 1..(Len(r) + 1)
    <3>1. k + 1 \in 1..len /\ r \in Seq(List!Nodes)
      BY <1>2, <1>4, <2>0 DEF Chained, r
    <3>2. DOMAIN r = 1..(len + 1)
      BY <1>5, <3>1, LenProperties
    <3> QED
      BY <1>1, <1>2, <1>5, <3>1, <3>2 DEF Nth
  <2>2. u \in Seq(Strings) /\ Remains(u, r, k + 1, heap')
    BY <1>4, <2>1, TodoIs, Zenon DEF r
  <2> HIDE DEF u
  <2>3. Len(r) + 1 - (k + 1) = len + 1 - k
    BY <1>2, <1>5
  <2>4. /\ Append(Tail(t), d) \in Seq(Strings) /\ Len(Append(Tail(t), d)) = len + 1 - k
        /\ \A n \in 1..(len - k) : Append(Tail(t), d)[n] = Tail(t)[n]
        /\ Append(Tail(t), d)[len + 1 - k] = d
    <3>1. (len - k) + 1 = len + 1 - k
      BY <1>2
    <3> QED
      BY <1>1, <1>3, <3>1, AppendProperties
  <2> DEFINE b == Append(Tail(t), d)
  <2> HIDE DEF b
  <2>5. ASSUME NEW j \in 1..(len + 1 - k) PROVE u[j] = b[j]
    <3>1. (k + 1) + j - 1 = k + j /\ k + j \in 1..(len + 1)
      BY <1>2
    <3>2. u[j] = heap'[r[k + j]].data
      BY <2>2, <2>3, <3>1 DEF Remains
    <3>3. CASE j \in 1..(len - k)
      <4>1. k + j \in 1..len
        BY <1>2, <3>3
      <4>2. r[k + j] = c[k + j] /\ heap'[c[k + j]].data = heap[c[k + j]].data
        BY <1>4, <1>5, <4>1
      <4> QED
        BY <1>1, <2>4, <3>2, <3>3, <4>2 DEF b
    <3>4. CASE j = len + 1 - k
      <4>1. k + j = len + 1
        BY <1>2, <3>4
      <4> QED
        BY <1>4, <1>5, <2>4, <3>2, <3>4, <4>1 DEF b
    <3>5. j \in 1..(len - k) \/ j = len + 1 - k
      BY <1>2
    <3> QED
      BY <3>3, <3>4, <3>5
  <2>6. u = b
    <3>1. Len(u) = len + 1 - k
      BY <2>2, <2>3 DEF Remains
    <3> QED
      BY <2>2, <2>4, <2>5, <3>1, SeqEqual DEF b
  <2>7. Len(t) # 1
    BY <1>1, <1>2, <2>0
  <2> QED
    BY <1>1, <1>2, <1>4, <1>6, <1>8, <2>6, <2>7 DEF List!Abstract!Visit, u, t, q, c, b
<1> QED
  BY <1>9, <1>10

\* One turn of sll_foreach.
LEMMA VisitStep ==
  ASSUME ListInv, List!Visit
  PROVE  ListInv' /\ List!Abstract!Visit
<1>1. walk # List!NULL /\ made' = made
  BY DEF List!Visit
<1>2. CASE List!Say(<<"SUCCESS">>) /\ walk' = List!After
  BY <1>1, <1>2, VisitSame DEF List!Say
<1>3. CASE List!Say(<<"STOPPED">>) /\ walk' = List!NULL
  BY <1>1, <1>3, VisitSame DEF List!Say
<1>4. CASE List!Unlink(heap[walk].data) /\ walk' = List!After
  BY <1>1, <1>4, VisitRemove
<1>5. CASE \E d \in ListData : List!Link(d, len) /\ walk' = List!After
  BY <1>1, <1>5, VisitAppend
<1> QED
  BY <1>2, <1>3, <1>4, <1>5 DEF List!Visit

\* Every call keeps the links whole and is one of List's.
LEMMA ListNext ==
  ASSUME ListInv, List!Next
  PROVE  ListInv' /\ List!Abstract!Next
<1>1. CASE List!Create
  BY <1>1, CreateStep DEF List!Abstract!Next
<1>2. CASE List!Destroy
  BY <1>2, DestroyStep DEF List!Abstract!Next
<1>3. CASE List!Foreach
  BY <1>3, ForeachStep DEF List!Abstract!Next
<1>4. CASE List!Visit
  BY <1>4, VisitStep DEF List!Abstract!Next
<1>5. ASSUME NEW d \in ListData, List!Get(d) PROVE ListInv' /\ List!Abstract!Next
  BY <1>5, GetStep DEF List!Abstract!Next
<1>6. ASSUME NEW d \in ListData, List!Remove(d) PROVE ListInv' /\ List!Abstract!Next
  BY <1>6, RemoveStep DEF List!Abstract!Next
<1>7. ASSUME NEW d \in ListData, NEW idx \in 0..ListNodes, List!Put(d, idx)
      PROVE  ListInv' /\ List!Abstract!Next
  <2>1. ListInv' /\ List!Abstract!Put(d, idx)
    BY <1>7, PutStep DEF List!Put
  <2> QED
    BY <2>1 DEF List!Abstract!Next
<1>8. ASSUME NEW d \in ListData, List!Add(d) PROVE ListInv' /\ List!Abstract!Next
  <2>1. len \in 0..ListNodes
    BY ListFacts
  <2>2. PICK idx \in 0..ListNodes : idx = len
    BY <2>1
  <2>3. List!Idle /\ UNCHANGED <<made, walk>>
    BY <1>8 DEF List!Add, List!Grow
  <2>4. List!Insert(d, len)
    BY <1>8 DEF List!Add, List!Grow
  <2>5. List!Insert(d, idx)
    BY <2>2, <2>4, Zenon
  <2>6. ListInv' /\ List!Abstract!Put(d, idx)
    BY <2>3, <2>5, PutStep
  <2> QED
    BY <2>6 DEF List!Abstract!Next
<1> QED
  BY <1>1, <1>2, <1>3, <1>4, <1>5, <1>6, <1>7, <1>8 DEF List!Next

\* A behaviour that is about the list is one of the list.
LEMMA ListStep ==
  ASSUME which = "list" => ListInv, [Next]_<<which, box, wire>>
  PROVE  /\ which' = "list" => ListInv'
         /\ [which = "list" => List!Abstract!Next]_<<which, List!Abstract!vars>>
<1>1. which' = which
  BY DEF Next
<1>2. CASE which # "list"
  BY <1>1, <1>2
<1>3. CASE which = "list" /\ List!Next
  BY <1>3, ListNext
<1>4. CASE which = "list" /\ UNCHANGED <<which, box, wire>>
  <2>1. UNCHANGED <<made, len, ret, live, heap, walk, p_head>>
    BY <1>4 DEF box
  <2>2. ListInv'
    <3>1. ListInv
      BY <1>4
    <3> QED
      BY <2>1, <3>1, SameList DEF ListInv
  <2>3. List!Abstract!vars' = List!Abstract!vars
    BY <2>1 DEF List!Abstract!vars, List!Chain
  <2> QED
    BY <1>4, <2>2, <2>3
<1> QED
  BY <1>1, <1>2, <1>3, <1>4 DEF Next

\* sll.c implements List, for any byte strings and any number of nodes: each call returns
\* what the list says, one that is refused or runs out of memory changes nothing, and a
\* walk visits what is ahead of it, also when the function it applies appends to the list
\* or removes the node it is at.
THEOREM ListCorrect == Spec => ImplementsList
<1>1. Init => (which = "list" => ListInv) /\ (which = "list" => List!Abstract!Init)
  BY ListInit DEF Init
<1>2. (which = "list" => ListInv) /\ [Next]_<<which, box, wire>> =>
        /\ (which = "list" => ListInv)'
        /\ [which = "list" => List!Abstract!Next]_<<which, List!Abstract!vars>>
  BY ListStep
<1> QED
  BY <1>1, <1>2, PTL DEF Spec, ImplementsList

-----------------------------------------------------------------------------
(* The tree's addresses and data.                                          *)

\* The nodes of the tree and their addresses.
LEMMA TreeTypes ==
  /\ TreeNodes \in Nat /\ Tree!Nodes = 1..TreeNodes /\ Tree!NULL = TreeNodes + 1 /\ Tree!Top = 0
  /\ Tree!NULL \notin Tree!Nodes /\ Tree!Top \notin Tree!Nodes /\ Tree!NULL # Tree!Top
  /\ TreeData \subseteq Seq(Nat)
  /\ \E f \in [TreeData -> Tree!Nodes] : \A d, e \in TreeData : f[d] = f[e] => d = e
<1>1. Tree!BstAssumption
  BY LibrariesAssumption
<1> QED
  BY <1>1 DEF Tree!BstAssumption, Tree!Nodes, Tree!NULL, Tree!Top

\* Each datum has its own address.
LEMMA HomeIs ==
  /\ Tree!Home \in [TreeData -> Tree!Nodes]
  /\ \A d, e \in TreeData : Tree!Home[d] = Tree!Home[e] => d = e
  BY TreeTypes DEF Tree!Home

\* The addresses that are some datum's.
Homes == {Tree!Home[d] : d \in TreeData}

\* The datum at an address.
KeyOf == [n \in Tree!Nodes |-> CHOOSE d \in TreeData : Tree!Home[d] = n]

\* Every such address gives its datum back, and every datum its address.
LEMMA KeyIs ==
  /\ Homes \subseteq Tree!Nodes
  /\ \A d \in TreeData : Tree!Home[d] \in Homes /\ KeyOf[Tree!Home[d]] = d
  /\ \A n \in Homes : KeyOf[n] \in TreeData /\ KeyOf[n] \in Seq(Nat) /\ Tree!Home[KeyOf[n]] = n
<1>1. \A d \in TreeData : Tree!Home[d] \in Homes /\ Tree!Home[d] \in Tree!Nodes
  BY HomeIs DEF Homes
<1>2. ASSUME NEW d \in TreeData PROVE KeyOf[Tree!Home[d]] = d
  <2>1. KeyOf[Tree!Home[d]] = CHOOSE e \in TreeData : Tree!Home[e] = Tree!Home[d]
    BY <1>1 DEF KeyOf
  <2>2. \E e \in TreeData : Tree!Home[e] = Tree!Home[d]
    OBVIOUS
  <2> DEFINE c == CHOOSE e \in TreeData : Tree!Home[e] = Tree!Home[d]
  <2>3. c \in TreeData /\ Tree!Home[c] = Tree!Home[d]
    BY <2>2
  <2> QED
    BY <2>1, <2>3, HomeIs
<1>3. ASSUME NEW n \in Homes
      PROVE  KeyOf[n] \in TreeData /\ KeyOf[n] \in Seq(Nat) /\ Tree!Home[KeyOf[n]] = n
  <2>1. PICK d \in TreeData : n = Tree!Home[d]
    BY DEF Homes
  <2>2. KeyOf[n] = d
    BY <1>2, <2>1
  <2>3. d \in Seq(Nat)
    BY TreeTypes
  <2> QED
    BY <2>1, <2>2, <2>3
<1>4. Homes \subseteq Tree!Nodes
  BY <1>1 DEF Homes
<1> QED
  BY <1>1, <1>2, <1>3, <1>4

-----------------------------------------------------------------------------
(* The order.                                                              *)

\* a and b part at place k, where a ends or is less.
Parts(a, b, k) ==
  /\ k \in 1..Len(b) /\ k <= Len(a) + 1
  /\ \A j \in 1..(k - 1) : a[j] = b[j]
  /\ k <= Len(a) => a[k] < b[k]

\* data_compare puts a before b where they part with a ended or less: memcmp over what
\* both have, then the lengths.
LEMMA LessIs ==
  ASSUME NEW a \in Seq(Nat), NEW b \in Seq(Nat)
  PROVE  Compare(a, b) < 0 <=> \E k \in Nat : Parts(a, b, k)
<1> DEFINE n == Umin(Len(a), Len(b))
           differ == {i \in 1..n : a[i] # b[i]}
           first == CHOOSE i \in differ : \A j \in differ : i <= j
<1>1. /\ Len(a) \in Nat /\ Len(b) \in Nat
      /\ \A i \in 1..Len(a) : a[i] \in Nat
      /\ \A i \in 1..Len(b) : b[i] \in Nat
  BY LenProperties
<1>2. n \in Nat /\ n <= Len(a) /\ n <= Len(b) /\ (n = Len(a) \/ n = Len(b))
  <2> HIDE DEF differ, first
  <2> QED
    BY <1>1, UminIs
<1>3. Memcmp(a, b, n) = IF differ = {} THEN 0 ELSE a[first] - b[first]
  BY DEF Memcmp
<1>4. Compare(a, b) = IF Memcmp(a, b, n) # 0 THEN Memcmp(a, b, n) ELSE Len(a) - Len(b)
  BY DEF Compare
<1> HIDE DEF n
<1>5. differ # {} => first \in differ /\ \A j \in differ : first <= j
  <2>1. differ \in SUBSET Nat
    BY <1>2
  <2> HIDE DEF differ
  <2> QED
    BY <2>1, Least DEF first
<1> HIDE DEF first
<1>6. CASE differ = {}
  <2>1. Compare(a, b) = Len(a) - Len(b)
    BY <1>3, <1>4, <1>6
  <2>2. \A i \in 1..n : a[i] = b[i]
    BY <1>6
  <2>3. ASSUME Len(a) < Len(b) PROVE Parts(a, b, Len(a) + 1)
    BY <1>1, <1>2, <2>2, <2>3 DEF Parts
  <2>4. ASSUME NEW k \in Nat, Parts(a, b, k) PROVE Len(a) < Len(b)
    <3>1. CASE k <= Len(a)
      <4>1. k \in 1..n
        BY <1>1, <1>2, <2>4, <3>1 DEF Parts
      <4> QED
        BY <1>1, <2>2, <2>4, <3>1, <4>1 DEF Parts
    <3>2. CASE ~(k <= Len(a))
      BY <1>1, <2>4, <3>2 DEF Parts
    <3> QED
      BY <3>1, <3>2
  <2>5. Len(a) - Len(b) < 0 <=> Len(a) < Len(b)
    BY <1>1
  <2>6. Len(a) + 1 \in Nat
    BY <1>1
  <2> QED
    BY <2>1, <2>3, <2>4, <2>5, <2>6
<1>7. CASE differ # {}
  <2> DEFINE f == first
  <2>1. f \in 1..n /\ a[f] # b[f] /\ \A j \in 1..n : a[j] # b[j] => f <= j
    BY <1>5, <1>7
  <2>2. f \in 1..Len(a) /\ f \in 1..Len(b) /\ a[f] \in Nat /\ b[f] \in Nat
    BY <1>1, <1>2, <2>1
  <2>3. Compare(a, b) = a[f] - b[f]
    <3>1. Memcmp(a, b, n) = a[f] - b[f]
      BY <1>3, <1>7
    <3> HIDE DEF f, differ
    <3>2. a[f] - b[f] # 0
      BY <2>1, <2>2
    <3> QED
      BY <1>4, <3>1, <3>2
  <2> HIDE DEF f, differ
  <2>4. \A j \in 1..(f - 1) : a[j] = b[j]
    BY <1>2, <2>1
  <2>5. ASSUME a[f] < b[f] PROVE Parts(a, b, f)
    BY <1>1, <2>2, <2>4, <2>5 DEF Parts
  <2>6. ASSUME NEW k \in Nat, Parts(a, b, k) PROVE a[f] < b[f]
    <3>1. CASE k < f
      <4>1. k \in 1..(f - 1) /\ k <= Len(a)
        BY <1>1, <2>2, <2>6, <3>1 DEF Parts
      <4>2. a[k] = b[k] /\ a[k] < b[k] /\ a[k] \in Nat
        BY <1>1, <2>4, <2>6, <4>1 DEF Parts
      <4> QED
        BY <4>2
    <3>2. CASE k > f
      <4>1. f \in 1..(k - 1)
        BY <2>2, <3>2
      <4> QED
        BY <2>1, <2>6, <4>1 DEF Parts
    <3>3. CASE k = f
      BY <1>1, <2>2, <2>6, <3>3 DEF Parts
    <3> QED
      BY <2>2, <3>1, <3>2, <3>3
  <2>7. a[f] - b[f] < 0 <=> a[f] < b[f]
    BY <2>2
  <2>8. f \in Nat
    BY <2>2
  <2> QED
    BY <2>3, <2>5, <2>6, <2>7, <2>8
<1> QED
  BY <1>6, <1>7

\* data_compare is a total order.
LEMMA LessTransitive ==
  ASSUME NEW a \in Seq(Nat), NEW b \in Seq(Nat), NEW c \in Seq(Nat),
         Compare(a, b) < 0, Compare(b, c) < 0
  PROVE  Compare(a, c) < 0
<1>1. /\ Len(a) \in Nat /\ Len(b) \in Nat /\ Len(c) \in Nat
      /\ \A i \in 1..Len(a) : a[i] \in Nat
      /\ \A i \in 1..Len(b) : b[i] \in Nat
      /\ \A i \in 1..Len(c) : c[i] \in Nat
  BY LenProperties
<1>2. PICK k \in Nat : Parts(a, b, k)
  BY LessIs
<1>3. PICK l \in Nat : Parts(b, c, l)
  BY LessIs
<1>4. CASE k <= l
  <2>1. k \in 1..Len(c) /\ k <= Len(a) + 1
    BY <1>1, <1>2, <1>3, <1>4 DEF Parts
  <2>2. \A j \in 1..(k - 1) : a[j] = c[j]
    <3>1. \A j \in 1..(k - 1) : j \in 1..(k - 1) /\ j \in 1..(l - 1)
      BY <1>4
    <3> QED
      BY <1>2, <1>3, <3>1 DEF Parts
  <2>3. k <= Len(a) => a[k] < c[k]
    <3> SUFFICES ASSUME k <= Len(a) PROVE a[k] < c[k]
      OBVIOUS
    <3>1. k \in 1..Len(a) /\ k \in 1..Len(b) /\ a[k] < b[k]
      BY <1>1, <1>2 DEF Parts
    <3>2. a[k] \in Nat /\ b[k] \in Nat /\ c[k] \in Nat
      BY <1>1, <2>1, <3>1
    <3>3. CASE k = l
      <4>1. l <= Len(b)
        BY <1>1, <3>1, <3>3
      <4>2. b[l] < c[l]
        BY <1>3, <4>1 DEF Parts
      <4>3. b[k] < c[k]
        BY <3>3, <4>2
      <4> QED
        BY <3>1, <3>2, <4>3
    <3>4. CASE k < l
      <4>1. k \in 1..(l - 1)
        BY <1>1, <3>1, <3>4
      <4>2. b[k] = c[k]
        BY <1>3, <4>1 DEF Parts
      <4> QED
        BY <3>1, <4>2
    <3> QED
      BY <1>4, <3>3, <3>4
  <2>4. Parts(a, c, k)
    BY <2>1, <2>2, <2>3 DEF Parts
  <2> QED
    BY <2>4, LessIs
<1>5. CASE k > l
  <2>1. l \in 1..Len(c) /\ l <= Len(a) + 1
    BY <1>1, <1>2, <1>3, <1>5 DEF Parts
  <2>2. \A j \in 1..(l - 1) : a[j] = c[j]
    <3>1. \A j \in 1..(l - 1) : j \in 1..(k - 1) /\ j \in 1..(l - 1)
      BY <1>5
    <3> QED
      BY <1>2, <1>3, <3>1 DEF Parts
  <2>3. l <= Len(a) => a[l] < c[l]
    BY <1>1, <1>2, <1>3, <1>5, <2>1 DEF Parts
  <2>4. Parts(a, c, l)
    BY <2>1, <2>2, <2>3 DEF Parts
  <2> QED
    BY <2>4, LessIs
<1> QED
  BY <1>4, <1>5

\* data_compare's two answers about a pair agree.
LEMMA LessTotal ==
  ASSUME NEW a \in Seq(Nat), NEW b \in Seq(Nat)
  PROVE  /\ Compare(a, b) \in Int
         /\ Compare(b, a) = -Compare(a, b)
<1> DEFINE n == Umin(Len(a), Len(b))
           differ == {i \in 1..n : a[i] # b[i]}
           first == CHOOSE i \in differ : \A j \in differ : i <= j
<1>1. /\ Len(a) \in Nat /\ Len(b) \in Nat
      /\ \A i \in 1..Len(a) : a[i] \in Nat
      /\ \A i \in 1..Len(b) : b[i] \in Nat
  BY LenProperties
<1>2. n \in Nat /\ n <= Len(a) /\ n <= Len(b) /\ n = Umin(Len(b), Len(a))
  <2> HIDE DEF differ, first
  <2>1. Umin(Len(a), Len(b)) = Umin(Len(b), Len(a))
    BY <1>1 DEF Umin
  <2> QED
    BY <1>1, <2>1, UminIs
<1>3. Memcmp(a, b, n) = IF differ = {} THEN 0 ELSE a[first] - b[first]
  BY DEF Memcmp
<1>5. Memcmp(b, a, n) = IF differ = {} THEN 0 ELSE b[first] - a[first]
  <2> DEFINE other == {i \in 1..n : b[i] # a[i]}
             least == CHOOSE i \in other : \A j \in other : i <= j
  <2>1. Memcmp(b, a, n) = IF other = {} THEN 0 ELSE b[least] - a[least]
    BY DEF Memcmp
  <2>2. other = differ
    OBVIOUS
  <2> HIDE DEF other, differ
  <2> QED
    BY <2>1, <2>2
<1>6. Compare(a, b) = IF Memcmp(a, b, n) # 0 THEN Memcmp(a, b, n) ELSE Len(a) - Len(b)
  BY DEF Compare
<1>7. Compare(b, a) = IF Memcmp(b, a, n) # 0 THEN Memcmp(b, a, n) ELSE Len(b) - Len(a)
  BY <1>2 DEF Compare
<1> HIDE DEF n
<1>8. differ # {} => first \in differ
  <2>1. differ \in SUBSET Nat
    BY <1>2
  <2> HIDE DEF differ
  <2> QED
    BY <2>1, Least DEF first
<1>9. differ # {} => a[first] \in Nat /\ b[first] \in Nat
  <2>1. differ \subseteq 1..n
    OBVIOUS
  <2> HIDE DEF differ, first
  <2>2. differ # {} => first \in 1..Len(a) /\ first \in 1..Len(b)
    <3>1. 1..n \subseteq 1..Len(a) /\ 1..n \subseteq 1..Len(b)
      BY <1>1, <1>2
    <3> QED
      BY <1>8, <2>1, <3>1
  <2> QED
    BY <1>1, <2>2
<1> HIDE DEF differ, first
<1> QED
  BY <1>1, <1>3, <1>5, <1>6, <1>7, <1>9

\* The order of addresses is that of their data.
Before == {o \in Homes \X Homes : Compare(KeyOf[o[1]], KeyOf[o[2]]) < 0}

\* Read off a pair of addresses.
LEMMA BeforeIs ==
  \A m, n \in Homes : <<m, n>> \in Before <=> Compare(KeyOf[m], KeyOf[n]) < 0
  BY DEF Before

\* It is a strict total order: the tree's links may rely on any two comparisons.
LEMMA OrderIs ==
  /\ \A m, n : <<m, n>> \in Before => m \in Homes /\ n \in Homes /\ m # n /\ <<n, m>> \notin Before
  /\ \A l, m, n : <<l, m>> \in Before /\ <<m, n>> \in Before => <<l, n>> \in Before
  /\ \A m, n \in Homes : m = n \/ <<m, n>> \in Before \/ <<n, m>> \in Before
<1>1. \A m, n : <<m, n>> \in Before => m \in Homes /\ n \in Homes
  BY DEF Before
<1>2. \A m, n \in Homes :
        /\ Compare(KeyOf[m], KeyOf[n]) \in Int
        /\ Compare(KeyOf[n], KeyOf[m]) = -Compare(KeyOf[m], KeyOf[n])
        /\ Compare(KeyOf[m], KeyOf[n]) = 0 => m = n
  <2> TAKE m, n \in Homes
  <2>1. KeyOf[m] \in Seq(Nat) /\ KeyOf[n] \in Seq(Nat) /\ (KeyOf[m] = KeyOf[n] => m = n)
    BY KeyIs
  <2>2. Compare(KeyOf[m], KeyOf[n]) \in Int /\ Compare(KeyOf[n], KeyOf[m]) = -Compare(KeyOf[m], KeyOf[n])
    BY <2>1, LessTotal
  <2>3. Compare(KeyOf[m], KeyOf[n]) = 0 <=> KeyOf[m] = KeyOf[n]
    BY <2>1, CompareIs
  <2> QED
    BY <2>1, <2>2, <2>3
<1>3. \A m, n \in Homes : <<m, n>> \in Before => m # n /\ <<n, m>> \notin Before
  BY <1>2, BeforeIs
<1>4. \A m, n \in Homes : m = n \/ <<m, n>> \in Before \/ <<n, m>> \in Before
  <2> TAKE m, n \in Homes
  <2> DEFINE c == Compare(KeyOf[m], KeyOf[n])
             e == Compare(KeyOf[n], KeyOf[m])
  <2>1. c \in Int /\ e = -c /\ (c = 0 => m = n)
    BY <1>2
  <2>2. (<<m, n>> \in Before <=> c < 0) /\ (<<n, m>> \in Before <=> e < 0)
    BY BeforeIs
  <2> HIDE DEF c, e
  <2> QED
    BY <2>1, <2>2
<1>5. ASSUME NEW l \in Homes, NEW m \in Homes, NEW n \in Homes, <<l, m>> \in Before, <<m, n>> \in Before
      PROVE  <<l, n>> \in Before
  <2>1. KeyOf[l] \in Seq(Nat) /\ KeyOf[m] \in Seq(Nat) /\ KeyOf[n] \in Seq(Nat)
    BY KeyIs
  <2>2. Compare(KeyOf[l], KeyOf[m]) < 0 /\ Compare(KeyOf[m], KeyOf[n]) < 0
    BY <1>5, BeforeIs
  <2>3. Compare(KeyOf[l], KeyOf[n]) < 0
    BY <2>1, <2>2, LessTransitive
  <2> QED
    BY <2>3, BeforeIs
<1> QED
  BY <1>1, <1>3, <1>4, <1>5

-----------------------------------------------------------------------------
(* Links.                                                                  *)

\* The two links of a node.
Sides == {"left", "right"}

\* What has links: the nodes, and the pointer to the root, which Bst keeps at Top.
Places == Tree!Nodes \cup {Tree!Top}

\* What a link leads to: a node or NULL.
Ends == Tree!Nodes \cup {Tree!NULL}

\* A node as the heap holds it.
TreeCell == [data : Strings, left : Ends, right : Ends]

\* The links of a heap alone, without the data.
Pointers(h) ==
  [k \in Places \X Sides |-> IF k[2] = "left" THEN h[k[1]].left ELSE h[k[1]].right]

\* They are the fields of its cells.
LEMMA PointerIs ==
  ASSUME NEW h \in [Places -> TreeCell]
  PROVE  /\ Pointers(h) \in [Places \X Sides -> Ends]
         /\ \A n \in Places : /\ Pointers(h)[<<n, "left">>] = h[n].left
                              /\ Pointers(h)[<<n, "right">>] = h[n].right
         /\ \A n \in Places, s \in Sides : Pointers(h)[<<n, s>>] = h[n][s]
  BY DEF Pointers, Sides, TreeCell

\* An assignment through a link changes that link and no other field.
LEMMA StoreIs ==
  ASSUME NEW h \in [Places -> TreeCell], NEW p \in Places, NEW s \in Sides, NEW e \in Ends
  PROVE  /\ Tree!Store(h, <<p, s>>, e) \in [Places -> TreeCell]
         /\ Pointers(Tree!Store(h, <<p, s>>, e)) = [Pointers(h) EXCEPT ![<<p, s>>] = e]
         /\ \A n \in Places : Tree!Store(h, <<p, s>>, e)[n].data = h[n].data
<1> DEFINE g == Tree!Store(h, <<p, s>>, e)
           c == [data |-> h[p].data,
                 left |-> IF s = "left" THEN e ELSE h[p].left,
                 right |-> IF s = "right" THEN e ELSE h[p].right]
<1>1. h[p] \in TreeCell /\ h[p] = [data |-> h[p].data, left |-> h[p].left, right |-> h[p].right]
  BY DEF TreeCell
<1>2. [h[p] EXCEPT ![s] = e] = c
  <2> DEFINE r == h[p]
  <2>1. r = [data |-> r.data, left |-> r.left, right |-> r.right]
    BY <1>1
  <2>2. c = [data |-> r.data, left |-> IF s = "left" THEN e ELSE r.left,
             right |-> IF s = "right" THEN e ELSE r.right]
    OBVIOUS
  <2> HIDE DEF r, c
  <2>3. CASE s = "left"
    <3>1. [r EXCEPT !.left = e] = [data |-> r.data, left |-> e, right |-> r.right]
      BY <2>1
    <3>2. [r EXCEPT !["left"] = e] = [r EXCEPT !.left = e]
      OBVIOUS
    <3>3. c = [data |-> r.data, left |-> e, right |-> r.right]
      BY <2>2, <2>3
    <3> QED
      BY <2>3, <3>1, <3>2, <3>3 DEF r
  <2>4. CASE s = "right"
    <3>1. [r EXCEPT !.right = e] = [data |-> r.data, left |-> r.left, right |-> e]
      BY <2>1
    <3>2. [r EXCEPT !["right"] = e] = [r EXCEPT !.right = e]
      OBVIOUS
    <3>3. c = [data |-> r.data, left |-> r.left, right |-> e]
      BY <2>2, <2>4
    <3> QED
      BY <2>4, <3>1, <3>2, <3>3 DEF r
  <2> QED
    BY <2>3, <2>4 DEF Sides
<1>3. g = [h EXCEPT ![p] = c]
  <2>1. g = [h EXCEPT ![p] = [h[p] EXCEPT ![s] = e]]
    BY DEF Tree!Store
  <2> QED
    BY <1>2, <2>1
<1>4. c \in TreeCell
  BY <1>1 DEF TreeCell
<1>5. c.data = h[p].data /\ c.left = (IF s = "left" THEN e ELSE h[p].left)
      /\ c.right = IF s = "right" THEN e ELSE h[p].right
  OBVIOUS
<1> HIDE DEF c, g
<1>6. g \in [Places -> TreeCell] /\ \A n \in Places : g[n] = IF n = p THEN c ELSE h[n]
  BY <1>3, <1>4
<1>7. Pointers(g) = [Pointers(h) EXCEPT ![<<p, s>>] = e]
  <2>1. Pointers(g) \in [Places \X Sides -> Ends] /\ Pointers(h) \in [Places \X Sides -> Ends]
    BY <1>6, PointerIs
  <2>2. ASSUME NEW n \in Places, NEW r \in Sides
        PROVE  Pointers(g)[<<n, r>>] = IF n = p /\ r = s THEN e ELSE Pointers(h)[<<n, r>>]
    <3>1. /\ Pointers(h)[<<n, "left">>] = h[n].left /\ Pointers(h)[<<n, "right">>] = h[n].right
          /\ Pointers(g)[<<n, "left">>] = g[n].left /\ Pointers(g)[<<n, "right">>] = g[n].right
      BY <1>6, PointerIs
    <3>2. /\ g[n].left = IF n = p /\ s = "left" THEN e ELSE h[n].left
          /\ g[n].right = IF n = p /\ s = "right" THEN e ELSE h[n].right
      BY <1>5, <1>6
    <3>3. (r = "left" \/ r = "right") /\ "left" # "right"
      BY DEF Sides
    <3> QED
      BY <3>1, <3>2, <3>3
  <2>3. \A k \in Places \X Sides : Pointers(g)[k] = IF k = <<p, s>> THEN e ELSE Pointers(h)[k]
    BY <2>2
  <2> QED
    BY <2>1, <2>3
<1> QED
  BY <1>5, <1>6, <1>7 DEF g

-----------------------------------------------------------------------------
(* Trees.                                                                  *)

\* m is on the side s of n.
Aside(m, n, s) == IF s = "left" THEN <<m, n>> \in Before ELSE <<n, m>> \in Before

\* The places there are links at: the nodes and the tree itself.
Ups(V) == V \cup {Tree!Top}

\* The shape of a tree with nodes V and links g, where S has each node's subtree.
Typed(V, g, S) ==
  /\ V \subseteq Homes
  /\ g \in [Places \X Sides -> Ends]
  /\ S \in [Ends -> SUBSET Tree!Nodes]
  /\ S[Tree!NULL] = {}
  /\ \A p \in Ups(V), s \in Sides : g[<<p, s>>] \in V \cup {Tree!NULL}

\* The root has all the nodes below it; a node has itself and what is below its links.
Covers(V, g, S) ==
  /\ S[g[<<Tree!Top, "left">>]] = V /\ g[<<Tree!Top, "right">>] = Tree!NULL
  /\ \A n \in V, m \in Tree!Nodes :
       m \in S[n] <=> m = n \/ m \in S[g[<<n, "left">>]] \/ m \in S[g[<<n, "right">>]]

\* What is below a link is on its side.
Sorted(V, g, S) ==
  \A n \in V, s \in Sides, m \in Tree!Nodes : m \in S[g[<<n, s>>]] => Aside(m, n, s)

\* No two links lead to one node.
Single(V, g) ==
  \A p, q \in Ups(V), r, s \in Sides :
    g[<<p, r>>] = g[<<q, s>>] /\ g[<<p, r>>] # Tree!NULL => p = q /\ r = s

\* What is below a node has its link there too, and all that is below it.
Nested(V, g, S) ==
  /\ \A p \in Ups(V), s \in Sides, n \in V : g[<<p, s>>] \in S[n] => g[<<p, s>>] = n \/ p \in S[n]
  /\ \A n \in V, m \in V, l \in Tree!Nodes : l \in S[m] /\ m \in S[n] => l \in S[n]

\* The nodes V are a tree by the links g, with S[n] the nodes below n, n included.
TreeOf(V, g, S) ==
  Typed(V, g, S) /\ Covers(V, g, S) /\ Sorted(V, g, S) /\ Single(V, g) /\ Nested(V, g, S)

\* The order, node by node.
LEMMA AsideIs ==
  /\ \A m, n, s : Aside(m, n, s) => m \in Homes /\ n \in Homes /\ m # n
  /\ \A m, n : Aside(m, n, "left") => ~Aside(m, n, "right")
  /\ \A m, n : Aside(m, n, "right") => ~Aside(m, n, "left")
  /\ \A l, m, n : Aside(l, m, "left") /\ Aside(m, n, "left") => Aside(l, n, "left")
  /\ \A l, m, n : Aside(l, m, "right") /\ Aside(m, n, "right") => Aside(l, n, "right")
  /\ \A m, n : Aside(m, n, "left") <=> Aside(n, m, "right")
  /\ "left" # "right" /\ Sides = {"left", "right"}
  BY OrderIs DEF Aside, Sides

\* What the proofs below take from a tree, link by link.
LEMMA TreeFacts ==
  ASSUME NEW V, NEW g, NEW S, TreeOf(V, g, S)
  PROVE  /\ V \subseteq Tree!Nodes /\ Tree!NULL \notin V /\ Tree!Top \notin V
         /\ \A n \in V : n \in S[n] /\ S[n] \subseteq V
         /\ \A n \in V, s \in Sides :
              /\ g[<<n, s>>] \in V \cup {Tree!NULL}
              /\ S[g[<<n, s>>]] \subseteq S[n]
              /\ n \notin S[g[<<n, s>>]]
         /\ \A n \in V : \A m \in S[n] : m = n \/ \E s \in Sides : m \in S[g[<<n, s>>]]
<1>1. V \subseteq Tree!Nodes /\ Tree!NULL \notin V /\ Tree!Top \notin V
  BY KeyIs, TreeTypes DEF TreeOf, Typed
<1>2. \A n \in V, s \in Sides : g[<<n, s>>] \in V \cup {Tree!NULL} /\ g[<<n, s>>] \in Ends
  BY <1>1 DEF TreeOf, Typed, Ups, Ends
<1>3. \A n \in V, s \in Sides : S[g[<<n, s>>]] \subseteq Tree!Nodes
  BY <1>2 DEF TreeOf, Typed
<1>4. \A n \in V : S[n] \subseteq Tree!Nodes
  BY <1>1 DEF TreeOf, Typed, Ends
<1>5. \A n \in V : n \in S[n]
  BY <1>1 DEF TreeOf, Covers
<1>6. \A n \in V, s \in Sides : S[g[<<n, s>>]] \subseteq S[n]
  BY <1>3 DEF TreeOf, Covers, Sides
<1>7. \A n \in V, s \in Sides : n \notin S[g[<<n, s>>]]
  BY <1>3, AsideIs DEF TreeOf, Sorted
<1>8. \A n \in V : \A m \in S[n] : m = n \/ \E s \in Sides : m \in S[g[<<n, s>>]]
  BY <1>4 DEF TreeOf, Covers, Sides
<1>9. ASSUME NEW n \in V PROVE S[n] \subseteq V
  <2> DEFINE r == g[<<Tree!Top, "left">>]
  <2>1. S[r] = V /\ r \in V \cup {Tree!NULL} /\ S[Tree!NULL] = {}
    BY DEF TreeOf, Covers, Typed, Ups, Sides
  <2>2. r \in V
    BY <2>1
  <2>3. \A l \in Tree!Nodes : l \in S[n] => l \in S[r]
    BY <2>1, <2>2 DEF TreeOf, Nested
  <2> QED
    BY <1>4, <2>1, <2>3
<1> QED
  BY <1>1, <1>2, <1>5, <1>6, <1>7, <1>8, <1>9

\* V is a tree by the links g.
IsTree(V, g) == \E S : TreeOf(V, g, S)

\* The empty tree.
LEMMA TreeEmpty ==
  ASSUME NEW g \in [Places \X Sides -> Ends],
         g[<<Tree!Top, "left">>] = Tree!NULL, g[<<Tree!Top, "right">>] = Tree!NULL
  PROVE  IsTree({}, g)
<1> DEFINE S == [n \in Ends |-> {}]
<1>1. Tree!NULL \in Ends /\ \A s \in Sides : g[<<Tree!Top, s>>] = Tree!NULL
  BY DEF Ends, Sides
<1>2. TreeOf({}, g, S)
  BY <1>1 DEF TreeOf, Typed, Covers, Sorted, Single, Nested, Ups
<1> QED
  BY <1>2 DEF IsTree

\* All links but one are as they were.
Elsewhere(V, f, g, p, s) ==
  \A q \in Ups(V), r \in Sides : (q # p \/ r # s) => f[<<q, r>>] = g[<<q, r>>]

\* Nothing is below x.
Childless(f, x) == \A r \in Sides : f[<<x, r>>] = Tree!NULL

\* y has the links of t.
TakesOver(f, y, g, t) == \A r \in Sides : f[<<y, r>>] = g[<<t, r>>]

\* What the new node is on the right side of: what is above the link.
Fits(V, g, S, p, s, x) ==
  /\ p \in Ups(V) /\ s \in Sides /\ (p = Tree!Top => s = "left")
  /\ \A n \in V : p = n => Aside(x, n, s)
  /\ \A n \in V, r \in Sides : p \in S[g[<<n, r>>]] => Aside(x, n, r)

\* A new node at a free link.
LEMMA TreeInsert ==
  ASSUME NEW V, NEW g, NEW S, TreeOf(V, g, S), NEW x \in Homes \ V,
         NEW p, NEW s, Fits(V, g, S, p, s, x), g[<<p, s>>] = Tree!NULL,
         NEW f \in [Places \X Sides -> Ends],
         f[<<p, s>>] = x, Childless(f, x),
         Elsewhere(V, f, g, p, s)
  PROVE  IsTree(V \cup {x}, f)
<1> USE DEF Elsewhere, Childless
<1> DEFINE T == [n \in Ends |-> IF n = x THEN {x} ELSE IF p \in S[n] THEN S[n] \cup {x} ELSE S[n]]
           W == V \cup {x}
<1>1. /\ V \subseteq Tree!Nodes /\ Tree!NULL \notin V /\ Tree!Top \notin V /\ x \in Tree!Nodes
      /\ V \subseteq Ends /\ x \in Ends /\ x # Tree!NULL /\ x # Tree!Top /\ x \notin V
      /\ Tree!NULL \in Ends
  BY TreeFacts, KeyIs, TreeTypes DEF Ends
<1>2. /\ \A n \in V : n \in S[n] /\ S[n] \subseteq V
      /\ \A n \in V, r \in Sides : g[<<n, r>>] \in V \cup {Tree!NULL} /\ S[g[<<n, r>>]] \subseteq S[n]
  BY TreeFacts
<1>3. p \in Ups(V) /\ s \in Sides /\ (p = Tree!Top => s = "left")
  BY DEF Fits
<1>4. /\ \A n \in V : T[n] = IF p \in S[n] THEN S[n] \cup {x} ELSE S[n]
      /\ T[x] = {x} /\ S[Tree!NULL] = {} /\ T[Tree!NULL] = {}
      /\ T \in [Ends -> SUBSET Tree!Nodes]
  BY <1>1 DEF TreeOf, Typed
<1> HIDE DEF T
<1>10. \A e \in V \cup {Tree!NULL} : T[e] = IF p \in S[e] THEN S[e] \cup {x} ELSE S[e]
  BY <1>4
<1>5. Typed(W, f, T)
  BY <1>1, <1>3, <1>4 DEF TreeOf, Typed, Ups
<1>6. Covers(W, f, T)
  <2>1. f[<<Tree!Top, "right">>] = Tree!NULL
    BY <1>3, AsideIs DEF TreeOf, Covers, Ups
  <2>2. T[f[<<Tree!Top, "left">>]] = W
    <3> DEFINE r == g[<<Tree!Top, "left">>]
    <3>1. S[r] = V /\ r \in V \cup {Tree!NULL} /\ "left" \in Sides /\ Tree!Top \in Ups(V)
      BY DEF TreeOf, Covers, Typed, Ups, Sides
    <3>2. CASE p = Tree!Top
      BY <1>1, <1>2, <1>3, <1>4, <3>1, <3>2
    <3>3. CASE p # Tree!Top
      <4>1. p \in V /\ f[<<Tree!Top, "left">>] = r
        BY <1>3, <3>1, <3>3 DEF Ups
      <4> HIDE DEF r
      <4>2. r \in V
        BY <1>4, <3>1, <4>1
      <4> QED
        BY <1>4, <3>1, <4>1, <4>2
    <3> QED
      BY <3>2, <3>3
  <2>3. ASSUME NEW n \in V, NEW m \in Tree!Nodes
        PROVE  m \in T[n] <=> m = n \/ m \in T[f[<<n, "left">>]] \/ m \in T[f[<<n, "right">>]]
    <3>1. /\ m \in S[n] <=> m = n \/ m \in S[g[<<n, "left">>]] \/ m \in S[g[<<n, "right">>]]
          /\ p \in S[n] <=> p = n \/ p \in S[g[<<n, "left">>]] \/ p \in S[g[<<n, "right">>]]
      <4>1. p \in Tree!Nodes \/ p = Tree!Top
        BY <1>1, <1>3 DEF Ups
      <4>2. p = Tree!Top => p \notin S[n] /\ p # n
        BY <1>1, <1>2
      <4> QED
        BY <1>1, <1>2, <4>1, <4>2 DEF TreeOf, Covers, Sides
    <3>2. \A r \in Sides : f[<<n, r>>] = IF n = p /\ r = s THEN x ELSE g[<<n, r>>]
      BY <1>3 DEF Ups
    <3>3. \A r \in Sides : T[g[<<n, r>>]] = IF p \in S[g[<<n, r>>]] THEN S[g[<<n, r>>]] \cup {x} ELSE S[g[<<n, r>>]]
      BY <1>2, <1>10
    <3>4. \A r \in Sides : n = p => p \notin S[g[<<n, r>>]]
      BY TreeFacts
    <3>5. CASE n = p
      <4>1. S[g[<<n, s>>]] = {} /\ T[f[<<n, s>>]] = {x} /\ T[n] = S[n] \cup {x}
        BY <1>2, <1>4, <3>5
      <4>2. \A r \in Sides : r # s => T[f[<<n, r>>]] = S[g[<<n, r>>]]
        BY <3>2, <3>3, <3>4, <3>5
      <4> QED
        BY <1>3, <3>1, <4>1, <4>2 DEF Sides
    <3>6. CASE n # p
      <4>1. \A r \in Sides : T[f[<<n, r>>]] = IF p \in S[g[<<n, r>>]] THEN S[g[<<n, r>>]] \cup {x} ELSE S[g[<<n, r>>]]
        BY <3>2, <3>3, <3>6
      <4>2. x \notin S[n] /\ x # n
        BY <1>1, <1>2
      <4>3. "left" \in Sides /\ "right" \in Sides
        BY DEF Sides
      <4> QED
        BY <1>4, <3>1, <3>6, <4>1, <4>2, <4>3
    <3> QED
      BY <3>5, <3>6
  <2>4. \A m \in Tree!Nodes :
          m \in T[x] <=> m = x \/ m \in T[f[<<x, "left">>]] \/ m \in T[f[<<x, "right">>]]
    BY <1>4 DEF Sides
  <2> QED
    BY <2>1, <2>2, <2>3, <2>4 DEF Covers
<1>7. Sorted(W, f, T)
  <2>1. ASSUME NEW n \in V, NEW r \in Sides, NEW m \in Tree!Nodes, m \in T[f[<<n, r>>]]
        PROVE  Aside(m, n, r)
    <3>1. CASE n = p /\ r = s
      BY <1>4, <2>1, <3>1 DEF Fits
    <3>2. CASE n # p \/ r # s
      <4>1. f[<<n, r>>] = g[<<n, r>>]
        BY <3>2 DEF Ups
      <4>2. m \in S[g[<<n, r>>]] \/ (m = x /\ p \in S[g[<<n, r>>]])
        <5> DEFINE c == g[<<n, r>>]
        <5>1. c \in V \cup {Tree!NULL} /\ m \in T[c]
          BY <1>2, <2>1, <4>1
        <5> HIDE DEF c
        <5>2. m \in S[c] \/ (m = x /\ p \in S[c])
          BY <1>10, <5>1
        <5> QED
          BY <5>2 DEF c
      <4> QED
        BY <4>2 DEF TreeOf, Sorted, Fits
    <3> QED
      BY <3>1, <3>2
  <2>2. \A r \in Sides : T[f[<<x, r>>]] = {}
    BY <1>4
  <2> QED
    BY <2>1, <2>2 DEF Sorted
<1>8. Single(W, f)
  <2>1. \A q \in Ups(V), r \in Sides : g[<<q, r>>] # x
    BY <1>1 DEF TreeOf, Typed
  <2>2. \A q \in Ups(V), r \in Sides : f[<<q, r>>] = IF q = p /\ r = s THEN x ELSE g[<<q, r>>]
    OBVIOUS
  <2> QED
    BY <2>1, <2>2 DEF TreeOf, Single, Ups
<1>9. Nested(W, f, T)
  <2>1. ASSUME NEW q \in Ups(W), NEW r \in Sides, NEW n \in W, f[<<q, r>>] \in T[n]
        PROVE  f[<<q, r>>] = n \/ q \in T[n]
    <3>1. f[<<q, r>>] # Tree!NULL
      BY <1>1, <1>4, <1>5, <2>1, TreeTypes DEF Typed, Ends
    <3>2. q # x /\ q \in Ups(V)
      BY <2>1, <3>1 DEF Ups
    <3>3. CASE q = p /\ r = s
      <4>1. CASE n = x
        BY <3>3, <4>1
      <4>2. CASE n \in V
        <5>1. x \in T[n] /\ x \notin S[n]
          BY <1>1, <1>2, <2>1, <3>3, <4>2
        <5> QED
          BY <1>4, <3>3, <4>2, <5>1
      <4> QED
        BY <4>1, <4>2
    <3>4. CASE q # p \/ r # s
      <4>1. f[<<q, r>>] = g[<<q, r>>] /\ g[<<q, r>>] \in V
        BY <3>1, <3>2, <3>4 DEF TreeOf, Typed
      <4>2. n \in V /\ g[<<q, r>>] \in S[n]
        BY <1>1, <1>4, <2>1, <4>1
      <4>3. g[<<q, r>>] = n \/ q \in S[n]
        BY <3>2, <4>2 DEF TreeOf, Nested
      <4> QED
        BY <1>4, <4>1, <4>2, <4>3
    <3> QED
      BY <3>3, <3>4
  <2>2. ASSUME NEW n \in W, NEW m \in W, NEW l \in Tree!Nodes, l \in T[m], m \in T[n] PROVE l \in T[n]
    <3>1. CASE n = x \/ m = x
      BY <1>4, <2>2, <3>1
    <3>2. CASE n \in V /\ m \in V
      <4>1. m \in S[n]
        BY <1>1, <1>4, <2>2, <3>2
      <4>2. \A k \in Tree!Nodes : k \in S[m] => k \in S[n]
        BY <3>2, <4>1 DEF TreeOf, Nested
      <4>3. p \in S[m] => p \in S[n]
        BY <1>1, <1>2, <3>2, <4>2
      <4> QED
        BY <1>4, <2>2, <3>2, <4>2, <4>3
    <3> QED
      BY <3>1, <3>2
  <2> QED
    BY <2>1, <2>2 DEF Nested
<1> QED
  BY <1>5, <1>6, <1>7, <1>8, <1>9 DEF TreeOf, IsTree

\* The nodes below each node once t is gone.
Without(S, t) == [n \in Ends |-> S[n] \ {t}]

\* A node with one link at most is taken out: the link to it leads past it.
LEMMA TreeUnlink ==
  ASSUME NEW V, NEW g, NEW S, TreeOf(V, g, S), NEW t \in V,
         NEW p \in Ups(V), NEW s \in Sides, g[<<p, s>>] = t,
         NEW a \in Sides, NEW b \in Sides, a # b, g[<<t, a>>] = Tree!NULL,
         NEW f \in [Places \X Sides -> Ends],
         f[<<p, s>>] = g[<<t, b>>],
         Elsewhere(V, f, g, p, s)
  PROVE  TreeOf(V \ {t}, f, Without(S, t))
<1> USE DEF Elsewhere
<1> DEFINE T == Without(S, t)
           W == V \ {t}
           c == g[<<t, b>>]
<1>1. /\ V \subseteq Tree!Nodes /\ Tree!NULL \notin V /\ Tree!Top \notin V
      /\ V \subseteq Ends /\ Tree!NULL \in Ends
  BY TreeFacts DEF Ends
<1>2. /\ \A n \in V : n \in S[n] /\ S[n] \subseteq V
      /\ \A n \in V, r \in Sides : /\ g[<<n, r>>] \in V \cup {Tree!NULL}
                                   /\ S[g[<<n, r>>]] \subseteq S[n]
                                   /\ n \notin S[g[<<n, r>>]]
  BY TreeFacts
<1>3. \A n \in V \cup {Tree!NULL} : T[n] = S[n] \ {t}
  BY <1>1 DEF Without
<1>4. T \in [Ends -> SUBSET Tree!Nodes] /\ S[Tree!NULL] = {} /\ T[Tree!NULL] = {}
  BY <1>1 DEF TreeOf, Typed, Without
<1>5. \A q \in Ups(V), r \in Sides : g[<<q, r>>] \in V \cup {Tree!NULL}
  BY DEF TreeOf, Typed
<1> HIDE DEF T
<1>6. \A q \in Ups(V), r \in Sides : g[<<q, r>>] = t => q = p /\ r = s
  BY <1>1 DEF TreeOf, Single
<1>7. p # t /\ c # t /\ c \in V \cup {Tree!NULL} /\ t \notin S[c] /\ S[c] \subseteq V
  BY <1>1, <1>2, <1>4
<1>8. \A q \in Ups(W), r \in Sides : q \in Ups(V) /\ f[<<q, r>>] = IF q = p /\ r = s THEN c ELSE g[<<q, r>>]
  BY DEF Ups
<1>9. \A q \in Ups(W), r \in Sides : f[<<q, r>>] \in W \cup {Tree!NULL}
  <2> TAKE q \in Ups(W), r \in Sides
  <2> DEFINE e == g[<<q, r>>]
  <2>1. e \in V \cup {Tree!NULL} /\ (e = t => q = p /\ r = s)
    BY <1>5, <1>6, <1>8
  <2>2. f[<<q, r>>] = IF q = p /\ r = s THEN c ELSE e
    BY <1>8
  <2> HIDE DEF c, e
  <2> QED
    BY <1>7, <2>1, <2>2
<1>10. S[t] = S[c] \cup {t}
  <2>1. \A m \in Tree!Nodes : m \in S[t] <=> m = t \/ m \in S[c]
    BY <1>4, AsideIs DEF TreeOf, Covers
  <2>2. S[t] \subseteq Tree!Nodes /\ S[c] \subseteq Tree!Nodes /\ t \in Tree!Nodes
    BY <1>1, <1>2, <1>7
  <2> HIDE DEF c
  <2> QED
    BY <2>1, <2>2
<1> HIDE DEF c
<1>11. \A q \in Ups(W), r \in Sides : T[f[<<q, r>>]] = S[g[<<q, r>>]] \ {t}
  <2> TAKE q \in Ups(W), r \in Sides
  <2>1. CASE q = p /\ r = s
    <3>1. T[c] = S[c] \ {t} /\ f[<<q, r>>] = c
      BY <1>3, <1>7, <1>8, <2>1
    <3> QED
      BY <1>10, <2>1, <3>1
  <2>2. CASE q # p \/ r # s
    BY <1>3, <1>5, <1>8, <2>2
  <2> QED
    BY <2>1, <2>2
<1>12. Typed(W, f, T)
  BY <1>4, <1>9 DEF TreeOf, Typed
<1>13. Covers(W, f, T)
  <2>1. f[<<Tree!Top, "right">>] = Tree!NULL
    <3>1. Tree!Top \in Ups(W) /\ "right" \in Sides /\ Tree!Top \in Ups(V) /\ g[<<Tree!Top, "right">>] = Tree!NULL
      BY DEF Ups, Sides, TreeOf, Covers
    <3> QED
      BY <1>1, <1>8, <3>1
  <2>2. T[f[<<Tree!Top, "left">>]] = W
    <3>1. Tree!Top \in Ups(W) /\ "left" \in Sides
      BY DEF Ups, Sides
    <3> QED
      BY <1>11, <3>1 DEF TreeOf, Covers
  <2>3. ASSUME NEW n \in W, NEW m \in Tree!Nodes
        PROVE  m \in T[n] <=> m = n \/ m \in T[f[<<n, "left">>]] \/ m \in T[f[<<n, "right">>]]
    <3>1. m \in S[n] <=> m = n \/ m \in S[g[<<n, "left">>]] \/ m \in S[g[<<n, "right">>]]
      BY DEF TreeOf, Covers
    <3>2. /\ T[f[<<n, "left">>]] = S[g[<<n, "left">>]] \ {t}
          /\ T[f[<<n, "right">>]] = S[g[<<n, "right">>]] \ {t}
      BY <1>11 DEF Sides, Ups
    <3>3. T[n] = S[n] \ {t}
      BY <1>3
    <3> QED
      BY <3>1, <3>2, <3>3
  <2> QED
    BY <2>1, <2>2, <2>3 DEF Covers
<1>14. Sorted(W, f, T)
  BY <1>11 DEF TreeOf, Sorted, Ups
<1>15. Single(W, f)
  <2> HIDE DEF W
  <2> SUFFICES ASSUME NEW q \in Ups(W), NEW u \in Ups(W), NEW r \in Sides, NEW w \in Sides,
                      f[<<q, r>>] = f[<<u, w>>], f[<<q, r>>] # Tree!NULL
               PROVE  q = u /\ r = w
    BY DEF Single
  <2> USE DEF W
  <2>1. q \in Ups(V) /\ u \in Ups(V) /\ q # t /\ u # t /\ t \in Ups(V)
    BY <1>1 DEF Ups
  <2>2. \A v \in Ups(V), z \in Sides : g[<<v, z>>] = c /\ c # Tree!NULL => v = t /\ z = b
    BY <2>1 DEF c, TreeOf, Single
  <2>3. /\ f[<<q, r>>] = IF q = p /\ r = s THEN c ELSE g[<<q, r>>]
        /\ f[<<u, w>>] = IF u = p /\ w = s THEN c ELSE g[<<u, w>>]
    BY <1>8
  <2>4. ASSUME f[<<q, r>>] = c PROVE q = p /\ r = s
    <3>1. ~(q = p /\ r = s) => g[<<q, r>>] = c /\ c # Tree!NULL
      BY <2>3, <2>4
    <3> QED
      BY <2>1, <2>2, <3>1
  <2>5. ASSUME f[<<u, w>>] = c PROVE u = p /\ w = s
    <3>1. ~(u = p /\ w = s) => g[<<u, w>>] = c /\ c # Tree!NULL
      BY <2>3, <2>5
    <3> QED
      BY <2>1, <2>2, <3>1
  <2>6. CASE q = p /\ r = s
    <3>1. f[<<q, r>>] = c
      BY <2>6, <2>3
    <3> QED
      BY <2>6, <2>5, <3>1
  <2>7. CASE u = p /\ w = s
    <3>1. f[<<u, w>>] = c
      BY <2>7, <2>3
    <3> QED
      BY <2>7, <2>4, <3>1
  <2>8. CASE ~(q = p /\ r = s) /\ ~(u = p /\ w = s)
    <3>1. g[<<q, r>>] = g[<<u, w>>] /\ g[<<q, r>>] # Tree!NULL
      BY <1>8, <2>8
    <3> QED
      BY <2>1, <3>1 DEF TreeOf, Single
  <2> QED
    BY <2>6, <2>7, <2>8
<1>16. Nested(W, f, T)
  <2>1. ASSUME NEW q \in Ups(W), NEW r \in Sides, NEW n \in W, f[<<q, r>>] \in T[n]
        PROVE  f[<<q, r>>] = n \/ q \in T[n]
    <3>0. T[n] = S[n] \ {t} /\ n # t /\ n \in V /\ q \in Ups(V) /\ q # t
      BY <1>1, <1>3 DEF Ups
    <3>1. CASE q = p /\ r = s
      <4>1. f[<<q, r>>] = c /\ c \in S[n]
        BY <1>8, <2>1, <3>0, <3>1
      <4>2. c = n \/ t \in S[n]
        BY <3>0, <4>1 DEF c, TreeOf, Nested, Ups
      <4>3. t \in S[n] => p \in S[n]
        BY <3>0 DEF TreeOf, Nested
      <4> QED
        BY <3>0, <3>1, <4>1, <4>2, <4>3
    <3>2. CASE q # p \/ r # s
      <4>1. g[<<q, r>>] = n \/ q \in S[n]
        BY <1>8, <2>1, <3>0, <3>2 DEF TreeOf, Nested
      <4> QED
        BY <1>8, <3>0, <3>2, <4>1
    <3> QED
      BY <3>1, <3>2
  <2>2. ASSUME NEW n \in W, NEW m \in W, NEW l \in Tree!Nodes, l \in T[m], m \in T[n] PROVE l \in T[n]
    <3>1. l \in S[m] /\ m \in S[n] /\ l # t
      BY <1>3, <2>2
    <3>2. l \in S[n]
      BY <3>1 DEF TreeOf, Nested
    <3> QED
      BY <1>3, <3>1, <3>2
  <2> QED
    BY <2>1, <2>2 DEF Nested
<1> QED
  BY <1>12, <1>13, <1>14, <1>15, <1>16 DEF TreeOf, T

\* y is on the right side of everything, if it takes the place of t.
Replaces(V, g, S, t, y) ==
  /\ \A n \in V, r \in Sides : t \in S[g[<<n, r>>]] => Aside(y, n, r)
  /\ \A r \in Sides, m \in Tree!Nodes : m \in S[g[<<t, r>>]] => Aside(m, y, r)

\* A node takes the place and the links of another.
LEMMA TreeReplace ==
  ASSUME NEW V, NEW g, NEW S, TreeOf(V, g, S), NEW t \in V, NEW y \in Homes \ V,
         NEW p \in Ups(V), NEW s \in Sides, g[<<p, s>>] = t,
         Replaces(V, g, S, t, y),
         NEW f \in [Places \X Sides -> Ends],
         f[<<p, s>>] = y,
         TakesOver(f, y, g, t),
         Elsewhere(V, f, g, p, s)
  PROVE  IsTree((V \ {t}) \cup {y}, f)
<1> USE DEF Elsewhere, TakesOver
<1> DEFINE T == [n \in Ends |-> IF n = y THEN (S[t] \ {t}) \cup {y}
                                ELSE IF t \in S[n] THEN (S[n] \ {t}) \cup {y} ELSE S[n]]
           U == V \ {t}
           W == U \cup {y}
<1>1. /\ V \subseteq Tree!Nodes /\ Tree!NULL \notin V /\ Tree!Top \notin V /\ y \in Tree!Nodes
      /\ V \subseteq Ends /\ y \in Ends /\ y # Tree!NULL /\ y # Tree!Top /\ y \notin V
      /\ Tree!NULL \in Ends /\ t \in Homes
  BY TreeFacts, KeyIs, TreeTypes DEF Ends, TreeOf, Typed
<1>2. /\ \A n \in V : n \in S[n] /\ S[n] \subseteq V
      /\ \A n \in V, r \in Sides : /\ g[<<n, r>>] \in V \cup {Tree!NULL}
                                   /\ S[g[<<n, r>>]] \subseteq S[n]
                                   /\ n \notin S[g[<<n, r>>]]
  BY TreeFacts
<1>3. /\ S[Tree!NULL] = {}
      /\ \A n \in V \cup {Tree!NULL} : T[n] = IF t \in S[n] THEN (S[n] \ {t}) \cup {y} ELSE S[n]
      /\ T[y] = (S[t] \ {t}) \cup {y}
      /\ T \in [Ends -> SUBSET Tree!Nodes]
  BY <1>1 DEF TreeOf, Typed
<1> HIDE DEF T
<1>4. T[Tree!NULL] = {} /\ T[t] = T[y]
  BY <1>2, <1>3
<1>5. \A q \in Ups(V), r \in Sides : g[<<q, r>>] \in V \cup {Tree!NULL}
  BY DEF TreeOf, Typed
<1>6. \A q \in Ups(V), r \in Sides : g[<<q, r>>] = t => q = p /\ r = s
  BY <1>1 DEF TreeOf, Single
<1>7. p # t /\ p # y /\ p \in Ups(U)
  BY <1>1, <1>2 DEF Ups
<1>8. \A q \in Ups(U), r \in Sides :
        q \in Ups(V) /\ q # t /\ q # y /\ f[<<q, r>>] = IF q = p /\ r = s THEN y ELSE g[<<q, r>>]
  BY <1>1 DEF Ups
<1>9. \A r \in Sides : f[<<y, r>>] = g[<<t, r>>] /\ g[<<t, r>>] \in U \cup {Tree!NULL}
  BY <1>2
<1>10. \A q \in Ups(W), r \in Sides : f[<<q, r>>] \in W \cup {Tree!NULL}
  <2> TAKE q \in Ups(W), r \in Sides
  <2>1. CASE q = y
    BY <1>9, <2>1
  <2>2. CASE q # y
    <3> DEFINE e == g[<<q, r>>]
    <3>1. q \in Ups(U)
      BY <2>2 DEF Ups
    <3>2. e \in V \cup {Tree!NULL} /\ (e = t => q = p /\ r = s)
      BY <1>5, <1>6, <1>8, <3>1
    <3>3. f[<<q, r>>] = IF q = p /\ r = s THEN y ELSE e
      BY <1>8, <3>1
    <3> HIDE DEF e
    <3> QED
      BY <3>2, <3>3
  <2> QED
    BY <2>1, <2>2
<1>11. \A q \in Ups(U), r \in Sides :
         T[f[<<q, r>>]] = IF t \in S[g[<<q, r>>]] THEN (S[g[<<q, r>>]] \ {t}) \cup {y} ELSE S[g[<<q, r>>]]
  <2> TAKE q \in Ups(U), r \in Sides
  <2>1. CASE q = p /\ r = s
    BY <1>2, <1>3, <1>8, <2>1
  <2>2. CASE q # p \/ r # s
    <3> DEFINE c == g[<<q, r>>]
    <3>1. c \in V \cup {Tree!NULL} /\ f[<<q, r>>] = c
      BY <1>5, <1>8, <2>2
    <3> HIDE DEF c
    <3>2. T[f[<<q, r>>]] = IF t \in S[c] THEN (S[c] \ {t}) \cup {y} ELSE S[c]
      BY <1>3, <3>1
    <3> QED
      BY <3>2 DEF c
  <2> QED
    BY <2>1, <2>2
<1>12. \A r \in Sides : T[f[<<y, r>>]] = S[g[<<t, r>>]]
  <2> TAKE r \in Sides
  <2> DEFINE c == g[<<t, r>>]
  <2>1. c \in V \cup {Tree!NULL} /\ f[<<y, r>>] = c /\ t \notin S[c]
    BY <1>2, <1>9
  <2> HIDE DEF c
  <2>2. T[c] = S[c]
    BY <1>3, <2>1
  <2> QED
    BY <2>1, <2>2 DEF c
<1>13. Typed(W, f, T)
  BY <1>1, <1>3, <1>4, <1>10 DEF TreeOf, Typed
<1>14. Covers(W, f, T)
  <2>1. f[<<Tree!Top, "right">>] = Tree!NULL
    <3>1. Tree!Top \in Ups(U) /\ "right" \in Sides /\ Tree!Top \in Ups(V) /\ g[<<Tree!Top, "right">>] = Tree!NULL
      BY DEF Ups, Sides, TreeOf, Covers
    <3> QED
      BY <1>1, <1>8, <3>1
  <2>2. T[f[<<Tree!Top, "left">>]] = W
    <3>1. Tree!Top \in Ups(U) /\ "left" \in Sides /\ S[g[<<Tree!Top, "left">>]] = V
      BY DEF Ups, Sides, TreeOf, Covers
    <3> QED
      BY <1>11, <3>1
  <2>3. ASSUME NEW n \in U, NEW m \in Tree!Nodes
        PROVE  m \in T[n] <=> m = n \/ m \in T[f[<<n, "left">>]] \/ m \in T[f[<<n, "right">>]]
    <3> DEFINE c == g[<<n, "left">>]
               e == g[<<n, "right">>]
    <3>1. /\ m \in S[n] <=> m = n \/ m \in S[c] \/ m \in S[e]
          /\ t \in S[n] <=> t = n \/ t \in S[c] \/ t \in S[e]
      BY <1>1 DEF TreeOf, Covers
    <3>2. /\ T[f[<<n, "left">>]] = IF t \in S[c] THEN (S[c] \ {t}) \cup {y} ELSE S[c]
          /\ T[f[<<n, "right">>]] = IF t \in S[e] THEN (S[e] \ {t}) \cup {y} ELSE S[e]
      BY <1>11 DEF Sides, Ups
    <3>3. T[n] = IF t \in S[n] THEN (S[n] \ {t}) \cup {y} ELSE S[n]
      BY <1>3
    <3> HIDE DEF c, e
    <3> QED
      BY <1>1, <3>1, <3>2, <3>3
  <2>4. ASSUME NEW m \in Tree!Nodes
        PROVE  m \in T[y] <=> m = y \/ m \in T[f[<<y, "left">>]] \/ m \in T[f[<<y, "right">>]]
    <3> DEFINE c == g[<<t, "left">>]
               e == g[<<t, "right">>]
    <3>1. (m \in S[t] <=> m = t \/ m \in S[c] \/ m \in S[e]) /\ t \notin S[c] /\ t \notin S[e]
      BY <1>2 DEF TreeOf, Covers, Sides
    <3>2. T[f[<<y, "left">>]] = S[c] /\ T[f[<<y, "right">>]] = S[e]
      BY <1>12 DEF Sides
    <3> HIDE DEF c, e
    <3> QED
      BY <1>3, <3>1, <3>2
  <2> QED
    BY <2>1, <2>2, <2>3, <2>4 DEF Covers
<1>15. Sorted(W, f, T)
  <2>1. ASSUME NEW n \in U, NEW r \in Sides, NEW m \in Tree!Nodes, m \in T[f[<<n, r>>]]
        PROVE  Aside(m, n, r)
    <3> DEFINE c == g[<<n, r>>]
    <3>1. T[f[<<n, r>>]] = IF t \in S[c] THEN (S[c] \ {t}) \cup {y} ELSE S[c]
      BY <1>11 DEF Ups
    <3>2. m \in S[c] \/ (m = y /\ t \in S[c])
      <4> HIDE DEF c
      <4> QED
        BY <2>1, <3>1
    <3> QED
      BY <3>2 DEF TreeOf, Sorted, Replaces
  <2>2. ASSUME NEW r \in Sides, NEW m \in Tree!Nodes, m \in T[f[<<y, r>>]] PROVE Aside(m, y, r)
    BY <1>12, <2>2 DEF Replaces
  <2> QED
    BY <2>1, <2>2 DEF Sorted
<1>16. Single(W, f)
  <2> HIDE DEF W, U
  <2> SUFFICES ASSUME NEW q \in Ups(W), NEW u \in Ups(W), NEW r \in Sides, NEW w \in Sides,
                      f[<<q, r>>] = f[<<u, w>>], f[<<q, r>>] # Tree!NULL
               PROVE  q = u /\ r = w
    BY DEF Single
  <2> USE DEF W, U
  <2> DEFINE old(x) == IF x = y THEN t ELSE x
  <2>1. /\ (q = y \/ q \in Ups(U)) /\ (u = y \/ u \in Ups(U))
        /\ old(q) \in Ups(V) /\ old(u) \in Ups(V)
        /\ (old(q) = old(u) => q = u)
    BY <1>1 DEF Ups
  <2>2. /\ f[<<q, r>>] = IF old(q) = p /\ r = s THEN y ELSE g[<<old(q), r>>]
        /\ f[<<u, w>>] = IF old(u) = p /\ w = s THEN y ELSE g[<<old(u), w>>]
    BY <1>7, <1>8, <1>9, <2>1
  <2> HIDE DEF old
  <2>3. g[<<old(q), r>>] # y /\ g[<<old(u), w>>] # y
    BY <1>1, <1>5, <2>1
  <2>4. CASE f[<<q, r>>] = y
    BY <2>1, <2>2, <2>3, <2>4
  <2>5. CASE f[<<q, r>>] # y
    <3>1. g[<<old(q), r>>] = g[<<old(u), w>>] /\ g[<<old(q), r>>] # Tree!NULL
      BY <2>2, <2>5
    <3> QED
      BY <2>1, <3>1 DEF TreeOf, Single
  <2> QED
    BY <2>4, <2>5
<1>17. Nested(W, f, T)
  <2>1. ASSUME NEW q \in Ups(W), NEW r \in Sides, NEW n \in W, f[<<q, r>>] \in T[n]
        PROVE  f[<<q, r>>] = n \/ q \in T[n]
    <3> DEFINE e == f[<<q, r>>]
               k == IF n = y THEN t ELSE n
    <3>1. e # Tree!NULL /\ k \in V /\ y \notin S[k] /\ T[n] = IF t \in S[k] THEN (S[k] \ {t}) \cup {y} ELSE S[k]
      <4>1. k \in V
        BY DEF W
      <4>2. T[n] = IF t \in S[k] THEN (S[k] \ {t}) \cup {y} ELSE S[k]
        <5>1. CASE n = y
          BY <1>2, <1>3, <5>1
        <5>2. CASE n # y
          BY <1>3, <4>1, <5>2
        <5> QED
          BY <5>1, <5>2
      <4>3. y \notin S[k]
        BY <1>1, <1>2, <4>1
      <4>4. e \in Tree!Nodes
        BY <1>1, <1>2, <2>1, <4>1, <4>2
      <4> QED
        BY <4>1, <4>2, <4>3, <4>4, TreeTypes
    <3>2. CASE q = y
      <4>1. e = g[<<t, r>>] /\ e \in V /\ e # t
        BY <1>2, <1>9, <3>1, <3>2
      <4>2. e \in S[k]
        BY <1>1, <2>1, <3>1, <4>1
      <4>3. e = k \/ t \in S[k]
        BY <3>1, <4>1, <4>2 DEF TreeOf, Nested, Ups
      <4>4. t \in S[k] => y \in T[n]
        BY <3>1
      <4> QED
        BY <3>1, <3>2, <4>1, <4>3, <4>4
    <3>3. CASE q \in Ups(U) /\ q = p /\ r = s
      <4>1. e = y
        BY <1>8, <3>3
      <4>2. t \in S[k]
        BY <2>1, <3>1, <4>1
      <4>3. t = k \/ p \in S[k]
        BY <3>1, <4>2 DEF TreeOf, Nested
      <4> QED
        BY <1>7, <3>1, <3>3, <4>1, <4>2, <4>3
    <3>4. CASE q \in Ups(U) /\ (q # p \/ r # s)
      <4>1. q \in Ups(V) /\ q # t /\ e = g[<<q, r>>] /\ e \in V /\ e # t
        BY <1>5, <1>6, <1>8, <3>1, <3>4
      <4>2. e \in S[k]
        BY <1>1, <2>1, <3>1, <4>1
      <4>3. e = k \/ q \in S[k]
        BY <3>1, <4>1, <4>2 DEF TreeOf, Nested
      <4> QED
        BY <3>1, <4>1, <4>3
    <3> QED
      BY <3>2, <3>3, <3>4 DEF Ups
  <2>2. ASSUME NEW n \in W, NEW m \in W, NEW l \in Tree!Nodes, l \in T[m], m \in T[n] PROVE l \in T[n]
    <3> DEFINE old(x) == IF x = y THEN t ELSE x
    <3>1. /\ old(n) \in V /\ old(m) \in V
          /\ T[n] = IF t \in S[old(n)] THEN (S[old(n)] \ {t}) \cup {y} ELSE S[old(n)]
          /\ T[m] = IF t \in S[old(m)] THEN (S[old(m)] \ {t}) \cup {y} ELSE S[old(m)]
          /\ y \notin S[old(n)] /\ y \notin S[old(m)]
      BY <1>1, <1>2, <1>3, <2>2
    <3>2. old(m) \in S[old(n)]
      BY <1>1, <2>2, <3>1
    <3> HIDE DEF old
    <3>3. \A k \in Tree!Nodes : k \in S[old(m)] => k \in S[old(n)]
      BY <3>1, <3>2 DEF TreeOf, Nested
    <3> QED
      BY <1>1, <2>2, <3>1, <3>3
  <2> QED
    BY <2>1, <2>2 DEF Nested
<1> QED
  BY <1>13, <1>14, <1>15, <1>16, <1>17 DEF TreeOf, IsTree

\* The links of the tree.
Links(V) == Ups(V) \X Sides

\* Each step from a good link is to another, one node further down.
Descends(V, g, Good, next) ==
  \A l \in Good : /\ next[l] \in Good
                  /\ next[l] = l \/ \E r \in Sides : g[l] \in V /\ next[l] = <<g[l], r>>

\* A walk takes those steps.
Walked(Good, next, at) ==
  at[0] \in Good /\ \A i \in 1..TreeNodes : at[i - 1] \in Good => at[i] = next[at[i - 1]]

\* A walk that goes down with each step ends where it cannot go on.
LEMMA Descent ==
  ASSUME NEW V, NEW g, NEW S, TreeOf(V, g, S), NEW Good \in SUBSET Links(V), NEW next, NEW at,
         Walked(Good, next, at), Descends(V, g, Good, next)
  PROVE  at[TreeNodes] \in Good /\ next[at[TreeNodes]] = at[TreeNodes]
<1> USE DEF Walked, Descends
<1> DEFINE Below(i) == /\ at[i] \in Good
                       /\ next[at[i]] = at[i] \/ Cardinality(S[g[at[i]]]) <= TreeNodes - i
           T == {i \in Nat : i <= TreeNodes => Below(i)}
<1>1. TreeNodes \in Nat /\ IsFiniteSet(Tree!Nodes) /\ Cardinality(Tree!Nodes) = TreeNodes
  BY TreeTypes, FS_Interval
<1>2. \A l \in Good : g[l] \in V \cup {Tree!NULL} /\ g[l] \in Ends
  <2> TAKE l \in Good
  <2>1. PICK p \in Ups(V), s \in Sides : l = <<p, s>>
    BY DEF Links
  <2>2. g[<<p, s>>] \in V \cup {Tree!NULL} /\ V \subseteq Tree!Nodes
    BY TreeFacts DEF TreeOf, Typed
  <2> QED
    BY <2>1, <2>2 DEF Ends
<1>3. \A e \in Ends : S[e] \subseteq Tree!Nodes
  BY DEF TreeOf, Typed
<1>4. \A e \in Ends : /\ IsFiniteSet(S[e]) /\ Cardinality(S[e]) \in Nat
                      /\ Cardinality(S[e]) <= TreeNodes
  BY <1>1, <1>3, FS_Subset, FS_CardinalityType
<1>5. 0 \in T
  BY <1>1, <1>2, <1>4
<1>6. ASSUME NEW i \in T PROVE i + 1 \in T
  <2> SUFFICES ASSUME i + 1 <= TreeNodes PROVE Below(i + 1)
    OBVIOUS
  <2> DEFINE l == at[i]
             m == at[i + 1]
  <2>1. i \in Nat /\ i <= TreeNodes /\ i + 1 \in 1..TreeNodes /\ (i + 1) - 1 = i
    BY <1>1
  <2>2. l \in Good /\ (next[l] = l \/ Cardinality(S[g[l]]) <= TreeNodes - i)
    BY <2>1
  <2>3. m = next[l] /\ m \in Good
    BY <2>1, <2>2
  <2>4. CASE next[l] = l
    BY <2>2, <2>3, <2>4
  <2>5. CASE next[l] # l
    <3>1. PICK r \in Sides : g[l] \in V /\ m = <<g[l], r>>
      BY <2>2, <2>3, <2>5
    <3>2. S[g[m]] \subseteq S[g[l]] /\ g[l] \notin S[g[m]] /\ g[l] \in S[g[l]]
      BY <3>1, TreeFacts
    <3>3. g[l] \in Ends /\ g[m] \in Ends
      BY <1>2, <2>2, <2>3
    <3> DEFINE A == S[g[m]]
               B == S[g[l]]
               e == g[l]
    <3>4. A \subseteq B \ {e} /\ e \in B /\ IsFiniteSet(B) /\ Cardinality(B) \in Nat /\ Cardinality(A) \in Nat
      BY <1>4, <3>2, <3>3
    <3> HIDE DEF A, B, e
    <3>5. IsFiniteSet(B \ {e}) /\ Cardinality(B \ {e}) = Cardinality(B) - 1
      BY <3>4, FS_RemoveElement
    <3>6. Cardinality(A) <= Cardinality(B) - 1
      BY <3>4, <3>5, FS_Subset
    <3>7. Cardinality(B) <= TreeNodes - i
      BY <2>2, <2>5 DEF B
    <3>8. Cardinality(A) <= TreeNodes - (i + 1)
      BY <1>1, <2>1, <3>4, <3>6, <3>7
    <3> QED
      BY <2>3, <3>8 DEF A
  <2> QED
    BY <2>4, <2>5
<1>7. T \in SUBSET Nat
  OBVIOUS
<1> HIDE DEF T
<1>8. T = Nat
  BY <1>5, <1>6, <1>7, SetInduction, Zenon
<1> DEFINE l == at[TreeNodes]
<1>9. l \in Good /\ (next[l] = l \/ Cardinality(S[g[l]]) <= TreeNodes - TreeNodes)
  BY <1>1, <1>8 DEF T
<1>10. CASE Cardinality(S[g[l]]) <= TreeNodes - TreeNodes
  <2>1. g[l] \in Ends
    BY <1>2, <1>9
  <2> DEFINE B == S[g[l]]
  <2>2. IsFiniteSet(B) /\ Cardinality(B) \in Nat /\ Cardinality(B) <= 0
    BY <1>1, <1>4, <1>10, <2>1
  <2> HIDE DEF B
  <2>3. B = {}
    BY <2>2, FS_EmptySet
  <2>4. g[l] \notin V
    BY <2>3, TreeFacts DEF B
  <2> QED
    BY <1>9, <2>4
<1> QED
  BY <1>9, <1>10

-----------------------------------------------------------------------------
(* The searches: get_link, and bst_del's loop that looks for the successor. *)

\* Bst's comparison is that of Bytes.
LEMMA SameTreeCompare == \A a, b : Tree!Compare(a, b) = Compare(a, b)
  BY DEF Tree!Compare, Tree!Memcmp, Tree!Umin, Compare, Memcmp, Umin

\* The nodes that are allocated are a tree by their links, with each node's datum in it.
TreeIs(V, h, S) ==
  /\ h \in [Places -> TreeCell]
  /\ TreeOf(V, Pointers(h), S)
  /\ \A n \in V : h[n].data = KeyOf[n]

\* The comparison with a node's datum says on which side of it another belongs.
LEMMA CompareAside ==
  ASSUME NEW d \in TreeData, NEW n \in Homes
  PROVE  /\ Tree!Compare(d, KeyOf[n]) = 0 <=> n = Tree!Home[d]
         /\ Tree!Compare(d, KeyOf[n]) < 0 => Aside(Tree!Home[d], n, "left")
         /\ Tree!Compare(d, KeyOf[n]) # 0 /\ ~(Tree!Compare(d, KeyOf[n]) < 0) => Aside(Tree!Home[d], n, "right")
<1> DEFINE x == Tree!Home[d]
           c == Tree!Compare(d, KeyOf[n])
           e == Compare(KeyOf[n], KeyOf[x])
<1>1. x \in Homes /\ KeyOf[x] = d /\ d \in Seq(Nat) /\ KeyOf[n] \in Seq(Nat) /\ Tree!Home[KeyOf[n]] = n
  BY KeyIs, TreeTypes
<1> HIDE DEF x
<1>2. c = Compare(d, KeyOf[n])
  BY SameTreeCompare
<1>3. c \in Int /\ e = -c
  BY <1>1, <1>2, LessTotal
<1>4. c = 0 <=> d = KeyOf[n]
  BY <1>1, <1>2, CompareIs
<1>5. (<<x, n>> \in Before <=> c < 0) /\ (<<n, x>> \in Before <=> e < 0)
  BY <1>1, <1>2, BeforeIs
<1> HIDE DEF c, e
<1>6. c = 0 <=> n = x
  BY <1>1, <1>4 DEF x
<1>7. (c < 0 => Aside(x, n, "left")) /\ (c # 0 /\ ~(c < 0) => Aside(x, n, "right"))
  BY <1>3, <1>5 DEF Aside
<1> QED
  BY <1>6, <1>7 DEF c, x

\* What get_link makes of a link on its way to the datum d.
Search(d) ==
  [l \in Links(live) |->
    IF heap[l[1]][l[2]] = Tree!NULL \/ heap[l[1]][l[2]] = Tree!Home[d] THEN l
    ELSE <<heap[l[1]][l[2]], IF Tree!Compare(d, heap[heap[l[1]][l[2]]].data) < 0 THEN "left" ELSE "right">>]

\* The links at which get_link may stand: where a search for x must pass, and if x is in
\* the tree it is below.
Approach(V, g, S, x) ==
  {l \in Links(V) : Fits(V, g, S, l[1], l[2], x) /\ (x \in V => x \in S[g[l]])}

\* One step of get_link, from l on the way to d's node.
Searches(S, d, l) ==
  LET n    == Pointers(heap)[l]
      next == Search(d)[l]
  IN  /\ n = heap[l[1]][l[2]] /\ n \in live \cup {Tree!NULL}
      /\ next \in Approach(live, Pointers(heap), S, Tree!Home[d])
      /\ next = l => n = Tree!NULL \/ n = Tree!Home[d]
      /\ next = l \/ \E r \in Sides : n \in live /\ next = <<n, r>>
      /\ next = IF n = Tree!NULL THEN l
                ELSE IF Tree!Compare(d, heap[n].data) = 0 THEN l
                ELSE <<n, IF Tree!Compare(d, heap[n].data) < 0 THEN "left" ELSE "right">>

\* It comes closer.
LEMMA SearchStep ==
  ASSUME NEW S, TreeIs(live, heap, S), NEW d \in TreeData, NEW l \in Approach(live, Pointers(heap), S, Tree!Home[d])
  PROVE  Searches(S, d, l)
<1> DEFINE g == Pointers(heap)
           x == Tree!Home[d]
           n == g[l]
           r == IF Tree!Compare(d, heap[n].data) < 0 THEN "left" ELSE "right"
           k == <<n, r>>
           V == live
<1>1. PICK p \in Ups(V), s \in Sides : l = <<p, s>> /\ l \in Links(V)
  BY DEF Approach, Links
<1>2. TreeOf(V, g, S) /\ V \subseteq Homes /\ Homes \subseteq Tree!Nodes /\ S[Tree!NULL] = {}
      /\ Tree!NULL \notin V /\ Tree!Top \notin V
  BY TreeFacts, KeyIs DEF TreeIs, TreeOf, Typed
<1>3. Fits(V, g, S, p, s, x) /\ (x \in V => x \in S[n])
  BY <1>1 DEF Approach
<1>4. n = heap[p][s] /\ n \in V \cup {Tree!NULL}
  <2>1. p \in Places
    BY <1>2 DEF Ups, Places
  <2>2. g[<<p, s>>] = heap[p][s]
    BY <2>1, PointerIs DEF TreeIs
  <2>3. g[<<p, s>>] \in V \cup {Tree!NULL}
    BY <1>2 DEF TreeOf, Typed
  <2> QED
    BY <1>1, <2>2, <2>3
<1>5. Search(d)[l] = IF n = Tree!NULL \/ n = x THEN l ELSE k
  BY <1>1, <1>4 DEF Search
<1>6. ASSUME n \in V
      PROVE  /\ heap[n].data = KeyOf[n]
             /\ Tree!Compare(d, heap[n].data) = 0 <=> n = x
             /\ n # x => Aside(x, n, r)
  <2>1. n \in Homes /\ heap[n].data = KeyOf[n]
    BY <1>2, <1>6 DEF TreeIs
  <2> HIDE DEF n, x
  <2> QED
    BY <2>1, CompareAside DEF x
<1>7. r \in Sides
  BY DEF Sides
<1> HIDE DEF r
<1>8. n # x /\ n \in V => k \in Approach(V, g, S, x)
  <2> SUFFICES ASSUME n # x, n \in V PROVE k \in Approach(V, g, S, x)
    OBVIOUS
  <2>1. k \in Links(V) /\ n \in Ups(V) /\ n # Tree!Top
    BY <1>2, <1>7 DEF Links, Ups
  <2>2. Aside(x, n, r)
    BY <1>6
  <2>3. ASSUME NEW m \in V, NEW q \in Sides, n \in S[g[<<m, q>>]] PROVE Aside(x, m, q)
    <3> DEFINE c == g[<<m, q>>]
    <3>1. c \in V
      BY <1>2, <2>3, TreeFacts
    <3>2. m \in Ups(V) /\ g[<<p, s>>] = n /\ n # Tree!NULL
      BY <1>1, <1>2 DEF Ups
    <3>3. n = c \/ p \in S[c]
      BY <1>2, <2>3, <3>1, <3>2 DEF TreeOf, Nested
    <3>4. CASE n = c
      <4>1. p = m /\ s = q
        BY <1>2, <3>2, <3>4 DEF TreeOf, Single
      <4> QED
        BY <1>3, <4>1 DEF Fits
    <3>5. CASE p \in S[c]
      BY <1>3, <3>5 DEF Fits
    <3> QED
      BY <3>3, <3>4, <3>5
  <2>4. Fits(V, g, S, n, r, x)
    BY <1>7, <2>1, <2>2, <2>3 DEF Fits
  <2>5. x \in V => x \in S[g[k]]
    <3> SUFFICES ASSUME x \in V PROVE x \in S[g[k]]
      OBVIOUS
    <3>1. x \in S[n]
      BY <1>3
    <3>2. PICK q \in Sides : x \in S[g[<<n, q>>]]
      <4>1. \A o \in V : \A m \in S[o] : m = o \/ \E q \in Sides : m \in S[g[<<o, q>>]]
        BY <1>2, TreeFacts
      <4> HIDE DEF n, x, g
      <4> QED
        BY <3>1, <4>1
    <3>3. Aside(x, n, q)
      BY <1>2, <3>2, KeyIs DEF TreeOf, Sorted
    <3>4. q = r
      BY <1>7, <2>2, <3>3, AsideIs
    <3> QED
      BY <3>2, <3>4
  <2> HIDE DEF k
  <2>6. k[1] = n /\ k[2] = r
    BY DEF k
  <2> QED
    BY <2>1, <2>4, <2>5, <2>6 DEF Approach
<1>9. n \in V => k # l
  <2> SUFFICES ASSUME n \in V, n = p, s = r PROVE FALSE
    BY <1>1
  <2>1. n \notin S[g[<<n, r>>]] /\ n \in S[n]
    BY <1>2, <1>7, TreeFacts
  <2> QED
    BY <1>1, <2>1
<1>10. n = Tree!NULL => n \notin V
  BY <1>2
<1> HIDE DEF n, k, x, g
<1>11. /\ Search(d)[l] \in Approach(V, g, S, x)
       /\ Search(d)[l] = l => n = Tree!NULL \/ n = x
       /\ Search(d)[l] = l \/ (n \in V /\ Search(d)[l] = k)
       /\ Search(d)[l] = IF n = Tree!NULL THEN l ELSE IF Tree!Compare(d, heap[n].data) = 0 THEN l ELSE k
  BY <1>4, <1>5, <1>6, <1>8, <1>9, <1>10 DEF g, x
<1>12. l[1] = p /\ l[2] = s
  BY <1>1
<1> QED
  BY <1>4, <1>7, <1>11, <1>12 DEF g, x, k, n, r, Searches

\* get_link finds the node of d, or the free link where it belongs.
LEMMA GetLinkIs ==
  ASSUME NEW S, TreeIs(live, heap, S), NEW d \in TreeData
  PROVE  LET g == Pointers(heap)
             l == Tree!GetLink(d)
             x == Tree!Home[d]
         IN  /\ l \in Links(live) /\ Fits(live, g, S, l[1], l[2], x)
             /\ Tree!At(l) = g[l]
             /\ x \in live => g[l] = x
             /\ x \notin live => g[l] = Tree!NULL
<1> DEFINE g == Pointers(heap)
           x == Tree!Home[d]
           V == live
           Good == Approach(V, g, S, x)
           Turn(l, n) == LET order == Tree!Compare(d, heap[n].data)
                         IN IF order = 0 THEN l ELSE <<n, IF order < 0 THEN "left" ELSE "right">>
           F(f) == [i \in 0..TreeNodes |->
                     IF i = 0 THEN Tree!Root
                     ELSE IF Tree!At(f[i - 1]) = Tree!NULL THEN f[i - 1]
                     ELSE Turn(f[i - 1], Tree!At(f[i - 1]))]
           at == CHOOSE f : f = F(f)
           next == [l \in Good |-> Search(d)[l]]
           q == [k \in (1..TreeNodes) \X Good |-> next[k[2]]]
<1>1. Tree!GetLink(d) = at[TreeNodes]
  BY DEF Tree!GetLink
<1> HIDE DEF at
<1>2. TreeOf(V, g, S) /\ V \subseteq Homes /\ Homes \subseteq Tree!Nodes /\ S[Tree!NULL] = {}
      /\ Tree!NULL \notin V /\ Tree!Top \notin V
  BY TreeFacts, KeyIs DEF TreeIs, TreeOf, Typed
<1>3. Tree!Root \in Good
  <2>1. Tree!Top \in Ups(V) /\ "left" \in Sides /\ Tree!Root = <<Tree!Top, "left">>
    BY DEF Tree!Root, Ups, Sides
  <2>2. \A n \in V, r \in Sides : Tree!Top \notin S[g[<<n, r>>]]
    BY <1>2, TreeFacts
  <2>3. Fits(V, g, S, Tree!Top, "left", x)
    BY <1>2, <2>1, <2>2 DEF Fits
  <2>4. x \in V => x \in S[g[Tree!Root]]
    BY <1>2, <2>1 DEF TreeOf, Covers
  <2> QED
    BY <2>1, <2>3, <2>4 DEF Approach, Links
<1>4. \A l \in Good : /\ next[l] \in Good
                      /\ next[l] = l \/ \E r \in Sides : g[l] \in V /\ next[l] = <<g[l], r>>
                      /\ next[l] = l => g[l] = Tree!NULL \/ g[l] = x
                      /\ g[l] = heap[l[1]][l[2]] /\ g[l] \in V \cup {Tree!NULL}
  <2> TAKE l \in Good
  <2>1. Searches(S, d, l)
    BY SearchStep, Zenon
  <2>2. next[l] = Search(d)[l]
    OBVIOUS
  <2> HIDE DEF F, q, Turn, next, x, Good
  <2> QED
    BY <2>1, <2>2 DEF Searches, Good, x
<1>5. \A l \in Good : next[l] = IF Tree!At(l) = Tree!NULL THEN l ELSE Turn(l, Tree!At(l))
  <2> TAKE l \in Good
  <2>1. Tree!At(l) = g[l]
    BY <1>4 DEF Tree!At
  <2>2. next[l] = IF g[l] = Tree!NULL THEN l
                  ELSE IF Tree!Compare(d, heap[g[l]].data) = 0 THEN l
                  ELSE <<g[l], IF Tree!Compare(d, heap[g[l]].data) < 0 THEN "left" ELSE "right">>
    <3>1. Searches(S, d, l)
      BY SearchStep, Zenon
    <3> QED
      BY <3>1 DEF Searches
  <2> QED
    BY <2>1, <2>2
<1>6. TreeNodes \in Nat
  BY TreeTypes
<1> HIDE DEF Good, g, x, Turn, next
<1>7. PICK f \in [0..TreeNodes -> Good] : f[0] = Tree!Root /\ \A i \in 1..TreeNodes : f[i] = next[f[i - 1]]
  <2>1. \A i \in 1..TreeNodes, l \in Good : q[<<i, l>>] = next[l] /\ q[<<i, l>>] \in Good
    BY <1>4
  <2> HIDE DEF q
  <2>2. \E f \in [0..TreeNodes -> Good] : Iterates(f, TreeNodes, Tree!Root, q)
    BY <1>3, <1>6, <2>1, Recursion
  <2>3. PICK f \in [0..TreeNodes -> Good] : Iterates(f, TreeNodes, Tree!Root, q)
    BY <2>2
  <2>4. ASSUME NEW i \in 1..TreeNodes PROVE f[i] = next[f[i - 1]]
    <3>1. i - 1 \in 0..TreeNodes
      BY <1>6
    <3>2. f[i] = q[<<i, f[i - 1]>>] /\ f[i - 1] \in Good
      BY <2>3, <3>1 DEF Iterates
    <3> QED
      BY <2>1, <3>2
  <2>5. f[0] = Tree!Root
    BY <2>3 DEF Iterates
  <2> HIDE DEF F
  <2> QED
    BY <2>4, <2>5
<1>8. f = F(f)
  <2>1. ASSUME NEW i \in 0..TreeNodes
        PROVE  f[i] = IF i = 0 THEN Tree!Root
                      ELSE IF Tree!At(f[i - 1]) = Tree!NULL THEN f[i - 1]
                      ELSE Turn(f[i - 1], Tree!At(f[i - 1]))
    <3>1. CASE i = 0
      BY <1>7, <3>1
    <3>2. CASE i # 0
      <4>1. i \in 1..TreeNodes /\ i - 1 \in 0..TreeNodes
        BY <1>6, <3>2
      <4> QED
        BY <1>5, <1>7, <3>2, <4>1
    <3> QED
      BY <3>1, <3>2
  <2> QED
    BY <2>1
<1> HIDE DEF F
<1>9. at = F(at)
  BY <1>8 DEF at
<1>10. /\ at[0] = Tree!Root
       /\ \A i \in 1..TreeNodes : at[i - 1] \in Good => at[i] = next[at[i - 1]]
  <2>1. at = [i \in 0..TreeNodes |->
                IF i = 0 THEN Tree!Root
                ELSE IF Tree!At(at[i - 1]) = Tree!NULL THEN at[i - 1]
                ELSE Turn(at[i - 1], Tree!At(at[i - 1]))]
    BY <1>9 DEF F
  <2>2. 0 \in 0..TreeNodes /\ \A i \in 1..TreeNodes : i \in 0..TreeNodes /\ i # 0
    BY <1>6
  <2>3. at[0] = Tree!Root
    BY <2>1, <2>2
  <2>4. ASSUME NEW i \in 1..TreeNodes
        PROVE  at[i] = IF Tree!At(at[i - 1]) = Tree!NULL THEN at[i - 1]
                       ELSE Turn(at[i - 1], Tree!At(at[i - 1]))
    BY <2>1, <2>2
  <2> QED
    BY <1>5, <2>3, <2>4
<1>11. Good \in SUBSET Links(V)
  BY DEF Good, Approach
<1>12. at[TreeNodes] \in Good /\ next[at[TreeNodes]] = at[TreeNodes]
  <2>1. Walked(Good, next, at)
    BY <1>3, <1>10 DEF Walked
  <2>2. Descends(V, g, Good, next)
    BY <1>4 DEF Descends
  <2>3. TreeOf(V, g, S)
    BY <1>2
  <2> QED
    BY <1>11, <2>1, <2>2, <2>3, Descent, Zenon
<1> DEFINE l == Tree!GetLink(d)
<1>13. l \in Good /\ next[l] = l
  BY <1>1, <1>12
<1> HIDE DEF l
<1>14. /\ l \in Links(V) /\ Fits(V, g, S, l[1], l[2], x)
       /\ x \in V => x \in S[g[l]]
  BY <1>13 DEF Good, Approach
<1>15. /\ g[l] = Tree!NULL \/ g[l] = x
       /\ g[l] \in V \cup {Tree!NULL}
       /\ Tree!At(l) = g[l]
  BY <1>4, <1>13 DEF Tree!At
<1>16. x \in V => g[l] = x
  BY <1>2, <1>14, <1>15
<1>17. x \notin V => g[l] = Tree!NULL
  BY <1>15
<1> QED
  BY <1>14, <1>15, <1>16, <1>17 DEF g, x, l

\* What bst_del's loop makes of a link on its way to the leftmost node.
Leftward == [l \in Links(live) |-> IF heap[heap[l[1]][l[2]]].left = Tree!NULL THEN l ELSE <<heap[l[1]][l[2]], "left">>]

\* The links at which the search for t's successor may stand: the right link of t or a left
\* link below it, with nothing on that side of t that is less and not below.
Leftwards(V, g, S, t) ==
  {l \in Links(V) :
     /\ g[l] \in V /\ g[l] \in S[g[<<t, "right">>]]
     /\ l = <<t, "right">> \/ (l[1] \in S[g[<<t, "right">>]] /\ l[2] = "left")
     /\ \A m \in S[g[<<t, "right">>]] : m \in S[g[l]] \/ <<g[l], m>> \in Before}

\* One step of the loop that looks for the successor.
LEMMA LeftStep ==
  ASSUME NEW S, TreeIs(live, heap, S), NEW t \in live, NEW l \in Leftwards(live, Pointers(heap), S, t)
  PROVE  LET g == Pointers(heap)
         IN  /\ g[l] = heap[l[1]][l[2]] /\ g[l] \in live
             /\ heap[g[l]].left = g[<<g[l], "left">>]
             /\ Leftward[l] = IF heap[g[l]].left = Tree!NULL THEN l ELSE <<g[l], "left">>
             /\ Leftward[l] \in Leftwards(live, g, S, t)
             /\ Leftward[l] = l => heap[g[l]].left = Tree!NULL
<1> DEFINE g == Pointers(heap)
           V == live
           n == g[l]
           c == g[<<n, "left">>]
           R == S[g[<<t, "right">>]]
           k == <<n, "left">>
<1>1. PICK p \in Ups(V), s \in Sides : l = <<p, s>> /\ l \in Links(V)
  BY DEF Leftwards, Links
<1>2. TreeOf(V, g, S) /\ V \subseteq Homes /\ Homes \subseteq Tree!Nodes /\ S[Tree!NULL] = {}
      /\ Tree!NULL \notin V /\ Tree!Top \notin V /\ "left" \in Sides /\ "right" \in Sides
  BY TreeFacts, KeyIs DEF TreeIs, TreeOf, Typed, Sides
<1>3. /\ n \in V /\ n \in R
      /\ l = <<t, "right">> \/ (p \in R /\ s = "left")
      /\ \A m \in R : m \in S[n] \/ <<n, m>> \in Before
  BY <1>1 DEF Leftwards
<1>4. n = heap[p][s] /\ heap[n].left = c
  <2>1. p \in Places /\ n \in Places
    BY <1>2, <1>3 DEF Ups, Places
  <2> QED
    BY <1>1, <2>1, PointerIs DEF TreeIs
<1>5. c \in V \cup {Tree!NULL} /\ S[c] \subseteq S[n] /\ n \notin S[c] /\ n \in S[n] /\ S[n] \subseteq V
      /\ \A o \in V : o \in S[o]
  BY <1>2, <1>3, TreeFacts
<1>6. Leftward[l] = IF c = Tree!NULL THEN l ELSE k
  <2>1. l[1] = p /\ l[2] = s
    BY <1>1
  <2> HIDE DEF n, c, k
  <2> QED
    BY <1>1, <1>4, <2>1 DEF Leftward, k
<1>7. k # l
  BY <1>1, <1>2, <1>5, <1>3
<1>8. ASSUME c # Tree!NULL PROVE k \in Leftwards(V, g, S, t)
  <2>1. c \in V /\ c \in S[c]
    BY <1>5, <1>8
  <2>2. g[<<t, "right">>] \in V /\ R \subseteq V /\ V \subseteq Tree!Nodes
    BY <1>2, <1>3, TreeFacts
  <2> DEFINE e == g[<<t, "right">>]
  <2>3. \A o \in V, m \in V, j \in Tree!Nodes : j \in S[m] /\ m \in S[o] => j \in S[o]
    BY <1>2 DEF TreeOf, Nested
  <2>4. c \in R
    <3>1. c \in S[n] /\ n \in S[e] /\ e \in V /\ c \in Tree!Nodes /\ n \in V
      BY <1>2, <1>3, <1>5, <2>1, <2>2
    <3> HIDE DEF c, n, e
    <3> QED
      BY <2>3, <3>1 DEF e
  <2>5. ASSUME NEW m \in R PROVE m \in S[c] \/ <<c, m>> \in Before
    <3>1. <<c, n>> \in Before
      BY <1>2, <1>3, <2>1, <2>2 DEF TreeOf, Sorted, Aside
    <3>2. CASE <<n, m>> \in Before
      BY <3>1, <3>2, OrderIs
    <3>3. CASE m = n
      BY <3>1, <3>3
    <3>4. CASE m \in S[n] /\ m # n
      <4>1. m \in Tree!Nodes
        BY <2>2
      <4>2. m \in S[c] \/ m \in S[g[<<n, "right">>]]
        BY <1>2, <1>3, <3>4, <4>1 DEF TreeOf, Covers
      <4>3. m \in S[g[<<n, "right">>]] => Aside(m, n, "right")
        BY <1>2, <1>3, <4>1 DEF TreeOf, Sorted
      <4>4. Aside(m, n, "right") => <<n, m>> \in Before
        BY DEF Aside
      <4> QED
        BY <3>1, <4>2, <4>3, <4>4, OrderIs
    <3> QED
      BY <1>3, <3>2, <3>3, <3>4
  <2>6. k \in Links(V) /\ k[1] = n /\ k[2] = "left"
    BY <1>2, <1>3 DEF Links, Ups
  <2>7. g[k] = c
    OBVIOUS
  <2> HIDE DEF k, c
  <2> QED
    BY <1>3, <2>1, <2>4, <2>5, <2>6, <2>7 DEF Leftwards
<1> HIDE DEF k, c, n, g
<1>9. l[1] = p /\ l[2] = s
  BY <1>1
<1>10. Leftward[l] \in Leftwards(V, g, S, t) /\ (Leftward[l] = l => c = Tree!NULL)
  BY <1>6, <1>7, <1>8 DEF g
<1> QED
  BY <1>3, <1>4, <1>6, <1>9, <1>10 DEF g, n, c, k

\* The successor of a node with a right child: the least of what is below that, with
\* no left child.
LEMMA LeftmostIs ==
  ASSUME NEW S, TreeIs(live, heap, S), NEW t \in live, Pointers(heap)[<<t, "right">>] # Tree!NULL
  PROVE  LET g == Pointers(heap)
             u == Tree!Leftmost(<<t, "right">>)
         IN  /\ u \in Leftwards(live, g, S, t)
             /\ Tree!At(u) = g[u]
             /\ g[<<g[u], "left">>] = Tree!NULL
<1> DEFINE g == Pointers(heap)
           V == live
           Good == Leftwards(V, g, S, t)
           c == <<t, "right">>
           F(f) == [i \in 0..TreeNodes |->
                     IF i = 0 THEN c
                     ELSE IF heap[Tree!At(f[i - 1])].left = Tree!NULL THEN f[i - 1]
                     ELSE <<Tree!At(f[i - 1]), "left">>]
           at == CHOOSE f : f = F(f)
           next == [l \in Good |-> Leftward[l]]
           q == [k \in (1..TreeNodes) \X Good |-> next[k[2]]]
<1>1. Tree!Leftmost(c) = at[TreeNodes]
  BY DEF Tree!Leftmost
<1> HIDE DEF at
<1>2. TreeOf(V, g, S) /\ "left" \in Sides /\ "right" \in Sides
  BY DEF TreeIs, Sides
<1>3. c \in Good
  <2>1. g[c] \in V /\ c \in Links(V)
    BY <1>2, TreeFacts DEF Links, Ups
  <2>2. g[c] \in S[g[c]]
    BY <1>2, <2>1, TreeFacts
  <2> QED
    BY <2>1, <2>2 DEF Leftwards
<1>4. \A l \in Good : /\ next[l] \in Good
                      /\ next[l] = l \/ \E r \in Sides : g[l] \in V /\ next[l] = <<g[l], r>>
                      /\ next[l] = l => g[<<g[l], "left">>] = Tree!NULL
                      /\ g[l] = heap[l[1]][l[2]]
                      /\ next[l] = IF heap[g[l]].left = Tree!NULL THEN l ELSE <<g[l], "left">>
  BY <1>2, LeftStep
<1>5. \A l \in Good : next[l] = IF heap[Tree!At(l)].left = Tree!NULL THEN l ELSE <<Tree!At(l), "left">>
  <2> TAKE l \in Good
  <2>1. Tree!At(l) = g[l]
    BY <1>4 DEF Tree!At
  <2>2. next[l] = IF heap[g[l]].left = Tree!NULL THEN l ELSE <<g[l], "left">>
    BY <1>4
  <2> QED
    BY <2>1, <2>2
<1>6. TreeNodes \in Nat
  BY TreeTypes
<1> HIDE DEF Good, g, next, c
<1>7. PICK f \in [0..TreeNodes -> Good] : f[0] = c /\ \A i \in 1..TreeNodes : f[i] = next[f[i - 1]]
  <2>1. \A i \in 1..TreeNodes, l \in Good : q[<<i, l>>] = next[l] /\ q[<<i, l>>] \in Good
    BY <1>4
  <2> HIDE DEF q
  <2>2. \E f \in [0..TreeNodes -> Good] : Iterates(f, TreeNodes, c, q)
    BY <1>3, <1>6, <2>1, Recursion
  <2>3. PICK f \in [0..TreeNodes -> Good] : Iterates(f, TreeNodes, c, q)
    BY <2>2
  <2>4. ASSUME NEW i \in 1..TreeNodes PROVE f[i] = next[f[i - 1]]
    <3>1. i - 1 \in 0..TreeNodes
      BY <1>6
    <3>2. f[i] = q[<<i, f[i - 1]>>] /\ f[i - 1] \in Good
      BY <2>3, <3>1 DEF Iterates
    <3> QED
      BY <2>1, <3>2
  <2>5. f[0] = c
    BY <2>3 DEF Iterates
  <2> HIDE DEF F
  <2> QED
    BY <2>4, <2>5
<1>8. f = F(f)
  <2>1. ASSUME NEW i \in 0..TreeNodes
        PROVE  f[i] = IF i = 0 THEN c
                      ELSE IF heap[Tree!At(f[i - 1])].left = Tree!NULL THEN f[i - 1]
                      ELSE <<Tree!At(f[i - 1]), "left">>
    <3>1. CASE i = 0
      BY <1>7, <3>1
    <3>2. CASE i # 0
      <4>1. i \in 1..TreeNodes /\ i - 1 \in 0..TreeNodes
        BY <1>6, <3>2
      <4> QED
        BY <1>5, <1>7, <3>2, <4>1
    <3> QED
      BY <3>1, <3>2
  <2> QED
    BY <2>1
<1> HIDE DEF F
<1>9. at = F(at)
  BY <1>8 DEF at
<1>10. /\ at[0] = c
       /\ \A i \in 1..TreeNodes : at[i - 1] \in Good => at[i] = next[at[i - 1]]
  <2>1. at = [i \in 0..TreeNodes |->
                IF i = 0 THEN c
                ELSE IF heap[Tree!At(at[i - 1])].left = Tree!NULL THEN at[i - 1]
                ELSE <<Tree!At(at[i - 1]), "left">>]
    BY <1>9 DEF F
  <2>2. 0 \in 0..TreeNodes /\ \A i \in 1..TreeNodes : i \in 0..TreeNodes /\ i # 0
    BY <1>6
  <2>3. at[0] = c
    BY <2>1, <2>2
  <2>4. ASSUME NEW i \in 1..TreeNodes
        PROVE  at[i] = IF heap[Tree!At(at[i - 1])].left = Tree!NULL THEN at[i - 1]
                       ELSE <<Tree!At(at[i - 1]), "left">>
    BY <2>1, <2>2
  <2> QED
    BY <1>5, <2>3, <2>4
<1>11. Good \in SUBSET Links(V)
  BY DEF Good, Leftwards
<1>12. at[TreeNodes] \in Good /\ next[at[TreeNodes]] = at[TreeNodes]
  <2>1. Walked(Good, next, at)
    BY <1>3, <1>10 DEF Walked
  <2>2. Descends(V, g, Good, next)
    BY <1>4 DEF Descends
  <2>3. TreeOf(V, g, S)
    BY <1>2
  <2> QED
    BY <1>11, <2>1, <2>2, <2>3, Descent, Zenon
<1> DEFINE u == Tree!Leftmost(c)
<1>13. u \in Good /\ next[u] = u
  BY <1>1, <1>12
<1> HIDE DEF u
<1>14. g[<<g[u], "left">>] = Tree!NULL /\ Tree!At(u) = g[u]
  BY <1>4, <1>13 DEF Tree!At
<1> QED
  BY <1>13, <1>14 DEF g, u, c, Good

-----------------------------------------------------------------------------
(* The walk through the tree.                                              *)

\* q has the nodes of A, each once and in their order.
Walks(q, A) ==
  /\ q \in Seq(Tree!Nodes)
  /\ Elements(q) = A
  /\ \A i, j \in DOMAIN q : i < j => <<q[i], q[j]>> \in Before

\* It has as many as there are.
LEMMA WalksAll ==
  ASSUME NEW q, NEW A, Walks(q, A)
  PROVE  /\ Len(q) \in Nat /\ DOMAIN q = 1..Len(q) /\ q \in [1..Len(q) -> Tree!Nodes]
         /\ Distinct(q) /\ IsFiniteSet(A) /\ Cardinality(A) = Len(q)
<1> DEFINE n == Len(q)
<1>1. n \in Nat /\ DOMAIN q = 1..n /\ q \in [1..n -> Tree!Nodes]
  BY LenProperties DEF Walks
<1> HIDE DEF n
<1>2. ASSUME NEW i \in 1..n, NEW j \in 1..n, q[i] = q[j] PROVE i = j
  <2>1. ~(i < j) /\ ~(j < i)
    BY <1>1, <1>2, OrderIs DEF Walks
  <2> QED
    BY <1>1, <2>1
<1>3. Distinct(q)
  BY <1>1, <1>2 DEF Distinct
<1>4. IsFiniteSet(1..n) /\ Cardinality(1..n) = n
  BY <1>1, FS_Interval
<1>5. ExistsBijection(1..n, Elements(q))
  <2>1. q \in Bijection(1..n, Elements(q))
    BY <1>1, <1>2 DEF Elements, Bijection, Injection, Surjection, IsInjective
  <2> QED
    BY <2>1 DEF ExistsBijection
<1>6. IsFiniteSet(A) /\ Cardinality(A) = n
  BY <1>4, <1>5, FS_Bijection DEF Walks
<1> QED
  BY <1>1, <1>3, <1>6 DEF n

\* One walk after another, when all of the first comes before all of the second.
LEMMA WalksOn ==
  ASSUME NEW a, NEW A, Walks(a, A), NEW b, NEW B, Walks(b, B),
         \A x \in A, y \in B : <<x, y>> \in Before
  PROVE  Walks(a \o b, A \cup B)
<1> DEFINE q == a \o b
           m == Len(a)
           n == Len(b)
<1>1. a \in Seq(Tree!Nodes) /\ b \in Seq(Tree!Nodes) /\ Elements(a) = A /\ Elements(b) = B
  BY DEF Walks
<1>2. /\ q \in Seq(Tree!Nodes) /\ Len(q) = m + n
      /\ \A i \in 1..(m + n) : q[i] = IF i <= m THEN a[i] ELSE b[i - m]
  BY <1>1, ConcatProperties
<1>3. m \in Nat /\ n \in Nat /\ DOMAIN a = 1..m /\ DOMAIN b = 1..n /\ DOMAIN q = 1..(m + n)
  BY <1>1, <1>2, LenProperties
<1>4. \A i \in DOMAIN a : a[i] \in A
  BY <1>1 DEF Elements
<1>5. \A i \in DOMAIN b : b[i] \in B
  BY <1>1 DEF Elements
<1>6. \A i \in 1..(m + n) : q[i] = IF i <= m THEN a[i] ELSE b[i - m]
  BY <1>2
<1> HIDE DEF q, m, n
<1>7. \A i \in 1..m : i \in 1..(m + n) /\ q[i] = a[i]
  BY <1>3, <1>6
<1>8. \A i \in 1..n : m + i \in 1..(m + n) /\ q[m + i] = b[i]
  <2> TAKE i \in 1..n
  <2>1. m + i \in 1..(m + n) /\ ~(m + i <= m) /\ (m + i) - m = i
    BY <1>3
  <2> QED
    BY <1>6, <2>1
<1>9. \A i \in 1..(m + n) : i \in 1..m \/ i - m \in 1..n
  BY <1>3
<1>10. \A i \in 1..(m + n) : (i \in 1..m /\ q[i] = a[i]) \/ (~(i <= m) /\ i - m \in 1..n /\ q[i] = b[i - m])
  BY <1>3, <1>6, <1>9
<1>11. Elements(q) = A \cup B
  <2>1. \A x \in A : \E i \in DOMAIN a : x = a[i]
    BY <1>1 DEF Elements
  <2>2. \A x \in B : \E i \in DOMAIN b : x = b[i]
    BY <1>1 DEF Elements
  <2>3. ASSUME NEW x \in A PROVE x \in Elements(q)
    <3>1. PICK i \in 1..m : x = a[i]
      BY <1>3, <2>1
    <3>2. i \in DOMAIN q /\ x = q[i]
      BY <1>3, <1>7, <3>1
    <3> QED
      BY <3>2 DEF Elements
  <2>5. ASSUME NEW x \in B PROVE x \in Elements(q)
    <3>1. PICK i \in 1..n : x = b[i]
      BY <1>3, <2>2
    <3>2. m + i \in DOMAIN q /\ x = q[m + i]
      BY <1>3, <1>8, <3>1
    <3> QED
      BY <3>2 DEF Elements
  <2>4. Elements(q) \subseteq A \cup B
    BY <1>3, <1>4, <1>5, <1>10 DEF Elements
  <2> QED
    BY <2>3, <2>4, <2>5
<1>12. ASSUME NEW i \in 1..(m + n), NEW j \in 1..(m + n), i < j PROVE <<q[i], q[j]>> \in Before
  <2>1. CASE j \in 1..m /\ q[j] = a[j]
    <3>1. i \in 1..m
      BY <1>3, <1>12, <2>1
    <3> QED
      BY <1>3, <1>7, <1>12, <2>1, <3>1 DEF Walks
  <2>2. CASE ~(j <= m) /\ j - m \in 1..n /\ q[j] = b[j - m]
    <3>1. CASE i \in 1..m /\ q[i] = a[i]
      BY <1>3, <1>4, <1>5, <2>2, <3>1
    <3>2. CASE ~(i <= m) /\ i - m \in 1..n /\ q[i] = b[i - m]
      <4>1. i - m < j - m
        BY <1>3, <1>12
      <4> QED
        BY <1>3, <2>2, <3>2, <4>1 DEF Walks
    <3> QED
      BY <1>10, <3>1, <3>2
  <2> QED
    BY <1>10, <2>1, <2>2
<1> QED
  BY <1>2, <1>3, <1>11, <1>12 DEF Walks, q

\* A walk to one node.
LEMMA WalksOne ==
  ASSUME NEW n \in Tree!Nodes
  PROVE  Walks(<<n>>, {n})
  BY DEF Walks, Elements

\* What subtree_foreach shows below each node, given what it shows one level down.
Below(h, b) ==
  [n \in Ends |-> IF n = Tree!NULL THEN <<>> ELSE b[h[n].left] \o <<n>> \o b[h[n].right]]

\* It is a sequence of nodes again.
LEMMA BelowType ==
  ASSUME NEW h \in [Places -> TreeCell], NEW b \in [Ends -> Seq(Tree!Nodes)]
  PROVE  Below(h, b) \in [Ends -> Seq(Tree!Nodes)]
<1>1. ASSUME NEW n \in Tree!Nodes PROVE b[h[n].left] \o <<n>> \o b[h[n].right] \in Seq(Tree!Nodes)
  <2>1. h[n] \in TreeCell
    BY DEF Places
  <2>2. h[n].left \in Ends /\ h[n].right \in Ends
    BY <2>1 DEF TreeCell
  <2>3. b[h[n].left] \in Seq(Tree!Nodes) /\ b[h[n].right] \in Seq(Tree!Nodes) /\ <<n>> \in Seq(Tree!Nodes)
    BY <2>2
  <2> DEFINE u == b[h[n].left]
             v == b[h[n].right]
  <2> HIDE DEF u, v
  <2>4. u \o <<n>> \in Seq(Tree!Nodes)
    BY <2>3, ConcatProperties DEF u
  <2>5. (u \o <<n>>) \o v \in Seq(Tree!Nodes)
    BY <2>3, <2>4, ConcatProperties DEF v
  <2> QED
    BY <2>5 DEF u, v
<1>2. <<>> \in Seq(Tree!Nodes)
  OBVIOUS
<1> QED
  BY <1>1, <1>2 DEF Below, Ends

\* The subtree of a node takes one level more than those below its links.
LEMMA BelowWalks ==
  ASSUME NEW V, NEW h, NEW S, TreeIs(V, h, S), NEW b, NEW n \in V,
         Walks(b[h[n].left], S[h[n].left]), Walks(b[h[n].right], S[h[n].right])
  PROVE  Walks(Below(h, b)[n], S[n])
<1> DEFINE g == Pointers(h)
           k == h[n].left
           m == h[n].right
           A == S[k]
           B == S[m]
<1>1. TreeOf(V, g, S) /\ V \subseteq Tree!Nodes /\ n \in Tree!Nodes /\ n # Tree!NULL
      /\ "left" \in Sides /\ "right" \in Sides
  BY TreeFacts DEF TreeIs, Sides
<1>2. k = g[<<n, "left">>] /\ m = g[<<n, "right">>]
  BY <1>1, PointerIs DEF TreeIs, Places
<1>3. S[n] \subseteq Tree!Nodes /\ A \subseteq Tree!Nodes /\ B \subseteq Tree!Nodes
  BY <1>1, <1>2, TreeFacts
<1>4. \A x \in Tree!Nodes : x \in S[n] <=> x = n \/ x \in A \/ x \in B
  BY <1>1, <1>2 DEF TreeOf, Covers
<1>5. \A x \in A : <<x, n>> \in Before
  BY <1>1, <1>2, <1>3 DEF TreeOf, Sorted, Aside
<1>6. \A x \in B : <<n, x>> \in Before
  BY <1>1, <1>2, <1>3, AsideIs DEF TreeOf, Sorted, Aside
<1>7. Below(h, b)[n] = b[k] \o <<n>> \o b[m]
  BY <1>1 DEF Below, Ends
<1>8. Walks(b[k], A) /\ Walks(b[m], B)
  OBVIOUS
<1> HIDE DEF A, B, k, m
<1>9. Walks(b[k] \o <<n>>, A \cup {n})
  <2>1. \A x \in A, y \in {n} : <<x, y>> \in Before
    BY <1>5
  <2> QED
    BY <1>1, <1>8, <2>1, WalksOne, WalksOn
<1>10. Walks((b[k] \o <<n>>) \o b[m], (A \cup {n}) \cup B)
  <2>1. \A x \in A \cup {n}, y \in B : <<x, y>> \in Before
    BY <1>5, <1>6, OrderIs
  <2> QED
    BY <1>8, <1>9, <2>1, WalksOn
<1>11. S[n] = (A \cup {n}) \cup B
  BY <1>1, <1>3, <1>4
<1> QED
  BY <1>7, <1>10, <1>11

\* bst_foreach visits each node once, in the order of their data.
LEMMA InOrderIs ==
  ASSUME NEW V, NEW h, NEW S, TreeIs(V, h, S)
  PROVE  Walks(Tree!InOrder(h), V)
<1> DEFINE N == TreeNodes
           W == [Ends -> Seq(Tree!Nodes)]
           c == [n \in Ends |-> <<>>]
           F(f) == [i \in 0..N |->
                     [n \in Ends |->
                       IF n = Tree!NULL \/ i = 0 THEN <<>>
                       ELSE f[i - 1][h[n].left] \o <<n>> \o f[i - 1][h[n].right]]]
           at == CHOOSE f : f = F(f)
           q == [k \in (1..N) \X W |-> Below(h, k[2])]
           g == Pointers(h)
           r == h[Tree!Top].left
<1>1. Tree!InOrder(h) = at[N][r]
  BY DEF Tree!InOrder, Ends
<1> HIDE DEF at
<1>2. N \in Nat /\ IsFiniteSet(Tree!Nodes) /\ Cardinality(Tree!Nodes) = N
  BY TreeTypes, FS_Interval
<1>3. c \in W
  <2>1. <<>> \in Seq(Tree!Nodes)
    OBVIOUS
  <2> QED
    BY <2>1
<1>4. \A b \in W : Below(h, b) \in W
  BY BelowType DEF TreeIs
<1>5. \A b \in W, i \in 1..N :
        Below(h, b) = [n \in Ends |-> IF n = Tree!NULL \/ i = 0 THEN <<>>
                                      ELSE b[h[n].left] \o <<n>> \o b[h[n].right]]
  BY <1>2 DEF Below
<1> HIDE DEF W
<1>6. PICK f \in [0..N -> W] : f[0] = c /\ \A i \in 1..N : f[i] = Below(h, f[i - 1])
  <2>1. \A i \in 1..N, b \in W : q[<<i, b>>] = Below(h, b) /\ q[<<i, b>>] \in W
    BY <1>4
  <2> HIDE DEF q, c, F
  <2>2. PICK f \in [0..N -> W] : Iterates(f, N, c, q)
    BY <1>2, <1>3, <2>1, Recursion
  <2>3. ASSUME NEW i \in 1..N PROVE f[i] = Below(h, f[i - 1])
    <3>1. i - 1 \in 0..N
      BY <1>2
    <3>2. f[i] = q[<<i, f[i - 1]>>] /\ f[i - 1] \in W
      BY <2>2, <3>1 DEF Iterates
    <3> QED
      BY <2>1, <3>2
  <2>4. f[0] = c
    BY <2>2 DEF Iterates
  <2> QED
    BY <2>3, <2>4
<1>7. f = F(f)
  <2>1. ASSUME NEW i \in 0..N
        PROVE  f[i] = [n \in Ends |->
                        IF n = Tree!NULL \/ i = 0 THEN <<>>
                        ELSE f[i - 1][h[n].left] \o <<n>> \o f[i - 1][h[n].right]]
    <3>1. CASE i = 0
      BY <1>6, <3>1
    <3>2. CASE i # 0
      <4>1. i \in 1..N /\ i - 1 \in 0..N
        BY <1>2, <3>2
      <4>2. f[i] = Below(h, f[i - 1])
        BY <1>6, <4>1
      <4> QED
        BY <3>2, <4>2 DEF Below
    <3> QED
      BY <3>1, <3>2
  <2> QED
    BY <2>1
<1> HIDE DEF F
<1>8. at = F(at)
  BY <1>7 DEF at
<1>9. /\ at[0] = c
      /\ \A i \in 1..N : at[i] = Below(h, at[i - 1])
  <2>1. at = [i \in 0..N |->
               [n \in Ends |->
                 IF n = Tree!NULL \/ i = 0 THEN <<>>
                 ELSE at[i - 1][h[n].left] \o <<n>> \o at[i - 1][h[n].right]]]
    BY <1>8 DEF F
  <2>2. 0 \in 0..N /\ \A i \in 1..N : i \in 0..N /\ i # 0
    BY <1>2
  <2>3. at[0] = c
    BY <2>1, <2>2
  <2>4. ASSUME NEW i \in 1..N PROVE at[i] = Below(h, at[i - 1])
    <3>1. at[i] = [n \in Ends |->
                    IF n = Tree!NULL \/ i = 0 THEN <<>>
                    ELSE at[i - 1][h[n].left] \o <<n>> \o at[i - 1][h[n].right]]
      BY <2>1, <2>2
    <3> QED
      BY <2>2, <3>1 DEF Below
  <2> QED
    BY <2>3, <2>4
<1>10. TreeOf(V, g, S) /\ V \subseteq Tree!Nodes /\ S[Tree!NULL] = {} /\ Tree!NULL \notin V
       /\ "left" \in Sides /\ "right" \in Sides
  BY TreeFacts DEF TreeIs, TreeOf, Typed, Sides
<1>11. \A e \in V \cup {Tree!NULL} : /\ S[e] \subseteq Tree!Nodes /\ IsFiniteSet(S[e])
                                     /\ Cardinality(S[e]) \in Nat /\ Cardinality(S[e]) <= N
  <2> TAKE e \in V \cup {Tree!NULL}
  <2> DEFINE A == S[e]
  <2>1. A \subseteq Tree!Nodes
    BY <1>10, TreeFacts
  <2> HIDE DEF A
  <2>2. IsFiniteSet(A) /\ Cardinality(A) \in Nat /\ Cardinality(A) <= N
    BY <1>2, <2>1, FS_Subset, FS_CardinalityType
  <2> QED
    BY <2>1, <2>2 DEF A
<1>12. Walks(<<>>, {})
  BY DEF Walks, Elements
<1> DEFINE Right(i) == \A e \in V \cup {Tree!NULL} : Cardinality(S[e]) <= i => Walks(at[i][e], S[e])
           T == {i \in Nat : i <= N => Right(i)}
<1>13. \A i \in 0..N : at[i][Tree!NULL] = <<>>
  <2> TAKE i \in 0..N
  <2>1. CASE i = 0
    BY <1>9, <2>1 DEF Ends
  <2>2. CASE i # 0
    <3>1. i \in 1..N
      BY <1>2, <2>2
    <3> QED
      BY <1>9, <3>1 DEF Below, Ends
  <2> QED
    BY <2>1, <2>2
<1> HIDE DEF c
<1>14. 0 \in T
  <2> SUFFICES ASSUME NEW e \in V \cup {Tree!NULL}, Cardinality(S[e]) <= 0 PROVE Walks(at[0][e], S[e])
    OBVIOUS
  <2> DEFINE A == S[e]
  <2>1. IsFiniteSet(A) /\ Cardinality(A) \in Nat /\ Cardinality(A) <= 0
    BY <1>11
  <2> HIDE DEF A
  <2>2. A = {}
    BY <2>1, FS_EmptySet
  <2>3. e = Tree!NULL
    BY <1>10, <2>2, TreeFacts DEF A
  <2>4. at[0][Tree!NULL] = <<>>
    BY <1>2, <1>13
  <2> QED
    BY <1>10, <1>12, <2>3, <2>4
<1>15. ASSUME NEW i \in T PROVE i + 1 \in T
  <2> SUFFICES ASSUME i + 1 <= N, NEW e \in V \cup {Tree!NULL}, Cardinality(S[e]) <= i + 1
               PROVE  Walks(at[i + 1][e], S[e])
    OBVIOUS
  <2>1. i \in Nat /\ i <= N /\ i + 1 \in 1..N /\ i + 1 \in 0..N /\ (i + 1) - 1 = i
    BY <1>2
  <2>2. Right(i)
    BY <2>1
  <2>3. CASE e = Tree!NULL
    BY <1>10, <1>12, <1>13, <2>1, <2>3
  <2>4. CASE e \in V
    <3> HIDE DEF Right
    <3>1. at[i + 1] = Below(h, at[i])
      BY <1>9, <2>1
    <3>2. h[e].left = g[<<e, "left">>] /\ h[e].right = g[<<e, "right">>]
      BY <1>10, <2>4, PointerIs DEF TreeIs, Places
    <3>3. ASSUME NEW s \in Sides PROVE Walks(at[i][g[<<e, s>>]], S[g[<<e, s>>]])
      <4> DEFINE k == g[<<e, s>>]
                 A == S[k]
                 B == S[e]
      <4>1. k \in V \cup {Tree!NULL} /\ A \subseteq B /\ e \notin A /\ e \in B
        BY <1>10, <2>4, TreeFacts
      <4>2. IsFiniteSet(B) /\ Cardinality(B) \in Nat /\ Cardinality(A) \in Nat /\ Cardinality(B) <= i + 1
        BY <1>11, <4>1
      <4> HIDE DEF A, B
      <4>3. A \subseteq B \ {e} /\ IsFiniteSet(B \ {e}) /\ Cardinality(B \ {e}) = Cardinality(B) - 1
        BY <4>1, <4>2, FS_RemoveElement
      <4>4. Cardinality(A) <= Cardinality(B) - 1
        BY <4>3, FS_Subset
      <4>5. Cardinality(A) <= i
        BY <2>1, <4>2, <4>4
      <4> HIDE DEF k
      <4>6. Walks(at[i][k], S[k])
        BY <2>2, <4>1, <4>5 DEF Right, A
      <4> QED
        BY <4>6 DEF k
    <3>4. Walks(at[i][h[e].left], S[h[e].left]) /\ Walks(at[i][h[e].right], S[h[e].right])
      BY <1>10, <3>2, <3>3
    <3>5. Walks(Below(h, at[i])[e], S[e])
      BY <2>4, <3>4, BelowWalks, Zenon
    <3> QED
      BY <3>1, <3>5
  <2> QED
    BY <2>3, <2>4
<1>16. T \in SUBSET Nat
  OBVIOUS
<1> HIDE DEF T, Right
<1>17. T = Nat
  BY <1>14, <1>15, <1>16, SetInduction, Zenon
<1>18. Right(N)
  BY <1>2, <1>17 DEF T
<1>19. r = g[<<Tree!Top, "left">>] /\ r \in V \cup {Tree!NULL} /\ S[r] = V
  <2>1. r = g[<<Tree!Top, "left">>]
    BY PointerIs DEF TreeIs, Places
  <2>2. S[g[<<Tree!Top, "left">>]] = V
    BY <1>10 DEF TreeOf, Covers
  <2>3. Tree!Top \in Ups(V)
    BY DEF Ups
  <2>4. g[<<Tree!Top, "left">>] \in V \cup {Tree!NULL}
    BY <1>10, <2>3 DEF TreeOf, Typed
  <2> QED
    BY <2>1, <2>2, <2>4
<1>20. Walks(at[N][r], S[r])
  BY <1>11, <1>18, <1>19 DEF Right
<1> QED
  BY <1>1, <1>19, <1>20

-----------------------------------------------------------------------------
(* What bst_set and bst_del make of a tree.                                *)

\* Only the links at the tree's own places matter.
LEMMA TreeSame ==
  ASSUME NEW V, NEW g, NEW S, TreeOf(V, g, S), NEW f \in [Places \X Sides -> Ends],
         \A q \in Ups(V), r \in Sides : f[<<q, r>>] = g[<<q, r>>]
  PROVE  TreeOf(V, f, S)
<1>1. \A q \in V, r \in Sides : f[<<q, r>>] = g[<<q, r>>]
  BY DEF Ups
<1>2. \A r \in Sides : f[<<Tree!Top, r>>] = g[<<Tree!Top, r>>]
  BY DEF Ups
<1>3. Typed(V, f, S)
  BY DEF TreeOf, Typed
<1>4. Covers(V, f, S)
  BY <1>1, <1>2, AsideIs DEF TreeOf, Covers
<1>5. Sorted(V, f, S)
  BY <1>1 DEF TreeOf, Sorted
<1>6. Single(V, f)
  BY DEF TreeOf, Single
<1>7. Nested(V, f, S)
  BY DEF TreeOf, Nested
<1> QED
  BY <1>3, <1>4, <1>5, <1>6, <1>7 DEF TreeOf

\* A node outside the tree may be freed.
LEMMA FreeIs ==
  ASSUME NEW V, NEW h, NEW S, TreeIs(V, h, S), NEW t \in Tree!Nodes \ V
  PROVE  TreeIs(V, [h EXCEPT ![t] = Tree!Freed], S)
<1> DEFINE f == [h EXCEPT ![t] = Tree!Freed]
<1>1. Tree!Freed \in TreeCell
  BY DEF Tree!Freed, TreeCell, Strings, Ends
<1>2. h \in [Places -> TreeCell] /\ V \subseteq Tree!Nodes /\ t # Tree!Top
  BY TreeFacts, TreeTypes DEF TreeIs
<1>3. f \in [Places -> TreeCell]
  BY <1>1, <1>2
<1>4. \A q \in Ups(V) : q \in Places /\ f[q] = h[q]
  BY <1>2 DEF Ups, Places
<1> HIDE DEF f
<1>5. \A q \in Ups(V), r \in Sides : Pointers(f)[<<q, r>>] = Pointers(h)[<<q, r>>]
  <2> TAKE q \in Ups(V), r \in Sides
  <2>1. q \in Places /\ f[q] = h[q]
    BY <1>4
  <2>2. Pointers(f)[<<q, r>>] = f[q][r] /\ Pointers(h)[<<q, r>>] = h[q][r]
    BY <1>2, <1>3, <2>1, PointerIs
  <2> QED
    BY <2>1, <2>2
<1>6. TreeOf(V, Pointers(f), S)
  <2>1. Pointers(f) \in [Places \X Sides -> Ends] /\ TreeOf(V, Pointers(h), S)
    BY <1>3, PointerIs DEF TreeIs
  <2> QED
    BY <1>5, <2>1, TreeSame, Zenon
<1>7. \A n \in V : f[n].data = KeyOf[n]
  BY <1>4 DEF TreeIs, Ups
<1> QED
  BY <1>3, <1>6, <1>7 DEF TreeIs, f

\* bst_set: a new node at the link where it belongs.
LEMMA InsertIs ==
  ASSUME NEW V, NEW h, NEW S, TreeIs(V, h, S), NEW d \in TreeData, Tree!Home[d] \notin V,
         NEW p, NEW s, Fits(V, Pointers(h), S, p, s, Tree!Home[d]), Pointers(h)[<<p, s>>] = Tree!NULL
  PROVE  \E T : TreeIs(V \cup {Tree!Home[d]},
                       Tree!Store([h EXCEPT ![Tree!Home[d]] = [Tree!Freed EXCEPT !.data = d]],
                                  <<p, s>>, Tree!Home[d]), T)
<1> DEFINE x == Tree!Home[d]
           c == [Tree!Freed EXCEPT !.data = d]
           e == [h EXCEPT ![x] = c]
           k == Tree!Store(e, <<p, s>>, x)
           g == Pointers(h)
           f == Pointers(k)
<1>1. /\ h \in [Places -> TreeCell] /\ TreeOf(V, g, S) /\ V \subseteq Tree!Nodes
      /\ x \in Homes /\ x \in Tree!Nodes /\ x # Tree!Top /\ x \notin V /\ KeyOf[x] = d /\ d \in Strings
      /\ p \in Ups(V) /\ s \in Sides
  <2>1. h \in [Places -> TreeCell] /\ TreeOf(V, g, S)
    BY DEF TreeIs
  <2>2. V \subseteq Tree!Nodes
    BY <2>1, TreeFacts
  <2>3. x \in Homes /\ x \in Tree!Nodes /\ KeyOf[x] = d
    BY KeyIs
  <2>4. x # Tree!Top /\ d \in Strings
    BY <2>3, TreeTypes DEF Strings
  <2>5. p \in Ups(V) /\ s \in Sides
    BY DEF Fits
  <2> QED
    BY <2>1, <2>2, <2>3, <2>4, <2>5
<1>2. c = [data |-> d, left |-> Tree!NULL, right |-> Tree!NULL]
  BY DEF Tree!Freed
<1>3. c \in TreeCell /\ c.data = d /\ c.left = Tree!NULL /\ c.right = Tree!NULL
  BY <1>1, <1>2 DEF TreeCell, Ends
<1> HIDE DEF c, x
<1>4. e \in [Places -> TreeCell] /\ e[x] = c /\ \A q \in Ups(V) : q \in Places /\ q # x /\ e[q] = h[q]
  BY <1>1, <1>3 DEF Ups, Places
<1> HIDE DEF e
<1>5. x \in Places /\ x \in Ends
  BY <1>1 DEF Places, Ends
<1>6. /\ k \in [Places -> TreeCell]
      /\ f = [Pointers(e) EXCEPT ![<<p, s>>] = x]
      /\ \A n \in Places : k[n].data = e[n].data
  BY <1>1, <1>4, <1>5, StoreIs
<1>7. f \in [Places \X Sides -> Ends] /\ Pointers(e) \in [Places \X Sides -> Ends]
  BY <1>4, <1>6, PointerIs
<1> HIDE DEF k, f
<1>8. f[<<p, s>>] = x
  BY <1>1, <1>4, <1>6, <1>7
<1>9. \A q \in Places, r \in Sides : (q # p \/ r # s) => f[<<q, r>>] = e[q][r]
  <2> TAKE q \in Places, r \in Sides
  <2>1. q # p \/ r # s => f[<<q, r>>] = Pointers(e)[<<q, r>>]
    BY <1>6, <1>7
  <2>2. Pointers(e)[<<q, r>>] = e[q][r]
    BY <1>4, PointerIs
  <2> QED
    BY <2>1, <2>2
<1>10. Childless(f, x)
  BY <1>1, <1>3, <1>4, <1>5, <1>9 DEF Sides, Childless
<1>11. \A q \in Ups(V), r \in Sides : (q # p \/ r # s) => f[<<q, r>>] = g[<<q, r>>]
  <2> TAKE q \in Ups(V), r \in Sides
  <2>1. q \in Places /\ e[q] = h[q]
    BY <1>4
  <2>2. g[<<q, r>>] = h[q][r]
    BY <1>1, <2>1, PointerIs
  <2> QED
    BY <1>9, <2>1, <2>2
<1>12. IsTree(V \cup {x}, f)
  <2>1. Fits(V, g, S, p, s, x) /\ g[<<p, s>>] = Tree!NULL
    BY DEF x
  <2>2. Elsewhere(V, f, g, p, s)
    BY <1>11 DEF Elsewhere
  <2>3. x \in Homes \ V
    BY <1>1
  <2> HIDE DEF g
  <2> QED
    BY <1>1, <1>7, <1>8, <1>10, <2>1, <2>2, <2>3, TreeInsert
<1>13. \A n \in V \cup {x} : k[n].data = KeyOf[n]
  <2>1. \A n \in V : n \in Ups(V) /\ h[n].data = KeyOf[n]
    BY DEF TreeIs, Ups
  <2> QED
    BY <1>1, <1>3, <1>4, <1>5, <1>6, <2>1
<1>14. \E T : TreeIs(V \cup {x}, k, T)
  BY <1>6, <1>12, <1>13 DEF TreeIs, IsTree, f
<1> QED
  BY <1>14 DEF k, e, c, x

\* A link is set, and nothing else, which takes t out of the tree.
Unlinks(k, V, h, S, t, p, s, e) ==
  /\ TreeIs(V \ {t}, k, Without(S, t))
  /\ Pointers(k)[<<p, s>>] = e
  /\ Elsewhere(V, Pointers(k), Pointers(h), p, s)
  /\ \A n \in Places : k[n].data = h[n].data

\* bst_del of a node with one child at most: the link to it leads to that.
LEMMA UnlinkIs ==
  ASSUME NEW V, NEW h, NEW S, TreeIs(V, h, S), NEW t \in V,
         NEW p \in Ups(V), NEW s \in Sides, Pointers(h)[<<p, s>>] = t,
         NEW a \in Sides, NEW b \in Sides, a # b, Pointers(h)[<<t, a>>] = Tree!NULL
  PROVE  Unlinks(Tree!Store(h, <<p, s>>, Pointers(h)[<<t, b>>]), V, h, S, t, p, s, Pointers(h)[<<t, b>>])
<1> DEFINE g == Pointers(h)
           c == g[<<t, b>>]
           k == Tree!Store(h, <<p, s>>, c)
           f == Pointers(k)
<1>1. /\ h \in [Places -> TreeCell] /\ TreeOf(V, g, S) /\ V \subseteq Tree!Nodes
      /\ c \in Ends
  BY TreeFacts DEF TreeIs, Ends
<1>2. p \in Places
  BY <1>1 DEF Ups, Places
<1>3. g \in [Places \X Sides -> Ends]
  BY <1>1, PointerIs
<1> HIDE DEF c
<1>4. /\ k \in [Places -> TreeCell]
      /\ f = [g EXCEPT ![<<p, s>>] = c]
      /\ \A n \in Places : k[n].data = h[n].data
  BY <1>1, <1>2, StoreIs
<1>5. f \in [Places \X Sides -> Ends]
  BY <1>4, PointerIs
<1> HIDE DEF k, f, g
<1>6. f[<<p, s>>] = c
  BY <1>2, <1>3, <1>4
<1>7. \A q \in Ups(V), r \in Sides : (q # p \/ r # s) => f[<<q, r>>] = g[<<q, r>>]
  BY <1>1, <1>3, <1>4 DEF Ups, Places
<1>8. TreeOf(V \ {t}, f, Without(S, t))
  <2>1. g[<<p, s>>] = t /\ g[<<t, a>>] = Tree!NULL /\ f[<<p, s>>] = g[<<t, b>>]
    BY <1>6 DEF g, c
  <2>2. Elsewhere(V, f, g, p, s)
    BY <1>7 DEF Elsewhere
  <2> QED
    BY <1>1, <1>5, <2>1, <2>2, TreeUnlink, Zenon
<1>9. \A n \in V \ {t} : k[n].data = KeyOf[n]
  BY <1>1, <1>4 DEF TreeIs, Places
<1>10. TreeIs(V \ {t}, k, Without(S, t))
  BY <1>4, <1>8, <1>9 DEF TreeIs, f
<1>11. Elsewhere(V, f, g, p, s)
  BY <1>7 DEF Elsewhere
<1> QED
  BY <1>4, <1>6, <1>10, <1>11 DEF k, f, c, g, Unlinks

\* A node that takes over two links.
Moved(h, y, a, b) == [h EXCEPT ![y].left = a, ![y].right = b]

\* It has them, and nothing else changes.
Moves(k, h, y, a, b) ==
  /\ k \in [Places -> TreeCell]
  /\ k[y].data = h[y].data
  /\ Pointers(k)[<<y, "left">>] = a /\ Pointers(k)[<<y, "right">>] = b
  /\ \A q \in Places : q # y => k[q] = h[q]

\* Moved is such a change.
LEMMA MovedIs ==
  ASSUME NEW h \in [Places -> TreeCell], NEW y \in Tree!Nodes, NEW a \in Ends, NEW b \in Ends
  PROVE  Moves(Moved(h, y, a, b), h, y, a, b)
<1> DEFINE r == h[y]
           c == [data |-> r.data, left |-> a, right |-> b]
           k == [h EXCEPT ![y].left = a, ![y].right = b]
<1>1. y \in Places /\ r \in TreeCell /\ r = [data |-> r.data, left |-> r.left, right |-> r.right]
  BY DEF Places, TreeCell
<1>2. c \in TreeCell /\ c.data = r.data /\ c.left = a /\ c.right = b
  BY <1>1 DEF TreeCell
<1>3. k = [h EXCEPT ![y] = c]
  <2> DEFINE u == [r EXCEPT !.left = a]
             v == [h EXCEPT ![y] = u]
  <2>1. k = [v EXCEPT ![y] = [v[y] EXCEPT !.right = b]]
    OBVIOUS
  <2>2. u = [data |-> r.data, left |-> a, right |-> r.right]
    <3> HIDE DEF r
    <3> QED
      BY <1>1
  <2>3. [u EXCEPT !.right = b] = c
    <3> HIDE DEF r, u
    <3> QED
      BY <2>2 DEF c
  <2>4. v[y] = u
    BY <1>1
  <2>5. v \in [Places -> {u, r} \cup TreeCell]
    BY <1>1
  <2> HIDE DEF u, c, r
  <2>6. [v EXCEPT ![y] = c] = [h EXCEPT ![y] = c]
    BY <1>1, <2>5
  <2> HIDE DEF k, v
  <2> QED
    BY <2>1, <2>3, <2>4, <2>6
<1> HIDE DEF c, r, k
<1>4. k \in [Places -> TreeCell] /\ k[y] = c /\ \A q \in Places : q # y => k[q] = h[q]
  BY <1>1, <1>2, <1>3
<1>5. Pointers(k)[<<y, "left">>] = k[y].left /\ Pointers(k)[<<y, "right">>] = k[y].right
  BY <1>1, <1>4, PointerIs
<1> QED
  BY <1>2, <1>4, <1>5 DEF k, r, Moved, Moves

\* y comes after t, below it, and can take its place in what is left when y is unlinked.
Succeeds(V, g, S, t, q, y, f) ==
  /\ y \in V /\ y # t /\ q # y /\ y \in S[g[<<t, "right">>]] /\ t \notin S[y]
  /\ Replaces(V \ {y}, f, Without(S, y), t, y)

\* The successor can take the place of the node it succeeds, once it is unlinked.
LEMMA SuccessorReplaces ==
  ASSUME NEW V, NEW g, NEW S, TreeOf(V, g, S), NEW t \in V,
         NEW q \in Ups(V), NEW z \in Sides, <<q, z>> \in Leftwards(V, g, S, t),
         NEW y, y = g[<<q, z>>], g[<<y, "left">>] = Tree!NULL,
         NEW f, f[<<q, z>>] = g[<<y, "right">>], Elsewhere(V, f, g, q, z)
  PROVE  Succeeds(V, g, S, t, q, y, f)
<1> DEFINE c == g[<<t, "right">>]
           T == Without(S, y)
           U == V \ {y}
<1>1. /\ V \subseteq Homes /\ V \subseteq Tree!Nodes /\ Tree!NULL \notin V /\ Tree!Top \notin V
      /\ S[Tree!NULL] = {} /\ "left" \in Sides /\ "right" \in Sides /\ V \cup {Tree!NULL} \subseteq Ends
  BY TreeFacts DEF TreeOf, Typed, Sides, Ends
<1>2. /\ \A n \in V : n \in S[n] /\ S[n] \subseteq V
      /\ \A n \in V, r \in Sides : /\ g[<<n, r>>] \in V \cup {Tree!NULL}
                                   /\ S[g[<<n, r>>]] \subseteq S[n]
                                   /\ n \notin S[g[<<n, r>>]]
  BY TreeFacts
<1>3. /\ y \in V /\ y \in S[c]
      /\ (q = t /\ z = "right") \/ (q \in S[c] /\ z = "left")
      /\ \A m \in S[c] : m \in S[y] \/ <<y, m>> \in Before
  BY DEF Leftwards
<1>4. c \in V /\ t \notin S[c] /\ S[c] \subseteq S[t]
  BY <1>1, <1>2, <1>3
<1>5. \A n \in V, m \in V : m \in S[n] => S[m] \subseteq S[n]
  <2> TAKE n \in V, m \in V
  <2>1. \A l \in Tree!Nodes : l \in S[m] /\ m \in S[n] => l \in S[n]
    BY DEF TreeOf, Nested
  <2>2. S[m] \subseteq Tree!Nodes
    BY <1>1, <1>2
  <2> QED
    BY <2>1, <2>2
<1> HIDE DEF c
<1>6. S[y] \subseteq S[c] /\ y # t /\ t \notin S[y]
  BY <1>3, <1>4, <1>5
<1>7. q # y
  BY <1>2, <1>3
<1>8. \A e \in V \cup {Tree!NULL} : T[e] = S[e] \ {y}
  BY <1>1 DEF Without
<1> HIDE DEF T
<1>9. \A n \in V, r \in Sides : (n # q \/ r # z) => f[<<n, r>>] = g[<<n, r>>]
  BY DEF Elsewhere, Ups
<1>10. ASSUME NEW n \in U, NEW r \in Sides, t \in T[f[<<n, r>>]] PROVE Aside(y, n, r)
  <2>1. CASE n = q /\ r = z
    <3> DEFINE e == g[<<y, "right">>]
    <3>1. e \in V \cup {Tree!NULL} /\ S[e] \subseteq S[y]
      BY <1>1, <1>2, <1>3
    <3>2. t \in T[e]
      BY <1>10, <2>1
    <3> HIDE DEF e
    <3>3. t \in S[e]
      BY <1>8, <3>1, <3>2
    <3> QED
      BY <1>6, <3>1, <3>3
  <2>2. CASE n # q \/ r # z
    <3> DEFINE e == g[<<n, r>>]
    <3>1. e \in V \cup {Tree!NULL}
      BY <1>2
    <3>2. t \in T[e]
      BY <1>9, <1>10, <2>2
    <3> HIDE DEF e
    <3>3. e \in V /\ t \in S[e]
      BY <1>1, <1>8, <3>1, <3>2
    <3>4. y \in S[e]
      BY <1>3, <1>4, <1>5, <3>3
    <3> QED
      BY <1>1, <1>3, <3>4 DEF e, TreeOf, Sorted
  <2> QED
    BY <2>1, <2>2
<1>11. \A m \in Tree!Nodes : m \in S[g[<<y, "right">>]] => Aside(m, y, "right")
  BY <1>1, <1>3 DEF TreeOf, Sorted
<1>12. ASSUME NEW r \in Sides, NEW m \in Tree!Nodes, m \in T[f[<<t, r>>]] PROVE Aside(m, y, r)
  <2>1. CASE r = "left"
    <3> DEFINE e == g[<<t, "left">>]
    <3>1. f[<<t, r>>] = e
      BY <1>4, <1>9, <1>3, <2>1
    <3>2. e \in V \cup {Tree!NULL}
      BY <1>1, <1>2
    <3> HIDE DEF e
    <3>3. m \in S[e]
      BY <1>8, <1>12, <3>1, <3>2
    <3>4. Aside(m, t, "left")
      BY <1>1, <3>3 DEF e, TreeOf, Sorted
    <3>5. Aside(y, t, "right")
      BY <1>1, <1>3 DEF c, TreeOf, Sorted
    <3>6. <<m, t>> \in Before /\ <<t, y>> \in Before
      BY <3>4, <3>5 DEF Aside
    <3> QED
      BY <2>1, <3>6, OrderIs DEF Aside
  <2>2. CASE r = "right" /\ q = t
    <3> DEFINE e == g[<<y, "right">>]
    <3>1. f[<<t, r>>] = e
      BY <1>3, <1>4, <2>2
    <3>2. e \in V \cup {Tree!NULL}
      BY <1>1, <1>2, <1>3
    <3> HIDE DEF e
    <3>3. m \in S[e]
      BY <1>8, <1>12, <3>1, <3>2
    <3> QED
      BY <1>11, <2>2, <3>3 DEF e
  <2>3. CASE r = "right" /\ q # t
    <3>1. f[<<t, r>>] = c
      BY <1>9, <2>3 DEF c
    <3>2. m \in S[c] /\ m # y
      BY <1>4, <1>8, <1>12, <3>1
    <3>3. CASE <<y, m>> \in Before
      BY <2>3, <3>3 DEF Aside
    <3>4. CASE m \in S[y]
      <4>1. m \in S[g[<<y, "left">>]] \/ m \in S[g[<<y, "right">>]]
        BY <1>3, <3>2, <3>4 DEF TreeOf, Covers
      <4> QED
        BY <1>1, <1>11, <2>3, <4>1
    <3> QED
      BY <1>3, <3>2, <3>3, <3>4
  <2> QED
    BY <2>1, <2>2, <2>3 DEF Sides
<1>13. Replaces(U, f, T, t, y)
  BY <1>10, <1>12 DEF Replaces
<1> QED
  BY <1>3, <1>6, <1>7, <1>13 DEF T, c, Succeeds

\* bst_del of a node with two children: its successor is unlinked and takes its place.
LEMMA SpliceIs ==
  ASSUME NEW S, TreeIs(live, heap, S), NEW t \in live,
         NEW p \in Ups(live), NEW s \in Sides, Pointers(heap)[<<p, s>>] = t,
         Pointers(heap)[<<t, "right">>] # Tree!NULL
  PROVE  \E T : TreeIs(live \ {t}, Tree!Splice(<<p, s>>), T)
<1> DEFINE V == live
           g == Pointers(heap)
           u == Tree!Leftmost(<<t, "right">>)
           y == Tree!At(u)
           cut == Tree!Store(heap, u, heap[y].right)
           a == cut[t].left
           b == cut[t].right
           moved == Moved(cut, y, a, b)
           k == Tree!Store(moved, <<p, s>>, y)
           W == V \ {y}
           f == Pointers(cut)
           e == Pointers(moved)
           j == Pointers(k)
           S1 == Without(S, y)
<1>1. heap \in [Places -> TreeCell] /\ TreeOf(V, g, S) /\ V \subseteq Homes /\ V \subseteq Tree!Nodes
      /\ Tree!Top \notin V /\ Tree!NULL \notin V /\ "left" \in Sides /\ "right" \in Sides
      /\ g \in [Places \X Sides -> Ends]
  BY TreeFacts, PointerIs DEF TreeIs, TreeOf, Typed, Sides
<1>2. Tree!Splice(<<p, s>>) = k
  <2>1. p \in Places
    BY <1>1 DEF Ups, Places
  <2>2. Tree!At(<<p, s>>) = heap[p][s]
    BY DEF Tree!At
  <2>3. Tree!At(<<p, s>>) = t
    BY <1>1, <2>1, <2>2, PointerIs
  <2> QED
    BY <2>3 DEF Tree!Splice, Moved
<1>3. /\ u \in Leftwards(V, g, S, t)
      /\ y = g[u]
      /\ g[<<y, "left">>] = Tree!NULL
  BY LeftmostIs
<1> HIDE DEF u
<1>4. PICK q \in Ups(V), z \in Sides : u = <<q, z>>
  BY <1>3 DEF Leftwards, Links
<1>5. y \in V /\ q \in Places /\ y \in Places /\ t \in Places /\ p \in Places
  BY <1>1, <1>3, <1>4 DEF Leftwards, Ups, Places
<1>6. heap[y].right = g[<<y, "right">>]
  BY <1>1, <1>5, PointerIs
<1> HIDE DEF y, g, V
<1>7. /\ TreeIs(W, cut, S1) /\ f[<<q, z>>] = g[<<y, "right">>] /\ Elsewhere(V, f, g, q, z)
      /\ \A n \in Places : cut[n].data = heap[n].data
  <2>1. TreeIs(V, heap, S) /\ g[<<q, z>>] = y /\ "left" # "right" /\ g[<<y, "left">>] = Tree!NULL
    BY <1>3, <1>4 DEF V
  <2>2. cut = Tree!Store(heap, <<q, z>>, g[<<y, "right">>])
    BY <1>4, <1>6
  <2>3. y \in V /\ "left" \in Sides /\ "right" \in Sides
    BY <1>1, <1>5
  <2> HIDE DEF cut
  <2>4. Unlinks(cut, V, heap, S, y, q, z, g[<<y, "right">>])
    BY <2>1, <2>2, <2>3, UnlinkIs DEF g
  <2> QED
    BY <2>4 DEF Unlinks, g
<1> HIDE DEF cut, S1
<1>8. cut \in [Places -> TreeCell] /\ TreeOf(W, f, S1) /\ f \in [Places \X Sides -> Ends]
      /\ \A n \in W : cut[n].data = KeyOf[n]
  BY <1>7, PointerIs DEF TreeIs
<1> HIDE DEF f
<1>9. f[<<q, z>>] = g[<<y, "right">>] /\ Elsewhere(V, f, g, q, z)
  BY <1>7
<1>10. /\ y # t /\ q # y /\ t \notin S[y] /\ y \in S[g[<<t, "right">>]]
       /\ Replaces(W, f, S1, t, y)
  <2>1. t \in V /\ y = g[<<q, z>>] /\ <<q, z>> \in Leftwards(V, g, S, t)
    BY <1>3, <1>4 DEF V
  <2>2. TreeOf(V, g, S) /\ g[<<y, "left">>] = Tree!NULL
    BY <1>1, <1>3
  <2> HIDE DEF W, S1
  <2>3. Succeeds(V, g, S, t, q, y, f)
    BY <1>9, <2>1, <2>2, SuccessorReplaces
  <2> QED
    BY <2>3 DEF W, S1, Succeeds
<1>11. t \in W /\ y \in Homes \ W
  BY <1>1, <1>5, <1>10 DEF V
<1>12. p # y /\ p \in Ups(W)
  <2>1. g[<<p, s>>] = t
    BY DEF g
  <2>2. p \in Ups(V)
    BY DEF V
  <2>3. t \in S[t] /\ (p \in V => S[g[<<p, s>>]] \subseteq S[p])
    BY <1>1, <1>11, TreeFacts
  <2>4. p # y
    BY <1>5, <1>10, <2>1, <2>3
  <2> QED
    BY <2>2, <2>4 DEF Ups
<1>13. f[<<p, s>>] = t
  <2>1. g[<<p, s>>] = t /\ p \in Ups(V)
    BY DEF g, V
  <2>2. ~(p = q /\ s = z)
    BY <1>3, <1>4, <1>10, <2>1
  <2> QED
    BY <1>9, <2>1, <2>2 DEF Elsewhere
<1>14. a = f[<<t, "left">>] /\ b = f[<<t, "right">>] /\ a \in Ends /\ b \in Ends
  <2>1. a = f[<<t, "left">>] /\ b = f[<<t, "right">>]
    BY <1>5, <1>8, PointerIs DEF f
  <2> QED
    BY <1>1, <1>5, <1>8, <2>1
<1> HIDE DEF a, b
<1>15. /\ moved \in [Places -> TreeCell] /\ moved[y].data = cut[y].data
       /\ e[<<y, "left">>] = a /\ e[<<y, "right">>] = b
       /\ \A n \in Places : n # y => moved[n] = cut[n]
  <2>1. y \in Tree!Nodes
    BY <1>1, <1>5
  <2>2. Moves(Moved(cut, y, a, b), cut, y, a, b)
    BY <1>8, <1>14, <2>1, MovedIs
  <2> QED
    BY <2>2 DEF Moves
<1> HIDE DEF moved
<1>16. e \in [Places \X Sides -> Ends] /\ \A n \in Places, r \in Sides : n # y => e[<<n, r>>] = f[<<n, r>>]
  <2>1. e \in [Places \X Sides -> Ends]
    BY <1>15, PointerIs
  <2>2. ASSUME NEW n \in Places, NEW r \in Sides, n # y PROVE e[<<n, r>>] = f[<<n, r>>]
    <3>1. e[<<n, r>>] = moved[n][r]
      BY <1>15, PointerIs
    <3>2. f[<<n, r>>] = cut[n][r]
      BY <1>8, PointerIs DEF f
    <3> QED
      BY <1>15, <2>2, <3>1, <3>2
  <2> QED
    BY <2>1, <2>2
<1> HIDE DEF e
<1>17. /\ k \in [Places -> TreeCell]
       /\ j = [e EXCEPT ![<<p, s>>] = y]
       /\ \A n \in Places : k[n].data = moved[n].data
  <2>1. y \in Ends
    BY <1>1, <1>5 DEF Ends
  <2> QED
    BY <1>5, <1>15, <2>1, StoreIs DEF e
<1> HIDE DEF k
<1>18. j \in [Places \X Sides -> Ends]
  BY <1>17, PointerIs
<1> HIDE DEF j
<1>19. j[<<p, s>>] = y /\ \A n \in Places, r \in Sides : (n # p \/ r # s) => j[<<n, r>>] = e[<<n, r>>]
  BY <1>5, <1>16, <1>17
<1>20. TakesOver(j, y, f, t)
  BY <1>5, <1>12, <1>14, <1>15, <1>19 DEF Sides, TakesOver
<1>21. Elsewhere(W, j, f, p, s)
  <2>1. \A n \in Ups(W) : n \in Places /\ n # y
    BY <1>1, <1>5 DEF Ups, Places
  <2> QED
    BY <1>16, <1>19, <2>1 DEF Elsewhere
<1>22. IsTree((W \ {t}) \cup {y}, j)
  <2> HIDE DEF W
  <2>1. TreeOf(W, f, S1) /\ Replaces(W, f, S1, t, y) /\ p \in Ups(W) /\ j[<<p, s>>] = y
    BY <1>8, <1>10, <1>12, <1>19
  <2> QED
    BY <1>11, <1>13, <1>18, <1>20, <1>21, <2>1, TreeReplace
<1>23. (W \ {t}) \cup {y} = V \ {t}
  BY <1>5, <1>10
<1>24. \A n \in V \ {t} : k[n].data = KeyOf[n]
  <2>1. cut[y].data = heap[y].data
    BY <1>5, <1>7
  <2>2. heap[y].data = KeyOf[y]
    BY <1>5 DEF TreeIs, V
  <2>3. \A n \in V : n \in Places /\ (n # y => n \in W)
    BY <1>1 DEF Places
  <2> QED
    BY <1>5, <1>8, <1>15, <1>17, <2>1, <2>2, <2>3
<1>25. \E T : TreeIs(V \ {t}, k, T)
  BY <1>17, <1>22, <1>23, <1>24 DEF TreeIs, IsTree, j
<1> QED
  BY <1>2, <1>25 DEF V

-----------------------------------------------------------------------------
(* The calls of bst.c.                                                     *)

\* The nodes that are allocated are a tree, and len counts them.
TreeInv ==
  /\ made \in BOOLEAN
  /\ \E S : TreeIs(live, heap, S)
  /\ len = Cardinality(live)
  /\ ~made => live = {}

\* What nodes hold.
Stored(V) == {KeyOf[n] : n \in V}

\* What Bst and SortedSet name again.
LEMMA SameTreeCardinality ==
  \A X : Tree!Cardinality(X) = Cardinality(X) /\ Tree!Abstract!Cardinality(X) = Cardinality(X)
  BY DEF Tree!Cardinality, Tree!Abstract!Cardinality, Cardinality

\* The walk finds the nodes of the tree and shows what they hold.
LEMMA ShownIs ==
  ASSUME NEW V, NEW h, NEW S, TreeIs(V, h, S)
  PROVE  /\ {Tree!InOrder(h)[i] : i \in DOMAIN Tree!InOrder(h)} = V
         /\ {h[n].data : n \in {Tree!InOrder(h)[i] : i \in DOMAIN Tree!InOrder(h)}} = Stored(V)
<1>1. Walks(Tree!InOrder(h), V)
  BY InOrderIs
<1>2. Elements(Tree!InOrder(h)) = V
  BY <1>1 DEF Walks
<1>3. {Tree!InOrder(h)[i] : i \in DOMAIN Tree!InOrder(h)} = V
  BY <1>2 DEF Elements
<1>4. {h[n].data : n \in V} = Stored(V)
  BY DEF TreeIs, Stored
<1> QED
  BY <1>3, <1>4

\* The set SortedSet sees before a step.
LEMMA ItemsAre ==
  ASSUME TreeInv
  PROVE  Tree!Reached = live /\ {heap[n].data : n \in Tree!Reached} = Stored(live)
  BY ShownIs DEF TreeInv, Tree!Reached, Tree!Shown

\* The same of the state after a step.
LEMMA ItemsBecome ==
  ASSUME TreeInv'
  PROVE  Tree!Reached' = live' /\ {heap[n].data : n \in Tree!Reached}' = Stored(live')
<1>1. PICK S : TreeIs(live', heap', S)
  BY DEF TreeInv
<1>2. Tree!Reached' = {Tree!InOrder(heap')[i] : i \in DOMAIN Tree!InOrder(heap')}
  BY DEF Tree!Reached, Tree!Shown
<1> QED
  BY <1>1, <1>2, ShownIs

\* What is stored, and where.
LEMMA StoredIs ==
  ASSUME TreeInv
  PROVE  /\ live \subseteq Homes
         /\ \A d \in TreeData : d \in Stored(live) <=> Tree!Home[d] \in live
<1>1. live \subseteq Homes
  BY DEF TreeInv, TreeIs, TreeOf, Typed
<1> QED
  BY <1>1, KeyIs DEF Stored

\* No tree, no node.
LEMMA TreeInit == Tree!Init => TreeInv /\ Tree!Abstract!Init
<1> SUFFICES ASSUME Tree!Init PROVE TreeInv /\ Tree!Abstract!Init
  OBVIOUS
<1>1. /\ made = FALSE /\ len = 0 /\ live = {} /\ ret = <<"NONE">>
      /\ heap = [n \in Places |-> Tree!Freed]
  BY DEF Tree!Init, Places
<1>2. heap \in [Places -> TreeCell]
  BY <1>1 DEF Tree!Freed, TreeCell, Strings, Ends
<1>3. IsTree({}, Pointers(heap))
  <2>1. /\ Pointers(heap) \in [Places \X Sides -> Ends]
        /\ Pointers(heap)[<<Tree!Top, "left">>] = heap[Tree!Top].left
        /\ Pointers(heap)[<<Tree!Top, "right">>] = heap[Tree!Top].right
    BY <1>2, PointerIs DEF Places
  <2>2. heap[Tree!Top].left = Tree!NULL /\ heap[Tree!Top].right = Tree!NULL
    BY <1>1 DEF Places, Tree!Freed
  <2> QED
    BY <2>1, <2>2, TreeEmpty
<1>4. TreeInv
  BY <1>1, <1>2, <1>3, FS_EmptySet DEF TreeInv, TreeIs, IsTree
<1>5. {heap[n].data : n \in Tree!Reached} = {}
  BY <1>1, <1>4, ItemsAre DEF Stored
<1> QED
  BY <1>1, <1>4, <1>5 DEF Tree!Abstract!Init

\* A call that leaves the tree as it is.
LEMMA SameTree ==
  ASSUME TreeInv, UNCHANGED <<len, live, heap>>, made' \in BOOLEAN, ~made' => ~made
  PROVE  TreeInv' /\ {heap[n].data : n \in Tree!Reached}' = {heap[n].data : n \in Tree!Reached}
<1>1. TreeInv'
  BY DEF TreeInv
<1> QED
  BY <1>1, ItemsAre, ItemsBecome

\* bst_create
LEMMA TreeCreateStep ==
  ASSUME TreeInv, Tree!Create
  PROVE  TreeInv' /\ Tree!Abstract!Create
<1>1. /\ ~made /\ UNCHANGED <<len, live, heap>>
      /\ \/ made' = TRUE /\ ret' = <<"SUCCESS">>
         \/ made' = FALSE /\ ret' = <<"NULL">>
  BY DEF Tree!Create
<1>2. TreeInv' /\ {heap[n].data : n \in Tree!Reached}' = {heap[n].data : n \in Tree!Reached}
  BY <1>1, SameTree
<1> QED
  BY <1>1, <1>2 DEF Tree!Abstract!Create

\* bst_destroy
LEMMA TreeDestroyStep ==
  ASSUME TreeInv, Tree!Destroy
  PROVE  TreeInv' /\ Tree!Abstract!Destroy
<1>1. /\ made /\ made' = FALSE /\ len' = 0 /\ ret' = <<"SUCCESS">>
      /\ live' = live \ Tree!Reached
      /\ heap' = [n \in DOMAIN heap |-> IF n \in Tree!Reached \cup {Tree!Top} THEN Tree!Freed ELSE heap[n]]
  BY DEF Tree!Destroy
<1>2. live' = {}
  BY <1>1, ItemsAre
<1>3. heap \in [Places -> TreeCell] /\ Tree!Freed \in TreeCell
  BY DEF TreeInv, TreeIs, Tree!Freed, TreeCell, Strings, Ends
<1>4. heap' \in [Places -> TreeCell] /\ heap'[Tree!Top] = Tree!Freed
  BY <1>1, <1>3 DEF Places
<1>5. IsTree({}, Pointers(heap'))
  <2>1. /\ Pointers(heap') \in [Places \X Sides -> Ends]
        /\ Pointers(heap')[<<Tree!Top, "left">>] = heap'[Tree!Top].left
        /\ Pointers(heap')[<<Tree!Top, "right">>] = heap'[Tree!Top].right
    BY <1>4, PointerIs DEF Places
  <2>2. heap'[Tree!Top].left = Tree!NULL /\ heap'[Tree!Top].right = Tree!NULL
    BY <1>4 DEF Tree!Freed
  <2> QED
    BY <2>1, <2>2, TreeEmpty
<1>6. \E S : TreeIs(live', heap', S)
  BY <1>2, <1>4, <1>5 DEF TreeIs, IsTree
<1>7. TreeInv'
  BY <1>1, <1>2, <1>6, FS_EmptySet DEF TreeInv
<1>8. {heap[n].data : n \in Tree!Reached}' = {}
  BY <1>2, <1>7, ItemsBecome DEF Stored
<1> QED
  BY <1>1, <1>7, <1>8 DEF Tree!Abstract!Destroy

\* The link get_link finds, at which bst_get, bst_set and bst_del decide.
LEMMA LinkIs ==
  ASSUME TreeInv, NEW d \in TreeData
  PROVE  /\ Tree!At(Tree!GetLink(d)) = Tree!NULL <=> d \notin Stored(live)
         /\ d \in Stored(live) => /\ Tree!At(Tree!GetLink(d)) = Tree!Home[d]
                                  /\ heap[Tree!Home[d]].data = d
<1>1. PICK S : TreeIs(live, heap, S)
  BY DEF TreeInv
<1> DEFINE x == Tree!Home[d]
           a == Tree!At(Tree!GetLink(d))
           g == Pointers(heap)[Tree!GetLink(d)]
<1>2. a = g /\ (x \in live => g = x) /\ (x \notin live => g = Tree!NULL)
  BY <1>1, GetLinkIs
<1>3. d \in Stored(live) <=> x \in live
  BY StoredIs
<1>4. x \in live => heap[x].data = KeyOf[x]
  BY <1>1 DEF TreeIs
<1>5. KeyOf[x] = d /\ x \in Tree!Nodes /\ Tree!NULL \notin Tree!Nodes
  BY KeyIs, TreeTypes
<1> HIDE DEF x, a, g
<1> QED
  BY <1>2, <1>3, <1>4, <1>5 DEF a, x

\* bst_get
LEMMA TreeGetStep ==
  ASSUME TreeInv, NEW d \in TreeData, Tree!Get(d)
  PROVE  TreeInv' /\ Tree!Abstract!Get(d)
<1> DEFINE a == Tree!At(Tree!GetLink(d))
<1>1. /\ made /\ UNCHANGED <<made, len, live, heap>>
      /\ ret' = IF a = Tree!NULL THEN <<"NULL", d>> ELSE <<"FOUND", d, heap[a].data>>
  BY DEF Tree!Get
<1>2. TreeInv' /\ {heap[n].data : n \in Tree!Reached}' = {heap[n].data : n \in Tree!Reached}
  BY <1>1, SameTree DEF TreeInv
<1>3. (a = Tree!NULL <=> d \notin Stored(live)) /\ (d \in Stored(live) => heap[a].data = d)
  BY LinkIs
<1>4. ret' = IF d \in Stored(live) THEN <<"FOUND", d, d>> ELSE <<"NULL", d>>
  <2> HIDE DEF a
  <2> QED
    BY <1>1, <1>3
<1>5. {heap[n].data : n \in Tree!Reached} = Stored(live)
  BY ItemsAre
<1> QED
  BY <1>1, <1>2, <1>4, <1>5 DEF Tree!Abstract!Get

\* bst_set
LEMMA TreeSetStep ==
  ASSUME TreeInv, NEW d \in TreeData, Tree!Set(d)
  PROVE  TreeInv' /\ Tree!Abstract!Set(d)
<1> DEFINE l == Tree!GetLink(d)
           x == Tree!Home[d]
<1>1. made /\ UNCHANGED made
  BY DEF Tree!Set
<1>2. (Tree!At(l) = Tree!NULL <=> d \notin Stored(live))
  BY LinkIs
<1>3. {heap[n].data : n \in Tree!Reached} = Stored(live)
  BY ItemsAre
<1>4. CASE Tree!At(l) # Tree!NULL /\ ret' = <<"EXISTS", d>> /\ UNCHANGED <<len, live, heap>>
  <2>1. TreeInv' /\ {heap[n].data : n \in Tree!Reached}' = {heap[n].data : n \in Tree!Reached}
    BY <1>1, <1>4, SameTree DEF TreeInv
  <2> QED
    BY <1>1, <1>2, <1>3, <1>4, <2>1 DEF Tree!Abstract!Set
<1>5. CASE Tree!At(l) = Tree!NULL /\ ret' = <<"ALLOC_FAILURE", d>> /\ UNCHANGED <<len, live, heap>>
  <2>1. TreeInv' /\ {heap[n].data : n \in Tree!Reached}' = {heap[n].data : n \in Tree!Reached}
    BY <1>1, <1>5, SameTree DEF TreeInv
  <2> QED
    BY <1>1, <1>2, <1>3, <1>5, <2>1 DEF Tree!Abstract!Set
<1>6. CASE /\ Tree!At(l) = Tree!NULL
           /\ heap' = Tree!Store([heap EXCEPT ![x] = [Tree!Freed EXCEPT !.data = d]], l, x)
           /\ live' = live \cup {x}
           /\ len' = len + 1
           /\ ret' = <<"SUCCESS", d>>
  <2>1. PICK S : TreeIs(live, heap, S)
    BY DEF TreeInv
  <2>2. d \notin Stored(live) /\ x \notin live
    BY <1>2, <1>6, StoredIs
  <2>3. l \in Links(live) /\ Fits(live, Pointers(heap), S, l[1], l[2], x) /\ Pointers(heap)[l] = Tree!NULL
    BY <2>1, <2>2, GetLinkIs
  <2> HIDE DEF l
  <2>4. PICK p \in Ups(live), s \in Sides : l = <<p, s>>
    BY <2>3 DEF Links
  <2>5. Fits(live, Pointers(heap), S, p, s, x) /\ Pointers(heap)[<<p, s>>] = Tree!NULL
    BY <2>3, <2>4
  <2>6. \E T : TreeIs(live', heap', T)
    <3>1. \E T : TreeIs(live \cup {x}, Tree!Store([heap EXCEPT ![x] = [Tree!Freed EXCEPT !.data = d]], <<p, s>>, x), T)
      BY <2>1, <2>2, <2>5, InsertIs
    <3>2. /\ live' = live \cup {x}
          /\ heap' = Tree!Store([heap EXCEPT ![x] = [Tree!Freed EXCEPT !.data = d]], <<p, s>>, x)
      BY <1>6, <2>4
    <3> QED
      BY <3>1, <3>2
  <2>7. IsFiniteSet(live) /\ Cardinality(live) \in Nat
    <3>1. Walks(Tree!InOrder(heap), live)
      BY <2>1, InOrderIs
    <3> QED
      BY <3>1, WalksAll, FS_CardinalityType
  <2>8. len' = Cardinality(live')
    BY <1>6, <2>2, <2>7, FS_AddElement DEF TreeInv
  <2>9. TreeInv'
    BY <1>1, <2>6, <2>8 DEF TreeInv
  <2>10. Stored(live') = Stored(live) \cup {d}
    BY <1>6, KeyIs DEF Stored
  <2>11. {heap[n].data : n \in Tree!Reached}' = Stored(live) \cup {d}
    BY <2>9, <2>10, ItemsBecome
  <2>12. ret' = <<"SUCCESS", d>>
    BY <1>6
  <2> QED
    BY <1>1, <1>3, <2>2, <2>9, <2>11, <2>12 DEF Tree!Abstract!Set
<1> QED
  BY <1>4, <1>5, <1>6 DEF Tree!Set

\* The links after bst_del unlinked a node, which is then freed.
LEMMA UnlinkedIs ==
  ASSUME NEW S, TreeIs(live, heap, S), NEW p \in Ups(live), NEW s \in Sides,
         NEW t \in live, Pointers(heap)[<<p, s>>] = t
  PROVE  \E T : TreeIs(live \ {t}, [Tree!Unlinked(<<p, s>>) EXCEPT ![t] = Tree!Freed], T)
<1> DEFINE g == Pointers(heap)
           a == heap[t].left
           b == heap[t].right
           k == Tree!Unlinked(<<p, s>>)
<1>1. heap \in [Places -> TreeCell] /\ live \subseteq Tree!Nodes
      /\ "left" \in Sides /\ "right" \in Sides /\ "left" # "right"
  BY TreeFacts DEF TreeIs, Sides
<1>2. t \in Places /\ p \in Places
  BY <1>1 DEF Ups, Places
<1>3. a = g[<<t, "left">>] /\ b = g[<<t, "right">>] /\ Tree!At(<<p, s>>) = t
  <2>1. Tree!At(<<p, s>>) = heap[p][s]
    BY DEF Tree!At
  <2> QED
    BY <1>1, <1>2, <2>1, PointerIs
<1>4. k = IF a # Tree!NULL /\ b # Tree!NULL THEN Tree!Splice(<<p, s>>)
          ELSE Tree!Store(heap, <<p, s>>, IF a # Tree!NULL THEN a ELSE b)
  BY <1>3 DEF Tree!Unlinked
<1> HIDE DEF a, b, k
<1>5. CASE a # Tree!NULL /\ b # Tree!NULL
  <2>1. \E T : TreeIs(live \ {t}, Tree!Splice(<<p, s>>), T)
    BY <1>3, <1>5, SpliceIs
  <2> QED
    BY <1>1, <1>4, <1>5, <2>1, FreeIs DEF k
<1>6. CASE b = Tree!NULL
  <2>1. Unlinks(Tree!Store(heap, <<p, s>>, g[<<t, "left">>]), live, heap, S, t, p, s, g[<<t, "left">>])
    BY <1>1, <1>3, <1>6, UnlinkIs
  <2>2. k = Tree!Store(heap, <<p, s>>, g[<<t, "left">>])
    BY <1>3, <1>4, <1>6
  <2>3. TreeIs(live \ {t}, k, Without(S, t))
    BY <2>1, <2>2 DEF Unlinks
  <2> QED
    BY <1>1, <2>3, FreeIs DEF k
<1>7. CASE a = Tree!NULL
  <2>1. Unlinks(Tree!Store(heap, <<p, s>>, g[<<t, "right">>]), live, heap, S, t, p, s, g[<<t, "right">>])
    BY <1>1, <1>3, <1>7, UnlinkIs
  <2>2. k = Tree!Store(heap, <<p, s>>, g[<<t, "right">>])
    BY <1>3, <1>4, <1>7
  <2>3. TreeIs(live \ {t}, k, Without(S, t))
    BY <2>1, <2>2 DEF Unlinks
  <2> QED
    BY <1>1, <2>3, FreeIs DEF k
<1> QED
  BY <1>5, <1>6, <1>7

\* bst_del
LEMMA TreeDelStep ==
  ASSUME TreeInv, NEW d \in TreeData, Tree!Del(d)
  PROVE  TreeInv' /\ Tree!Abstract!Del(d)
<1> DEFINE l == Tree!GetLink(d)
           x == Tree!Home[d]
<1>1. made /\ UNCHANGED made
  BY DEF Tree!Del
<1>2. /\ Tree!At(l) = Tree!NULL <=> d \notin Stored(live)
      /\ d \in Stored(live) => Tree!At(l) = x
  BY LinkIs
<1>3. {heap[n].data : n \in Tree!Reached} = Stored(live)
  BY ItemsAre
<1>4. CASE Tree!At(l) = Tree!NULL /\ ret' = <<"NOT_EXISTS", d>> /\ UNCHANGED <<len, live, heap>>
  <2>1. TreeInv' /\ {heap[n].data : n \in Tree!Reached}' = {heap[n].data : n \in Tree!Reached}
    BY <1>1, <1>4, SameTree DEF TreeInv
  <2>2. d \notin Stored(live)
    BY <1>2, <1>4
  <2>3. Stored(live) \ {d} = Stored(live)
    BY <2>2
  <2> QED
    BY <1>1, <1>3, <1>4, <2>1, <2>2, <2>3 DEF Tree!Abstract!Del
<1>5. CASE /\ Tree!At(l) # Tree!NULL
           /\ heap' = [Tree!Unlinked(l) EXCEPT ![Tree!At(l)] = Tree!Freed]
           /\ live' = live \ {Tree!At(l)}
           /\ len' = len - 1
           /\ ret' = <<"SUCCESS", d>>
  <2>1. PICK S : TreeIs(live, heap, S)
    BY DEF TreeInv
  <2>2. d \in Stored(live) /\ x \in live /\ Tree!At(l) = x
    BY <1>2, <1>5, StoredIs
  <2>3. l \in Links(live) /\ Pointers(heap)[l] = x
    BY <2>1, <2>2, GetLinkIs
  <2> HIDE DEF l
  <2>4. PICK p \in Ups(live), s \in Sides : l = <<p, s>>
    BY <2>3 DEF Links
  <2>6. \E T : TreeIs(live', heap', T)
    <3>1. \E T : TreeIs(live \ {x}, [Tree!Unlinked(<<p, s>>) EXCEPT ![x] = Tree!Freed], T)
      BY <2>1, <2>2, <2>3, <2>4, UnlinkedIs
    <3>2. /\ live' = live \ {x}
          /\ heap' = [Tree!Unlinked(<<p, s>>) EXCEPT ![x] = Tree!Freed]
      BY <1>5, <2>2, <2>4
    <3> QED
      BY <3>1, <3>2
  <2>7. IsFiniteSet(live) /\ Cardinality(live) \in Nat
    <3>1. Walks(Tree!InOrder(heap), live)
      BY <2>1, InOrderIs
    <3> QED
      BY <3>1, WalksAll, FS_CardinalityType
  <2>8. len' = Cardinality(live')
    <3>1. len' = len - 1 /\ live' = live \ {x} /\ len = Cardinality(live)
      BY <1>5, <2>2 DEF TreeInv
    <3> HIDE DEF x
    <3>2. Cardinality(live \ {x}) = Cardinality(live) - 1
      BY <2>2, <2>7, FS_RemoveElement
    <3> QED
      BY <3>1, <3>2
  <2>9. TreeInv'
    BY <1>1, <2>6, <2>8 DEF TreeInv
  <2>10. Stored(live') = Stored(live) \ {d}
    <3>1. live' = live \ {x} /\ live \subseteq Homes
      BY <1>5, <2>2, StoredIs
    <3>2. \A n \in Homes : KeyOf[n] = d <=> n = x
      BY KeyIs
    <3> HIDE DEF x
    <3> QED
      BY <3>1, <3>2 DEF Stored
  <2>11. {heap[n].data : n \in Tree!Reached}' = Stored(live) \ {d}
    BY <2>9, <2>10, ItemsBecome
  <2>12. ret' = <<"SUCCESS", d>>
    BY <1>5
  <2> QED
    BY <1>1, <1>3, <2>2, <2>9, <2>11, <2>12 DEF Tree!Abstract!Del
<1> QED
  BY <1>4, <1>5 DEF Tree!Del

\* SortedSet's comparison is that of Bytes.
LEMMA SameSetCompare == \A a, b : Tree!Abstract!Compare(a, b) = Compare(a, b)
  BY DEF Tree!Abstract!Compare, Tree!Abstract!Memcmp, Tree!Abstract!Umin, Compare, Memcmp, Umin

\* What the first j nodes of a walk hold.
FirstOf(q, j) == {KeyOf[q[i]] : i \in 1..j}

\* They hold as many data.
LEMMA FirstCount ==
  ASSUME NEW V, NEW q, Walks(q, V), V \subseteq Homes, NEW j \in 0..Len(q)
  PROVE  Cardinality(FirstOf(q, j)) = j
<1> DEFINE K == FirstOf(q, j)
           f == [i \in 1..j |-> KeyOf[q[i]]]
<1>1. Len(q) \in Nat /\ DOMAIN q = 1..Len(q) /\ Distinct(q) /\ Elements(q) = V
  BY WalksAll DEF Walks
<1>2. \A i \in 1..j : i \in DOMAIN q /\ q[i] \in Homes
  BY <1>1 DEF Elements
<1>3. \A i, k \in 1..j : KeyOf[q[i]] = KeyOf[q[k]] => i = k
  <2> TAKE i, k \in 1..j
  <2>1. KeyOf[q[i]] = KeyOf[q[k]] => q[i] = q[k]
    BY <1>2, KeyIs
  <2> QED
    BY <1>1, <1>2, <2>1 DEF Distinct
<1>4. f \in Bijection(1..j, K)
  BY <1>3 DEF Bijection, Injection, Surjection, IsInjective, FirstOf
<1>5. ExistsBijection(1..j, K)
  BY <1>4 DEF ExistsBijection
<1>6. IsFiniteSet(1..j) /\ Cardinality(1..j) = j
  BY <1>1, FS_Interval
<1> QED
  BY <1>5, <1>6, FS_Bijection

\* The datum of X that SortedSet shows at place i.
Ranked(X, i) ==
  CHOOSE d \in X : Tree!Abstract!Cardinality({e \in X : Tree!Abstract!Less(e, d)}) = i - 1

\* It is in the i-th node of the walk: as many data are less as come before it.
LEMMA AscendingIs ==
  ASSUME NEW V, NEW q, Walks(q, V), V \subseteq Homes, NEW i \in 1..Len(q)
  PROVE  Ranked(Stored(V), i) = KeyOf[q[i]]
<1> DEFINE X == Stored(V)
           C(d) == Tree!Abstract!Cardinality({e \in X : Tree!Abstract!Less(e, d)})
<1>1. Len(q) \in Nat /\ DOMAIN q = 1..Len(q) /\ Elements(q) = V
  BY WalksAll DEF Walks
<1>2. \A j \in 1..Len(q) : q[j] \in V /\ q[j] \in Homes
  BY <1>1 DEF Elements
<1>3. \A n \in V : \E j \in 1..Len(q) : n = q[j]
  BY <1>1 DEF Elements
<1>4. X = {KeyOf[q[j]] : j \in 1..Len(q)}
  BY <1>2, <1>3 DEF Stored
<1>5. ASSUME NEW j \in 1..Len(q), NEW k \in 1..Len(q)
      PROVE  Tree!Abstract!Less(KeyOf[q[k]], KeyOf[q[j]]) <=> k < j
  <2>1. Tree!Abstract!Less(KeyOf[q[k]], KeyOf[q[j]]) <=> <<q[k], q[j]>> \in Before
    BY <1>2, BeforeIs, SameSetCompare DEF Tree!Abstract!Less
  <2>2. k < j => <<q[k], q[j]>> \in Before
    BY <1>1 DEF Walks
  <2>3. j < k => <<q[j], q[k]>> \in Before
    BY <1>1 DEF Walks
  <2>4. k = j => <<q[k], q[j]>> \notin Before
    BY OrderIs
  <2> QED
    BY <1>1, <2>1, <2>2, <2>3, <2>4, OrderIs
<1>6. ASSUME NEW j \in 1..Len(q) PROVE C(KeyOf[q[j]]) = j - 1
  <2>1. {e \in X : Tree!Abstract!Less(e, KeyOf[q[j]])} = FirstOf(q, j - 1)
    <3>1. \A k \in 1..(j - 1) : k \in 1..Len(q) /\ k < j
      BY <1>1
    <3>2. \A k \in 1..Len(q) : k < j => k \in 1..(j - 1)
      BY <1>1
    <3> QED
      BY <1>4, <1>5, <3>1, <3>2 DEF FirstOf
  <2>2. j - 1 \in 0..Len(q)
    BY <1>1
  <2>3. Cardinality(FirstOf(q, j - 1)) = j - 1
    BY <2>2, FirstCount
  <2> QED
    BY <2>1, <2>3, SameTreeCardinality
<1> HIDE DEF C
<1>7. KeyOf[q[i]] \in X /\ C(KeyOf[q[i]]) = i - 1
  BY <1>4, <1>6
<1>8. \A d \in X : C(d) = i - 1 => d = KeyOf[q[i]]
  BY <1>1, <1>4, <1>6
<1> HIDE DEF X
<1>9. (CHOOSE d \in X : C(d) = i - 1) = KeyOf[q[i]]
  BY <1>7, <1>8
<1> QED
  BY <1>9 DEF C, X, Ranked

\* bst_foreach
LEMMA TreeForeachStep ==
  ASSUME TreeInv, Tree!Foreach
  PROVE  TreeInv' /\ Tree!Abstract!Walk
<1> DEFINE q == Tree!Shown
           X == {heap[n].data : n \in Tree!Reached}
<1>1. /\ made /\ UNCHANGED <<made, len, live, heap>>
      /\ \E k \in 0..Len(q) : ret' = <<"SHOWN", [i \in 1..k |-> heap[q[i]].data]>>
  BY DEF Tree!Foreach
<1>2. TreeInv' /\ {heap[n].data : n \in Tree!Reached}' = X
  BY <1>1, SameTree DEF TreeInv
<1>3. X = Stored(live)
  BY ItemsAre
<1>4. PICK S : TreeIs(live, heap, S)
  BY DEF TreeInv
<1>5. Walks(q, live) /\ live \subseteq Homes
  BY <1>4, InOrderIs, StoredIs DEF Tree!Shown
<1> HIDE DEF q, X
<1>6. Len(q) \in Nat /\ DOMAIN q = 1..Len(q) /\ Elements(q) = live
  BY <1>5, WalksAll DEF Walks
<1>7. \A i \in 1..Len(q) : q[i] \in live /\ heap[q[i]].data = KeyOf[q[i]]
  BY <1>4, <1>6 DEF TreeIs, Elements
<1>8. Tree!Abstract!Cardinality(X) = Len(q)
  <2>1. Len(q) \in 0..Len(q)
    BY <1>6
  <2>2. Cardinality(FirstOf(q, Len(q))) = Len(q)
    BY <1>5, <2>1, FirstCount
  <2>3. Stored(live) = FirstOf(q, Len(q))
    BY <1>6 DEF Stored, Elements, FirstOf
  <2> QED
    BY <1>3, <2>2, <2>3, SameTreeCardinality
<1> DEFINE A == [i \in 1..Tree!Abstract!Cardinality(X) |-> Ranked(X, i)]
<1>9. Tree!Abstract!Ascending = A
  BY DEF Tree!Abstract!Ascending, X, Ranked
<1>10. DOMAIN A = 1..Len(q) /\ \A i \in 1..Len(q) : A[i] = KeyOf[q[i]]
  BY <1>3, <1>5, <1>8, AscendingIs
<1> HIDE DEF A
<1>11. PICK k \in 0..Len(q) : ret' = <<"SHOWN", [i \in 1..k |-> heap[q[i]].data]>>
  BY <1>1
<1>12. SubSeq(A, 1, k) = [i \in 1..k |-> heap[q[i]].data]
  <2>1. SubSeq(A, 1, k) = [i \in 1..(k - 1 + 1) |-> A[i + 1 - 1]]
    OBVIOUS
  <2>2. k - 1 + 1 = k /\ \A i \in 1..k : i + 1 - 1 = i /\ i \in 1..Len(q)
    BY <1>6
  <2> QED
    BY <1>7, <1>10, <2>1, <2>2
<1>13. \E m \in 0..Tree!Abstract!Cardinality(X) : ret' = <<"SHOWN", SubSeq(Tree!Abstract!Ascending, 1, m)>>
  BY <1>8, <1>9, <1>11, <1>12
<1> QED
  BY <1>1, <1>2, <1>13 DEF Tree!Abstract!Walk, X

\* Every call keeps the tree whole and is one of SortedSet's.
LEMMA TreeNext ==
  ASSUME TreeInv, Tree!Next
  PROVE  TreeInv' /\ Tree!Abstract!Next
<1>1. CASE Tree!Create
  BY <1>1, TreeCreateStep DEF Tree!Abstract!Next
<1>2. CASE Tree!Destroy
  BY <1>2, TreeDestroyStep DEF Tree!Abstract!Next
<1>3. CASE Tree!Foreach
  BY <1>3, TreeForeachStep DEF Tree!Abstract!Next
<1>4. ASSUME NEW d \in TreeData, Tree!Get(d) PROVE TreeInv' /\ Tree!Abstract!Next
  BY <1>4, TreeGetStep DEF Tree!Abstract!Next
<1>5. ASSUME NEW d \in TreeData, Tree!Set(d) PROVE TreeInv' /\ Tree!Abstract!Next
  BY <1>5, TreeSetStep DEF Tree!Abstract!Next
<1>6. ASSUME NEW d \in TreeData, Tree!Del(d) PROVE TreeInv' /\ Tree!Abstract!Next
  BY <1>6, TreeDelStep DEF Tree!Abstract!Next
<1> QED
  BY <1>1, <1>2, <1>3, <1>4, <1>5, <1>6 DEF Tree!Next

\* The tree is whole: the walk finds each allocated node once.
LEMMA TreeIsWhole == TreeInv => Tree!Whole
<1> SUFFICES ASSUME TreeInv PROVE Tree!Whole
  OBVIOUS
<1>1. PICK S : TreeIs(live, heap, S)
  BY DEF TreeInv
<1>2. Walks(Tree!Shown, live)
  BY <1>1, InOrderIs DEF Tree!Shown
<1>3. Cardinality(live) = Len(Tree!Shown)
  BY <1>2, WalksAll
<1> QED
  BY <1>3, ItemsAre, SameTreeCardinality DEF TreeInv, Tree!Whole

\* A behaviour that is about the tree is one of the tree.
LEMMA TreeStep ==
  ASSUME which = "tree" => TreeInv, [Next]_<<which, box, wire>>
  PROVE  /\ which' = "tree" => TreeInv'
         /\ [which = "tree" => Tree!Abstract!Next]_<<which, Tree!Abstract!vars>>
<1>1. which' = which
  BY DEF Next
<1>2. CASE which # "tree"
  BY <1>1, <1>2
<1>3. CASE which = "tree" /\ Tree!Next
  BY <1>3, TreeNext
<1>4. CASE which = "tree" /\ UNCHANGED <<which, box, wire>>
  <2>1. UNCHANGED <<made, len, ret, live, heap>>
    BY <1>4 DEF box
  <2>2. TreeInv' /\ {heap[n].data : n \in Tree!Reached}' = {heap[n].data : n \in Tree!Reached}
    <3>1. TreeInv
      BY <1>4
    <3> QED
      BY <2>1, <3>1, SameTree DEF TreeInv
  <2>3. Tree!Abstract!vars' = Tree!Abstract!vars
    BY <2>1, <2>2 DEF Tree!Abstract!vars
  <2> QED
    BY <1>4, <2>2, <2>3
<1> QED
  BY <1>1, <1>2, <1>3, <1>4 DEF Next

\* bst.c implements SortedSet, for any byte strings and any number of nodes: each call
\* returns what the set says, one that is refused or runs out of memory changes nothing,
\* and a walk shows what is in the set in ascending order.
THEOREM SortedSetCorrect == Spec => ImplementsSortedSet
<1>1. Init => (which = "tree" => TreeInv) /\ (which = "tree" => Tree!Abstract!Init)
  BY TreeInit DEF Init
<1>2. (which = "tree" => TreeInv) /\ [Next]_<<which, box, wire>> =>
        /\ (which = "tree" => TreeInv)'
        /\ [which = "tree" => Tree!Abstract!Next]_<<which, Tree!Abstract!vars>>
  BY TreeStep
<1> QED
  BY <1>1, <1>2, PTL DEF Spec, ImplementsSortedSet

\* In every state the links of the list lead, without a loop, and those of the tree, to
\* each node that is allocated and to nothing else, len counts them, and sll_foreach is at
\* a node that is still allocated or at the end.
THEOREM LinksCorrect == Spec => []LinksAreWhole
<1>1. Init => (which = "list" => ListInv) /\ (which = "tree" => TreeInv)
  BY ListInit, TreeInit DEF Init
<1>2. (which = "list" => ListInv) /\ [Next]_<<which, box, wire>> => (which = "list" => ListInv)'
  BY ListStep
<1>3. (which = "tree" => TreeInv) /\ [Next]_<<which, box, wire>> => (which = "tree" => TreeInv)'
  BY TreeStep
<1>4. ListInv => List!Whole /\ List!WalkIsLive
  <2> SUFFICES ASSUME ListInv PROVE List!Whole /\ List!WalkIsLive
    OBVIOUS
  <2>1. live = {List!Chain[i] : i \in DOMAIN List!Chain}
    BY DEF ListInv, Elements
  <2>2. List!Cardinality(live) = len
    BY ListFacts, SameCardinality
  <2> QED
    BY <2>1, <2>2 DEF ListInv, List!Whole, List!WalkIsLive
<1>5. (which = "list" => ListInv) /\ (which = "tree" => TreeInv) => LinksAreWhole
  BY <1>4, TreeIsWhole DEF LinksAreWhole
<1> QED
  BY <1>1, <1>2, <1>3, <1>5, PTL DEF Spec
=============================================================================
