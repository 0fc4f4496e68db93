-------------------------------- MODULE Sll --------------------------------
(***************************************************************************)
(* sll/src/sll.c: the singly linked list behind the rooms, their sessions  *)
(* and the buckets of every hash table, with its nodes and links.  A node  *)
(* is an address; a freed address can be handed out again.  Every          *)
(* allocation may fail.  The list has no lock: a caller is inside one      *)
(* function at a time, and the function sll_foreach applies may itself     *)
(* call the list with the datum it was given.                              *)
(***************************************************************************)
EXTENDS Bytes, FiniteSets

CONSTANTS Data,     \* the byte strings callers store
          MaxNodes  \* addresses there are for nodes

\* What the list is for: data are bytes.
SllAssumption == Data \subseteq Seq(Nat) /\ MaxNodes \in Nat

VARIABLES made,     \* is there a list?  (the result of sll_create)
          p_head,   \* the first node
          len,
          live,     \* the addresses calloc gave out and free did not take back
          heap,     \* the contents of each address
          walk,     \* sll_foreach: the node it is about to visit
          ret       \* what the last call returned, and its arguments

vars == <<made, p_head, len, live, heap, walk, ret>>

NULL == 0

Nodes == 1..MaxNodes

Freed == [data |-> <<>>, next |-> NULL]

\* The nodes from n to the end, in cells; longer than there are nodes if the links loop.
Follow(n, cells) ==
  LET at[i \in 0..MaxNodes] ==
        IF i = 0 THEN n
        ELSE IF at[i - 1] = NULL THEN NULL ELSE cells[at[i - 1]].next
  IN [i \in 1..Cardinality({j \in 0..MaxNodes : at[j] # NULL}) |-> at[i - 1]]

Chain == Follow(p_head, heap)

Contents(nodes, cells) == [i \in DOMAIN nodes |-> cells[nodes[i]].data]

Idle == made /\ walk = NULL

Init ==
  /\ made = FALSE
  /\ p_head = NULL
  /\ len = 0
  /\ live = {}
  /\ heap = [n \in Nodes |-> Freed]
  /\ walk = NULL
  /\ ret = <<"NONE">>

\* Where the search loops of sll_get and sll_remove stop: the first node that
\* compares equal, as its place in the chain, or 0 after the last node.
Search(d) ==
  LET same == {i \in DOMAIN Chain : Compare(heap[Chain[i]].data, d) = 0}
  IN IF same = {} THEN 0 ELSE CHOOSE i \in same : \A j \in same : i <= j

\* The link that precedes the i-th node is made to point at n, in cells.
Relink(i, n, cells) ==
  /\ p_head' = IF i = 1 THEN n ELSE p_head
  /\ heap' = IF i = 1 THEN cells ELSE [cells EXCEPT ![Chain[i - 1]].next = n]

\* A call that leaves the list as it is.
Say(result) == ret' = result /\ UNCHANGED <<p_head, len, live, heap>>

\* sll_insert once the index is known to be good.
Link(d, idx) ==
  LET curr == IF idx < Len(Chain) THEN Chain[idx + 1] ELSE NULL
  IN \E n \in Nodes \ live :
       /\ Relink(idx + 1, n, [heap EXCEPT ![n] = [data |-> d, next |-> curr]])
       /\ live' = live \cup {n}
       /\ len' = len + 1
       /\ ret' = <<"SUCCESS", d, idx>>

\* sll_insert: either calloc may fail; the node is freed if its data's does.
Insert(d, idx) ==
  \/ idx > len /\ Say(<<"OUT_OF_BOUNDS", d, idx>>)
  \/ idx <= len /\ Link(d, idx)
  \/ idx <= len /\ Say(<<"ALLOC_FAILURE", d, idx>>)

\* sll_append
Grow(d) == Insert(d, len)

\* sll_remove and node_destroy: the first match goes.
Unlink(d) ==
  LET i == Search(d)
      n == Chain[i]
  IN \/ i = 0 /\ Say(<<"NOT_EXISTS", d>>)
     \/ /\ i # 0
        /\ Relink(i, heap[n].next, [heap EXCEPT ![n] = Freed])
        /\ live' = live \ {n}
        /\ len' = len - 1
        /\ ret' = <<"SUCCESS", d>>

\* sll_create: calloc may fail, and then NULL is returned.
Create ==
  /\ ~made
  /\ \/ made' = TRUE /\ ret' = <<"SUCCESS">>
     \/ made' = FALSE /\ ret' = <<"NULL">>
  /\ UNCHANGED <<p_head, len, live, heap, walk>>

\* sll_destroy: every node the links lead to is destroyed, then the list.
Destroy ==
  LET gone == {Chain[i] : i \in DOMAIN Chain}
  IN /\ Idle
     /\ live' = live \ gone
     /\ heap' = [n \in Nodes |-> IF n \in gone THEN Freed ELSE heap[n]]
     /\ p_head' = NULL
     /\ len' = 0
     /\ made' = FALSE
     /\ ret' = <<"SUCCESS">>
     /\ UNCHANGED walk

\* sll_get
Get(d) ==
  /\ Idle
  /\ ret' = <<"NODE", d, IF Search(d) = 0 THEN NULL ELSE Chain[Search(d)]>>
  /\ UNCHANGED <<made, p_head, len, live, heap, walk>>

Put(d, idx) == Idle /\ Insert(d, idx) /\ UNCHANGED <<made, walk>>

Add(d) == Idle /\ Grow(d) /\ UNCHANGED <<made, walk>>

Remove(d) == Idle /\ Unlink(d) /\ UNCHANGED <<made, walk>>

\* sll_foreach takes the first node.
Foreach ==
  /\ Idle
  /\ walk' = p_head
  /\ ret' = <<"SUCCESS">>
  /\ UNCHANGED <<made, p_head, len, live, heap>>

\* Mutant: the link is read after the function has returned.
AfterCall == heap'[walk].next

\* p_next, saved before the function is applied.
After == heap[walk].next

\* One turn of sll_foreach.  The function does nothing, fails, removes the
\* datum it was given, or appends one; a failed append is not its failure.
Visit ==
  /\ walk # NULL
  /\ \/ Say(<<"SUCCESS">>) /\ walk' = After
     \/ Say(<<"STOPPED">>) /\ walk' = NULL
     \/ Unlink(heap[walk].data) /\ walk' = After
     \/ \E d \in Data : Link(d, len) /\ walk' = After
  /\ UNCHANGED made

Next ==
  \/ Create \/ Destroy \/ Foreach \/ Visit
  \/ \E d \in Data :
       \/ Get(d) \/ Add(d) \/ Remove(d)
       \/ \E idx \in 0..MaxNodes : Put(d, idx)

Spec == Init /\ [][Next]_vars
----------------------------------------------------------------------------
\* The links lead, without a loop, to exactly the nodes that are allocated, and
\* len counts them: no call of sll.c, failed allocations included, leaks a node,
\* loses the tail of the list or leaves a link to a freed node.
Whole ==
  /\ len = Len(Chain)
  /\ live = {Chain[i] : i \in DOMAIN Chain}
  /\ Cardinality(live) = len
  /\ ~made => live = {}

\* sll_foreach never holds the address of a freed node between two calls of the
\* function it applies, whatever that function removed.
WalkIsLive == walk \in live \cup {NULL}

\* The abstract list: what the links lead to, what the walk has ahead of it, and
\* the place of the node sll_get returned.
Abstract ==
  INSTANCE List WITH
    MaxLen <- MaxNodes,
    items <- Contents(Chain, heap),
    todo <- Contents(Follow(walk, heap), heap),
    ret <- IF ret[1] = "NODE"
           THEN <<"FOUND", ret[2],
                  IF ret[3] = NULL THEN 0 ELSE CHOOSE i \in DOMAIN Chain : Chain[i] = ret[3]>>
           ELSE ret

\* sll.c keeps the promises of List: each call returns and does what the sequence
\* says, and a walk visits every element that was there, once, in order.
ImplementsList == Abstract!Spec
=============================================================================
