-------------------------------- MODULE Bst --------------------------------
(***************************************************************************)
(* bst/src/bst.c: the binary search tree, with its nodes and links.  The   *)
(* code finds its way with pointers to links; a link is <<address, side>>, *)
(* and the tree's own p_root is the left link of the address Top.  Every   *)
(* allocation may fail.  Code that never compares addresses does not see   *)
(* which free address calloc returns: here it depends on the datum.        *)
(***************************************************************************)
EXTENDS Bytes, FiniteSets

CONSTANTS Data,     \* the byte strings callers store
          MaxNodes  \* addresses there are for nodes

\* What the tree is for: data are bytes, and there is an address for each.
BstAssumption ==
  /\ Data \subseteq Seq(Nat) /\ MaxNodes \in Nat
  /\ \E f \in [Data -> 1..MaxNodes] : \A d, e \in Data : f[d] = f[e] => d = e

VARIABLES made,  \* is there a tree?  (the result of bst_create)
          len,
          live,  \* the addresses calloc gave out and free did not take back
          heap,  \* the contents of each address
          ret    \* what the last call returned or showed, and its argument

vars == <<made, len, live, heap, ret>>

Top == 0

NULL == MaxNodes + 1

Nodes == 1..MaxNodes

Freed == [data |-> <<>>, left |-> NULL, right |-> NULL]

\* The address a node for d gets.
Home == CHOOSE f \in [Data -> Nodes] : \A d, e \in Data : f[d] = f[e] => d = e

Root == <<Top, "left">>

\* *pp_link
At(link) == heap[link[1]][link[2]]

\* *pp_link = n, in cells.
Store(cells, link, n) == [cells EXCEPT ![link[1]][link[2]] = n]

\* get_link: the link to the node with d, or the empty link where it belongs.
GetLink(d) ==
  LET next(link, n) ==
        LET order == Compare(d, heap[n].data)
        IN IF order = 0 THEN link ELSE <<n, IF order < 0 THEN "left" ELSE "right">>
      at[i \in 0..MaxNodes] ==
        IF i = 0 THEN Root
        ELSE IF At(at[i - 1]) = NULL THEN at[i - 1] ELSE next(at[i - 1], At(at[i - 1]))
  IN at[MaxNodes]

\* The link to the least node of the subtree that hangs from link.
Leftmost(link) ==
  LET at[i \in 0..MaxNodes] ==
        IF i = 0 THEN link
        ELSE IF heap[At(at[i - 1])].left = NULL THEN at[i - 1] ELSE <<At(at[i - 1]), "left">>
  IN at[MaxNodes]

\* Mutant: the right subtree is shown before the node.
InOrderRightFirst(cells) ==
  LET below[fuel \in 0..MaxNodes] ==
        [n \in Nodes \cup {NULL} |->
          IF n = NULL \/ fuel = 0 THEN <<>>
          ELSE below[fuel - 1][cells[n].left] \o below[fuel - 1][cells[n].right] \o <<n>>]
  IN below[MaxNodes][cells[Top].left]

\* subtree_foreach and subtree_destroy: the nodes the links lead to in cells, left
\* subtree, node, right subtree; links that loop are followed MaxNodes deep.
InOrder(cells) ==
  LET below[fuel \in 0..MaxNodes] ==
        [n \in Nodes \cup {NULL} |->
          IF n = NULL \/ fuel = 0 THEN <<>>
          ELSE below[fuel - 1][cells[n].left] \o <<n>> \o below[fuel - 1][cells[n].right]]
  IN below[MaxNodes][cells[Top].left]

\* bst_foreach's walk: from the root.
Shown == InOrder(heap)

\* The nodes the links lead to.
Reached == {Shown[i] : i \in DOMAIN Shown}

Init ==
  /\ made = FALSE
  /\ len = 0
  /\ live = {}
  /\ heap = [n \in Nodes \cup {Top} |-> Freed]
  /\ ret = <<"NONE">>

\* bst_create
Create ==
  /\ ~made
  /\ \/ made' = TRUE /\ ret' = <<"SUCCESS">>
     \/ made' = FALSE /\ ret' = <<"NULL">>
  /\ UNCHANGED <<len, live, heap>>

\* bst_destroy
Destroy ==
  /\ made
  /\ live' = live \ Reached
  /\ heap' = [n \in DOMAIN heap |-> IF n \in Reached \cup {Top} THEN Freed ELSE heap[n]]
  /\ len' = 0
  /\ made' = FALSE
  /\ ret' = <<"SUCCESS">>

\* bst_get
Get(d) ==
  /\ made
  /\ ret' = IF At(GetLink(d)) = NULL THEN <<"NULL", d>>
            ELSE <<"FOUND", d, heap[At(GetLink(d))].data>>
  /\ UNCHANGED <<made, len, live, heap>>

\* bst_set: node_create fails when either of its callocs does, and then frees what
\* it had.
Set(d) ==
  LET link == GetLink(d)
  IN /\ made
     /\ \/ At(link) # NULL /\ ret' = <<"EXISTS", d>> /\ UNCHANGED <<len, live, heap>>
        \/ At(link) = NULL /\ ret' = <<"ALLOC_FAILURE", d>> /\ UNCHANGED <<len, live, heap>>
        \/ /\ At(link) = NULL
           /\ heap' = Store([heap EXCEPT ![Home[d]] = [Freed EXCEPT !.data = d]], link, Home[d])
           /\ live' = live \cup {Home[d]}
           /\ len' = len + 1
           /\ ret' = <<"SUCCESS", d>>
     /\ UNCHANGED made

\* Mutant: the target's links are copied before its successor is unlinked.
SpliceEarly(link) ==
  LET target == At(link)
      up     == Leftmost(<<target, "right">>)
      succ   == At(up)
      moved  == [heap EXCEPT ![succ].left  = heap[target].left,
                             ![succ].right = heap[target].right]
  IN Store(Store(moved, up, heap[succ].right), link, succ)

\* bst_del of a target with two children: its successor is unlinked, takes over the
\* target's links (as they are then) and its place.
Splice(link) ==
  LET target == At(link)
      up     == Leftmost(<<target, "right">>)
      succ   == At(up)
      cut    == Store(heap, up, heap[succ].right)
      moved  == [cut EXCEPT ![succ].left = cut[target].left, ![succ].right = cut[target].right]
  IN Store(moved, link, succ)

\* The links after bst_del unlinked the target of link.
Unlinked(link) ==
  LET target == heap[At(link)]
  IN IF target.left # NULL /\ target.right # NULL THEN Splice(link)
     ELSE Store(heap, link, IF target.left # NULL THEN target.left ELSE target.right)

\* bst_del
Del(d) ==
  LET link == GetLink(d)
  IN /\ made
     /\ \/ At(link) = NULL /\ ret' = <<"NOT_EXISTS", d>> /\ UNCHANGED <<len, live, heap>>
        \/ /\ At(link) # NULL
           /\ heap' = [Unlinked(link) EXCEPT ![At(link)] = Freed]
           /\ live' = live \ {At(link)}
           /\ len' = len - 1
           /\ ret' = <<"SUCCESS", d>>
     /\ UNCHANGED made

\* bst_foreach and bst_display: the function sees the nodes until it fails.  It may
\* not change the tree, whose links are read after it returns.
Foreach ==
  /\ made
  /\ \E k \in 0..Len(Shown) :
       ret' = <<"SHOWN", [i \in 1..k |-> heap[Shown[i]].data]>>
  /\ UNCHANGED <<made, len, live, heap>>

Next == Create \/ Destroy \/ Foreach \/ \E d \in Data : Get(d) \/ Set(d) \/ Del(d)

Spec == Init /\ [][Next]_vars
----------------------------------------------------------------------------
\* The links lead to each allocated node once and to nothing else, and len counts
\* them: however the tree was built and cut, bst_del moves a successor without
\* losing its subtree, linking it to itself or keeping a link to the freed node.
Whole ==
  /\ live = Reached
  /\ Len(Shown) = len
  /\ Cardinality(live) = len

\* The abstract set: what the nodes hold.
Abstract == INSTANCE SortedSet WITH items <- {heap[n].data : n \in Reached}

\* bst.c keeps the promises of SortedSet: what was set and not deleted is found, and
\* nothing else; a walk shows it in ascending order, also strings that are prefixes
\* of one another.
ImplementsSortedSet == Abstract!Spec
=============================================================================
