----------------------------- MODULE SortedSet -----------------------------
(***************************************************************************)
(* What bst/include/bst.h promises: a set of byte strings, searched,       *)
(* extended and shortened one at a time, and walked in ascending order.    *)
(* Bst implements this specification.                                      *)
(***************************************************************************)
EXTENDS Bytes, FiniteSets

CONSTANTS Data  \* what can be stored

VARIABLES items,  \* what is in the set
          made,   \* is there a set?
          ret     \* what the last call returned or showed, and its argument

vars == <<items, made, ret>>

Less(a, b) == Compare(a, b) < 0

\* The items, least first.
Ascending ==
  [i \in 1..Cardinality(items) |->
    CHOOSE d \in items : Cardinality({e \in items : Less(e, d)}) = i - 1]

Init == items = {} /\ made = FALSE /\ ret = <<"NONE">>

Create ==
  /\ ~made
  /\ \/ made' = TRUE /\ ret' = <<"SUCCESS">>
     \/ made' = FALSE /\ ret' = <<"NULL">>
  /\ UNCHANGED items

Destroy == made /\ made' = FALSE /\ items' = {} /\ ret' = <<"SUCCESS">>

Get(d) ==
  /\ made
  /\ ret' = IF d \in items THEN <<"FOUND", d, d>> ELSE <<"NULL", d>>
  /\ UNCHANGED <<items, made>>

Set(d) ==
  /\ made
  /\ \/ d \in items /\ ret' = <<"EXISTS", d>> /\ UNCHANGED items
     \/ d \notin items /\ ret' = <<"SUCCESS", d>> /\ items' = items \cup {d}
     \/ d \notin items /\ ret' = <<"ALLOC_FAILURE", d>> /\ UNCHANGED items
  /\ UNCHANGED made

Del(d) ==
  /\ made
  /\ items' = items \ {d}
  /\ ret' = <<IF d \in items THEN "SUCCESS" ELSE "NOT_EXISTS", d>>
  /\ UNCHANGED made

\* The function sees the items in order until it stops the walk.
Walk ==
  /\ made
  /\ \E k \in 0..Cardinality(items) : ret' = <<"SHOWN", SubSeq(Ascending, 1, k)>>
  /\ UNCHANGED <<items, made>>

Next == Create \/ Destroy \/ Walk \/ \E d \in Data : Get(d) \/ Set(d) \/ Del(d)

Spec == Init /\ [][Next]_vars
=============================================================================
