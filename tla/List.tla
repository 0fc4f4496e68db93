-------------------------------- MODULE List --------------------------------
(***************************************************************************)
(* What sll/include/sll.h promises: a sequence of data that can be read,   *)
(* extended, shortened and walked.  There are no nodes or links here.      *)
(* A walk visits what was in the list when it began, each element once and *)
(* in order, also when the function it applies removes the element it was  *)
(* given or appends another.  Sll implements this specification.           *)
(***************************************************************************)
EXTENDS Naturals, Sequences

CONSTANTS Data,    \* what can be stored
          MaxLen   \* the memory there is, in elements

VARIABLES items,   \* the data, first to last
          todo,    \* what the walk has yet to visit
          made,    \* is there a list?
          ret      \* what the last call returned, and its arguments

vars == <<items, todo, made, ret>>

Idle == made /\ todo = <<>>

Places(d) == {i \in DOMAIN items : items[i] = d}

\* Where d is found: its first place, or 0.
Place(d) ==
  IF Places(d) = {} THEN 0
  ELSE CHOOSE i \in Places(d) : \A j \in Places(d) : i <= j

Insert(d, i) == SubSeq(items, 1, i) \o <<d>> \o SubSeq(items, i + 1, Len(items))

Without(i) == SubSeq(items, 1, i - 1) \o SubSeq(items, i + 1, Len(items))

Init == items = <<>> /\ todo = <<>> /\ made = FALSE /\ ret = <<"NONE">>

Create ==
  /\ ~made
  /\ \/ made' = TRUE /\ ret' = <<"SUCCESS">>
     \/ made' = FALSE /\ ret' = <<"NULL">>
  /\ UNCHANGED <<items, todo>>

Destroy ==
  /\ Idle
  /\ items' = <<>>
  /\ made' = FALSE
  /\ ret' = <<"SUCCESS">>
  /\ UNCHANGED todo

Get(d) == Idle /\ ret' = <<"FOUND", d, Place(d)>> /\ UNCHANGED <<items, todo, made>>

Put(d, i) ==
  /\ Idle
  /\ \/ /\ i <= Len(items)
        /\ items' = Insert(d, i)
        /\ ret' = <<"SUCCESS", d, i>>
     \/ /\ ret' = <<IF i > Len(items) THEN "OUT_OF_BOUNDS" ELSE "ALLOC_FAILURE", d, i>>
        /\ UNCHANGED items
  /\ UNCHANGED <<todo, made>>

Remove(d) ==
  /\ Idle
  /\ items' = IF Place(d) = 0 THEN items ELSE Without(Place(d))
  /\ ret' = <<IF Place(d) = 0 THEN "NOT_EXISTS" ELSE "SUCCESS", d>>
  /\ UNCHANGED <<todo, made>>

Walk == Idle /\ todo' = items /\ ret' = <<"SUCCESS">> /\ UNCHANGED <<items, made>>

\* The function gets the next element, may change the list, and may stop the
\* walk.  What it appends is visited too, unless it was given the last element.
Visit ==
  /\ made
  /\ todo # <<>>
  /\ \/ items' = items /\ todo' = Tail(todo) /\ ret' = <<"SUCCESS">>
     \/ items' = items /\ todo' = <<>> /\ ret' = <<"STOPPED">>
     \/ /\ items' = Without(Place(Head(todo)))
        /\ todo' = Tail(todo)
        /\ ret' = <<"SUCCESS", Head(todo)>>
     \/ \E d \in Data :
          /\ items' = Append(items, d)
          /\ todo' = IF Len(todo) = 1 THEN <<>> ELSE Append(Tail(todo), d)
          /\ ret' = <<"SUCCESS", d, Len(items)>>
  /\ UNCHANGED made

Next ==
  \/ Create \/ Destroy \/ Walk \/ Visit
  \/ \E d \in Data : Get(d) \/ Remove(d) \/ \E i \in 0..MaxLen : Put(d, i)

Spec == Init /\ [][Next]_vars
=============================================================================
