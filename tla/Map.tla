-------------------------------- MODULE Map --------------------------------
(***************************************************************************)
(* What ht/include/ht.h promises: a partial function from keys to values,  *)
(* whose calls say whether the key was there, that is left as it was when  *)
(* memory runs out, and whose walk applies a function once to every key    *)
(* that was there, in no order a caller may rely on.  HashTable implements *)
(* this specification.                                                     *)
(***************************************************************************)
CONSTANTS Keys, Values, Absent

VARIABLES map,   \* each key's value, or Absent
          todo,  \* the keys the walk has yet to visit
          made,  \* is there a table?
          ret    \* what the last call returned, and its arguments

vars == <<map, todo, made, ret>>

Present == {k \in Keys : map[k] # Absent}

Idle == made /\ todo = {}

Empty == [k \in Keys |-> Absent]

Init == map = Empty /\ todo = {} /\ made = FALSE /\ ret = <<"NONE">>

Create ==
  /\ ~made
  /\ \/ made' = TRUE /\ ret' = <<"SUCCESS">>
     \/ made' = FALSE /\ ret' = <<"NULL">>
  /\ UNCHANGED <<map, todo>>

Destroy ==
  /\ Idle
  /\ map' = Empty
  /\ made' = FALSE
  /\ ret' = <<"SUCCESS">>
  /\ UNCHANGED todo

Get(k) ==
  /\ Idle
  /\ ret' = IF map[k] = Absent THEN <<"NULL", k>> ELSE <<"VALUE", k, map[k]>>
  /\ UNCHANGED <<map, todo, made>>

Set(k, v) ==
  /\ Idle
  /\ \/ /\ map' = [map EXCEPT ![k] = v]
        /\ ret' = <<IF map[k] = Absent THEN "SUCCESS" ELSE "EXISTS", k, v>>
     \/ UNCHANGED map /\ ret' = <<"ALLOC_FAILURE", k, v>>
  /\ UNCHANGED <<todo, made>>

Del(k) ==
  /\ Idle
  /\ map' = [map EXCEPT ![k] = Absent]
  /\ ret' = <<IF map[k] = Absent THEN "NOT_EXISTS" ELSE "SUCCESS", k>>
  /\ UNCHANGED <<todo, made>>

\* Only an empty table has nothing to show.
Display ==
  /\ Idle
  /\ ret' = <<IF Present = {} THEN "EMPTY" ELSE "SUCCESS">>
  /\ UNCHANGED <<map, todo, made>>

Walk == Idle /\ todo' = Present /\ ret' = <<"SUCCESS">> /\ UNCHANGED <<map, made>>

\* The function gets some key not yet visited.  It may delete that key, set any
\* key, or stop the walk; a key it adds may or may not be visited.
Visit ==
  /\ made
  /\ \E k \in todo :
       \/ UNCHANGED map /\ todo' = {} /\ ret' = <<"STOPPED">>
       \/ UNCHANGED map /\ todo' = todo \ {k} /\ ret' = <<"SUCCESS">>
       \/ /\ map' = [map EXCEPT ![k] = Absent]
          /\ todo' = todo \ {k}
          /\ ret' = <<"SUCCESS", k>>
       \/ \E j \in Keys, v \in Values :
            /\ map' = [map EXCEPT ![j] = v]
            /\ \/ todo' = todo \ {k}
               \/ map[j] = Absent /\ todo' = (todo \ {k}) \cup {j}
            /\ ret' = <<IF map[j] = Absent THEN "SUCCESS" ELSE "EXISTS", j, v>>
  /\ UNCHANGED made

Next ==
  \/ Create \/ Destroy \/ Display \/ Walk \/ Visit
  \/ \E k \in Keys : Get(k) \/ Del(k) \/ \E v \in Values : Set(k, v)

Spec == Init /\ [][Next]_vars
=============================================================================
