------------------------------- MODULE Bytes -------------------------------
(***************************************************************************)
(* Byte strings, and the order the containers of the repository keep them  *)
(* in: sll.c and bst.c have the same data_compare, used when the caller    *)
(* sets no comparison of its own.                                          *)
(***************************************************************************)
EXTENDS Integers, Sequences

\* umin
Umin(m, n) == IF m < n THEN m ELSE n

\* memcmp over the first n bytes: negative, zero or positive.
Memcmp(a, b, n) ==
  LET differ == {i \in 1..n : a[i] # b[i]}
      first  == CHOOSE i \in differ : \A j \in differ : i <= j
  IN IF differ = {} THEN 0 ELSE a[first] - b[first]

\* data_compare: the common length first, then the shorter string is less.
Compare(a, b) ==
  LET common == Memcmp(a, b, Umin(Len(a), Len(b)))
  IN IF common # 0 THEN common ELSE Len(a) - Len(b)
=============================================================================
