------------------------------ MODULE Ordering ------------------------------
(***************************************************************************)
(* The rows of a query that sorts by a strict order: the first has no row  *)
(* before it, the i-th has i - 1.  (SortSeq of the library is a primitive  *)
(* of TLC, which the provers know nothing about.)                          *)
(***************************************************************************)
EXTENDS Integers, FiniteSets

Ordered(S, before(_, _)) ==
    [i \in 1..Cardinality(S) |->
        CHOOSE x \in S : Cardinality({y \in S : before(y, x)}) = i - 1]
=============================================================================
