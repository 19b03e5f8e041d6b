------------------------------ MODULE Sorting ------------------------------
(* Sorted lists, as the modules that sort make them: of things no two of which
   compare equal. *)
EXTENDS Integers, FiniteSets

(* The members of a finite set, in an order given as the pairs of it: each is
   where as many others come before it. *)
Ranked(S, Before) ==
  [i \in 1..Cardinality(S) |->
     CHOOSE x \in S : Cardinality({y \in S : <<y, x>> \in Before}) = i - 1]

(* Numbers by size. *)
Ascending(S) == {p \in S \X S : p[1] < p[2]}
=============================================================================
