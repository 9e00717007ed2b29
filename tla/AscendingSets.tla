----------------------------- MODULE AscendingSets -----------------------------
(***************************************************************************)
(* Sets of numbers in ascending order.                                     *)
(***************************************************************************)
EXTENDS Integers, FiniteSets

\* The members of S as a sequence, from the smallest number on.
Ascending(S) ==
    [i \in 1 .. Cardinality(S) |-> CHOOSE x \in S : Cardinality({y \in S : y <= x}) = i]
================================================================================
