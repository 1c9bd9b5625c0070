------------------------------ MODULE Ordering ------------------------------
(***************************************************************************)
(* A set as a sequence in a given order: SQL's ORDER BY, Go's sort.Slice,  *)
(* and the elements a loop over a sequence keeps.                          *)
(***************************************************************************)
EXTENDS Integers, Sequences, FiniteSets

\* The elements of S, each after those that are before it.
OrderBy(S, before) ==
  [i \in 1..Cardinality(S) |->
     CHOOSE x \in S : Cardinality({y \in S : <<y, x>> \in before}) = i - 1]

\* A set of numbers, in increasing order.
InOrder(S) == OrderBy(S, {p \in S \X S : p[1] < p[2]})

Elements(s) == {s[i] : i \in DOMAIN s}
=============================================================================
