---------------------------- MODULE MCQueryStore ----------------------------
(* Instances of QueryStore for TLC. *)
EXTENDS QueryStore, TLC
Symmetry == Permutations(Snaps) \cup Permutations(Readers) \cup Permutations(Keys)
=============================================================================
