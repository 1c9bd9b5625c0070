------------------------- MODULE MCFinalityListener -------------------------
(* FinalityListener for TLC.                                                 *)
EXTENDS FinalityListener, TLC

CONSTANT t1

\* Every caller waits for the same transaction.
Same == [c \in Callers |-> t1]
Symmetry == Permutations(Sessions) \cup Permutations(Callers)
=============================================================================
