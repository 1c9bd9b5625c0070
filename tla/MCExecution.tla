---------------------------- MODULE MCExecution -----------------------------
(* Execution for TLC.                                                        *)
EXTENDS Execution, TLC

MCContents == [by : TxIds, kind : {"value", "empty", "delete"}]
Symmetry == Permutations(TxIds) \cup Permutations(Keys)
=============================================================================
