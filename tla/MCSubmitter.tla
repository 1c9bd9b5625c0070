---------------------------- MODULE MCSubmitter -----------------------------
(* Instances of Submitter for TLC. *)
EXTENDS Submitter
=============================================================================
