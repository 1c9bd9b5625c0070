--------------------------- MODULE MCTestNetwork ----------------------------
(* Instances of TestNetwork for TLC. *)
EXTENDS TestNetwork
=============================================================================
