--------------------------- MODULE MCSynchronizer ---------------------------
(* Synchronizer for TLC.                                                     *)
EXTENDS Synchronizer
=============================================================================
