-------------------------- MODULE MCAllTxStreamer ---------------------------
(* AllTxStreamer for TLC.                                                    *)
EXTENDS AllTxStreamer
=============================================================================
