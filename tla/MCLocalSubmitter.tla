-------------------------- MODULE MCLocalSubmitter --------------------------
(* LocalSubmitter for TLC.                                                   *)
EXTENDS LocalSubmitter, TLC

\* Reads of both kinds, blind writes, and reads alone.
MCPrograms ==
  {[reads |-> {1, 2}, writes |-> {1}], [reads |-> {}, writes |-> {1, 2}],
   [reads |-> {1, 2}, writes |-> {}]}
MCContents == Clients \X (1..MaxCalls)
Symmetry == Permutations(Clients) \cup Permutations(Identities)
=============================================================================
