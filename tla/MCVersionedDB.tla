--------------------------- MODULE MCVersionedDB ----------------------------
(* VersionedDB for TLC: blocks with up to two writes, in one or two          *)
(* transactions, of which one may be invalid.                                *)
EXTENDS VersionedDB, TLC

MCWrites == [tx : 0..1, key : Keys, content : Contents, valid : BOOLEAN]

MCBlocks ==
  {<<>>} \cup {<<w>> : w \in {x \in MCWrites : x.tx = 0}} \cup
  {<<w[1], w[2]>> :
     w \in {p \in MCWrites \X MCWrites :
              /\ p[1].tx = 0 /\ p[1].valid
              /\ p[2].key = p[1].key => p[2].tx = 1
              /\ p[2].tx = 0 => p[2].valid}}

Symmetry == Permutations(Keys) \cup Permutations(Contents)
=============================================================================
