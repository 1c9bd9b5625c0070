SPECIFICATION Spec
CONSTANTS
  Keys = {k1, k2}
  TxIds = {t1, t2}
  Contents <- MCContents
  NoRecord = NoRecord
  Junk = Junk
  None = None
  MaxBlocks = 3
  MaxTxPerBlock = 2
SYMMETRY Symmetry
CHECK_DEADLOCK FALSE
INVARIANTS CommittedReadsAreCurrent ConflictsAreReal ReplicaConverges
