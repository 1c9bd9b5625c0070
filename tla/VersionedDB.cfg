SPECIFICATION Spec
CONSTANTS
  Keys = {k1, k2}
  Contents = {c1, c2}
  NoRecord = NoRecord
  Blocks <- MCBlocks
  MaxBlocks = 3
SYMMETRY Symmetry
INVARIANTS VersionsConsecutive HistoryIsVersionOrder SnapshotStable
PROPERTY ImplementsAtomicStore
