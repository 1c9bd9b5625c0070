SPECIFICATION StoreSpec
CONSTANTS
  Keys = {k1, k2}
  Snaps = {s1, s2}
  Readers = {r1, r2}
  Conns = 2
  MaxCommits = 2
  NoRecord = NoRecord
SYMMETRY Symmetry
CHECK_DEADLOCK FALSE
INVARIANTS OneConsistentState CallsFindTheirView
