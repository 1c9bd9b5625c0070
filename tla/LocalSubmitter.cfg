SPECIFICATION Spec
CONSTANTS
  Keys = {1, 2}
  Contents <- MCContents
  NoRecord = NoRecord
  Clients = {c1, c2}
  Peers = {1, 2}
  Identities = {i1, i2}
  Programs <- MCPrograms
  MaxCalls = 3
  Serial = TRUE
SYMMETRY Symmetry
CHECK_DEADLOCK FALSE
INVARIANTS SignaturesVerify RefusalMeansDivergence
  
