SPECIFICATION FairSpec
CONSTANTS
  Envs = {e1, e2}
  Clients = {c1}
  MaxTxPerBlock = 2
  HasTimer = TRUE
  InCap = 1
  SubCap = 1
  MaxBlocks = 3
  MaxStart = 2
  MaxReverts = 1
  CanStop = TRUE
CHECK_DEADLOCK FALSE
INVARIANTS ChainLinked EnvelopeIsKept StreamFollowsChain
PROPERTIES EnvelopeIsCut HandlersExit
