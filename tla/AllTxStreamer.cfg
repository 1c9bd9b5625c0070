SPECIFICATION StreamerFairSpec
CONSTANTS
  Namespaces = {n1, n2}
  MaxFilter = 2
  NHandlers = 2
  QueueDepth = 2
  MaxBlocks = 4
INVARIANTS HandledInOrder ReturnsAfterHandlers 
PROPERTIES CancelEndsStream
