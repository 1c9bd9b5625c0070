SPECIFICATION FairSpec
CONSTANTS
  Callers = {c1, c2}
  N = 1
  Window = 1
  Closing = TRUE
  NoOne = NoOne
INVARIANTS OneLiveStream NoSendWithCloseSend CloseDrains
PROPERTIES AllReturn
