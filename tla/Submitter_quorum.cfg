SPECIFICATION Spec
CONSTANTS
  Callers = {c1}
  N = 3
  Window = 1
  Closing = FALSE
  NoOne = NoOne
INVARIANTS NilMeansHalf
