SPECIFICATION ListenerSpec
CONSTANTS
  t1 = t1
  TxIds = {t1}
  Callers = {c1, c2}
  None = None
  Wants <- Same
  Sessions = {s1, s2}
  Cap = 1
  Querier = TRUE
  Failures = {"break", "timeout"}
  Impatient = TRUE
  InitBackoff = 1
  MaxBackoff = 1
SYMMETRY Symmetry
CHECK_DEADLOCK FALSE
INVARIANTS AtMostOneEvent PendingIsAwaited UnknownIsTimeout
