SPECIFICATION ListenerFairSpec
CONSTANTS
  t1 = t1
  TxIds = {t1}
  Callers = {c1}
  None = None
  Wants <- Same
  Sessions = {s1, s2}
  Cap = 1
  Querier = TRUE
  Failures = {"open", "break", "eof"}
  Impatient = FALSE
  InitBackoff = 1
  MaxBackoff = 1
CHECK_DEADLOCK FALSE
PROPERTIES CancelStopsAll 
