SPECIFICATION FairSpec
CONSTANTS
  Monitors = {m1, m2}
  NoMonitor = NoMonitor
  NHandlers = 2
  DbPos = 1
  MaxHeight = 2
INVARIANTS OneLiveMonitor NoMonitorAfterClose ReadyIsBacked NoBlockLostUpToStore AtMostOnceAfterStore
PROPERTIES StoppedIsTerminal ReturnsAfterCancel CatchesUp
