SPECIFICATION Spec
CONSTANTS
  c1 = c1
  c2 = c2
  p1 = p1
  s1 = s1
  s2 = s2
  Conns <- MCConns
  Threads <- MCThreads
  Stoppers <- MCStoppers
  KeepAliveMax = 2
INVARIANTS
  GracefulStop
  ClosedOnce
PROPERTIES
  StopEndsListen
  AcceptedIsClosed
  WaiterReturns
