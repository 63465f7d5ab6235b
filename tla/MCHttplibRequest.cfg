SPECIFICATION Spec
CONSTANTS
  Requests <- MCRequests
  Pipelined <- MCPipelined
  Handlings <- MCHandlings
  ErrorHandlings <- MCErrorHandlings
  KeepAliveMax = 2
  MaxSent = 2
  MaxBlocks = 1
  RangeMaxCount = 3
INVARIANTS
  Delimited
  AtBoundary
  
PROPERTIES
  ConnectionEnds
