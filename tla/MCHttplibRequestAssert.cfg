SPECIFICATION SafetySpec
CONSTANTS
  Requests <- MCRequests
  Pipelined <- MCPipelined
  Handlings <- MCHandlings
  ErrorHandlings <- MCErrorHandlings
  KeepAliveMax = 2
  MaxSent = 2
  MaxBlocks = 1
  RangeMaxCount = 3
INVARIANT
  RangeAsserted
