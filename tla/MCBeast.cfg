SPECIFICATION BeastSpec
CONSTANTS
  thread_count = 2
  requests_per_thread = 2
  Size = 2
  NoSummary = NoSummary
PROPERTIES
  ImplementsTally
  ConnectionsEnd
