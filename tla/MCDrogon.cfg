SPECIFICATION Spec
CONSTANTS
  t1 = t1
  t2 = t2
  Threads <- MCThreads
  PerThread = 2
  Size = 2
  Junk <- MCJunk
  NoSummary = NoSummary
INVARIANT
  QuitLast
  ServerAgrees
PROPERTY
  ImplementsTally
