SPECIFICATION Spec
CONSTANTS
  t1 = t1
  t2 = t2
  s1 = s1
  s2 = s2
  Threads <- MCThreads
  PerThread = 2
  ServerThreads <- MCServer
  Size = 2
  NoSummary = NoSummary
INVARIANTS
  TypeOK
  CreditBacked
  ServerAgrees
  LogTrue
PROPERTY
  ImplementsTally
