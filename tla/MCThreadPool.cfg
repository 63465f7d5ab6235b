SPECIFICATION PoolSpec
CONSTANTS
  w1 = w1
  w2 = w2
  w3 = w3
  j1 = j1
  j2 = j2
  j3 = j3
  j4 = j4
  Workers <- MCWorkers
  Jobs <- MCJobs
  NoJob = NoJob
  MaxQueued = 2
INVARIANTS
  TypeOK
  OnceInOrder
  DrainedAtJoin
  NoLostWakeup
PROPERTY
  ImplementsExecutor
