SPECIFICATION FairSpec
CONSTANTS
  a = a
  b = b
  c = c
  w1 = w1
  w2 = w2
  w3 = w3
  Job = {a, b, c}
  Worker = {w1, w2, w3}
  PriorityOf <- Reserve
  Listened = {a}
  max_workers = 4
CHECK_DEADLOCK FALSE
INVARIANTS
  NoDangling
  PriorityReserve
  PoolBound
  ShutdownComplete
  NoJobLost
  Inv
PROPERTIES
  CancelJobsReturns
  LiveWorkerServes
  ImplementsService
