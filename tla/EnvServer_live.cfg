CONSTANTS
  r1 = r1
  r2 = r2
  r3 = r3
  r4 = r4
  r5 = r5
  r6 = r6
  w1 = w1
  w2 = w2
  w3 = w3
  w4 = w4
  NoJob = NoJob
  Reqs <- FourReqs
  Workers <- TwoWorkers
  PoolSize = 1
  MaxCreates = 1
SPECIFICATION FairSpec
INVARIANTS SomeWorkerUnblocked
PROPERTY OperationsAnswered
CHECK_DEADLOCK FALSE
