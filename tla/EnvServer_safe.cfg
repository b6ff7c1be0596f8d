CONSTANTS
  r1 = r1
  r2 = r2
  r3 = r3
  r4 = r4
  r5 = r5
  r6 = r6
  w1 = w1
  w2 = w2
  w3 = w3
  w4 = w4
  NoJob = NoJob
  Reqs <- FiveReqs
  Workers <- FourWorkers
  PoolSize = 2
  MaxCreates = 4
SPECIFICATION Spec
SYMMETRY Symmetry
INVARIANTS SlotAccounting ClosedOnce
PROPERTIES SlotsInOrder ImplementsPool
CHECK_DEADLOCK FALSE
