CONSTANTS
  game = game
  sim1 = sim1
  sim2 = sim2
  Game <- game
  Sims <- TwoSims
  MaxRetries = 3
  PoolSize = 3
  Faults <- AllFaults
  MaxMoves = 1
  MaxBreaks = 2
SPECIFICATION FairSpec
INVARIANTS GameInStep OrphansPaid MissingOnlyWhenClosingAgain
PROPERTIES CallsReturn
CHECK_DEADLOCK FALSE
