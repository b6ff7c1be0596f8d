CONSTANTS
  game = game
  sim1 = sim1
  sim2 = sim2
  Game <- game
  Sims <- OneSim
  MaxRetries = 3
  PoolSize = 2
  Faults <- NoFaults
  MaxMoves = 2
  MaxBreaks = 0
SPECIFICATION Spec
PROPERTIES SimulatorsStartAtGame
CHECK_DEADLOCK FALSE
