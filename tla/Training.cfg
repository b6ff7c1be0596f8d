CONSTANTS
  rank0 = rank0
  rank1 = rank1
  Ranks <- TwoRanks
  UseCritic = TRUE
  TotalSteps = 4
  SaveFreq = 2
  KeepActor = 2
  KeepCritic = 3
  CriticWarmup = 2
  SftEnabled = TRUE
  SftSize = 2
  SftWarmup = 1
  Expires = TRUE
  MaxRuns = 3
  Calls <- SmallCalls
  Flows <- SmallFlows
SPECIFICATION MCSpec
SYMMETRY Symmetry
INVARIANTS
  TrackedIsComplete InStep KeptPerRun OverrunPaid
  PartsBalanced LearnsEachRowOnce NoDeviceLeftBehind
PROPERTIES ImplementsCheckpoints
CHECK_DEADLOCK FALSE
