CONSTANTS
  rank0 = rank0
  rank1 = rank1
  Ranks <- OneRank
  UseCritic = FALSE
  TotalSteps = 4
  SaveFreq = 2
  KeepActor = 1
  KeepCritic = 1
  CriticWarmup = 2
  SftEnabled = FALSE
  SftSize = 2
  SftWarmup = 1
  Expires = FALSE
  MaxRuns = 3
SPECIFICATION Spec
INVARIANT TrackerRestarts
CHECK_DEADLOCK FALSE
