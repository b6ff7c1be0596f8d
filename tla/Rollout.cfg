CONSTANTS
  c1 = c1
  c2 = c2
  c3 = c3
  c4 = c4
  p1 = p1
  p2 = p2
  Configs <- SmallConfigs
  MaxTraj = 2
  Lengths = {1, 2}
  InferConfigs <- SmallInfer
  InferLengths = {1, 2}
  MoveRewards = {0, 1}
  PlanConfigs <- SmallPlans
  PolicyConfigs <- SmallPolicies
  TextLengths = {1, 2}
  GameRewards = {0, 1}
  Callers = {c1, c2, c4}
  Hurried = {c4}
  EnginesMax = 2
  MaxStarts = 2
  Processes = {p1, p2}
  Interval = 2
  LongestWait = 4
  Fallback = 1
  LastTime = 2
  MostCalls = 3
  LockFiles = 2
  Servers = {1, 2}
  Conversations = {c1, c2, c3, c4}
  CacheSize = 2
  MaxTurns = 6
SPECIFICATION MCSpec
INVARIANTS
  StreamsInStep MaskMarksModelText RewardsArrive DistilledAlike SwappedInPlace
  MovesRewarded ShownIsWindow
  LearnsAsWritten
  PlanInStep HeardIsSaid FailsOnlyAfterEnd
  NoEngineLost LeftOvers
  SlotsSpaced ChosenEvenly
PROPERTIES
  ImplementsLeases CallersAnswered StickyUnlessCrowded
CHECK_DEADLOCK FALSE
