CONSTANTS
  ep1 = ep1
  ep2 = ep2
  Eps <- OneEpisode
  MaxTraj = 2
  MaxHorizon = 2
  MaxSteps = 0
  PoolSize = 3
  MaxFailures = 1
SPECIFICATION FairSpec
PROPERTY FailedReturnAll
CHECK_DEADLOCK FALSE
