CONSTANTS
  ep1 = ep1
  ep2 = ep2
  Eps <- TwoEpisodes
  MaxTraj = 2
  MaxHorizon = 2
  MaxSteps = 1
  PoolSize = 5
  MaxFailures = 1
SPECIFICATION FairSpec
INVARIANTS DoneHoldsNothing SimulatesOpenEnvs NoCircularWait
PROPERTY EpisodesEnd
CHECK_DEADLOCK FALSE
