CONSTANTS
  Configs <- TwoTurns
  MaxTraj = 2
  Lengths = {1}
SPECIFICATION Spec
INVARIANTS SameTokensDistilled
CHECK_DEADLOCK FALSE
