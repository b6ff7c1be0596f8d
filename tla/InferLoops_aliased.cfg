CONSTANTS
  InferConfigs <- Aliasing
  InferLengths = {1, 2}
  MoveRewards = {0, 1}
SPECIFICATION InferSpec
INVARIANTS MaskIsOfModel
CHECK_DEADLOCK FALSE
