SPECIFICATION Spec
CONSTANTS
  Sessions = {1, 2}
  Ceiling = 15
  RestoredPerSession = 2
  MaxNow = 10
  MaxRows = 3
  RowTimes = {0, 9}
  MaxRestarts = 2
INVARIANT ScoreIsWeightedCount PageFollowsBoard
PROPERTY RestartKeepsScores
CHECK_DEADLOCK FALSE
