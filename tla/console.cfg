SPECIFICATION FairSpec
CONSTANTS
  Consoles = {c1}
  QueueLimit = 2
  MaxBoard = 5
  MaxSilent = 1
  MaxBreaks = 2
  MaxFetches = 2
  MaxInSocket = 1
INVARIANTS BehindMeansPending
PROPERTY CatchesUp
CHECK_DEADLOCK FALSE
