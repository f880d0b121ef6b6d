SPECIFICATION LinkSpec
CONSTANTS
  SkewTolerance = 1
  BreachCooldown = 1
  MaxRecordedBreaches = 2
  MaxQueue = 2
  SigningFails = TRUE
  LateClose = FALSE
  MaxFrames = 3
  MaxSockets = 2
  MaxClock = 3
INVARIANTS ReplayOnlyIfCrossed GapOnlyIfLost SkewOnlyIfLate
CHECK_DEADLOCK FALSE
