SPECIFICATION FairSpec
CONSTANTS
  MaxQueue = 2
  SigningFails = TRUE
  LateClose = TRUE
  MaxFrames = 4
  MaxSockets = 2
  MaxClock = 1
INVARIANTS CloseWaits OnlyFailuresLetOvertake EachFrameOnce
PROPERTY NothingWedges
CHECK_DEADLOCK FALSE
