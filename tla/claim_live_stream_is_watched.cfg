\* A statement of the code's comments, checked on the code.
CONSTANTS
  s1 = s1
  c1 = c1
  c2 = c2
  Sessions <- OneSession
  Conns <- TwoConns
  NoSession = NoSession
  Clients <- ClockZero
  Payloads <- OnlyHeartbeat
  SkewTolerance = 5
  BreachCooldown = 2
  MaxRecordedBreaches = 1
  MaxGap = 2
  SilenceCooldown = 2
  RestoredPerSession = 2
  MaxSeq = 1
  MaxClock = 3
  MaxFrames = 3
  MaxAttaches = 2
  MaxCrashes = 0
SPECIFICATION Spec
INVARIANTS
  LiveStreamIsWatched
CHECK_DEADLOCK FALSE
