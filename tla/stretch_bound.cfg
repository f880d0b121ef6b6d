\* A tolerance of one, an onset of one, a server clock that runs to five.
CONSTANTS
  SkewTolerance = 1
  BreachCooldown = 2
  MaxRecordedBreaches = 2
  Onset = 1
  Release = 1
  Cooldown = 2
  Clock <- ClientClock
  MaxSeq = 2
  MaxClock = 5
  MaxRewinds = 3
  MaxSamples = 3
SPECIFICATION StretchSpec
INVARIANTS
  StretchIsBounded
CHECK_DEADLOCK FALSE
