\* Overlapping sockets, crashes and restarts; one client clock value.
CONSTANTS
  s1 = s1
  c1 = c1
  c2 = c2
  Sessions <- OneSession
  Conns <- TwoConns
  NoSession = NoSession
  Clients <- ClockZero
  Payloads <- AllPayloads
  SkewTolerance = 5
  BreachCooldown = 2
  MaxRecordedBreaches = 1
  MaxGap = 1
  SilenceCooldown = 2
  RestoredPerSession = 2
  MaxSeq = 1
  MaxClock = 3
  MaxFrames = 3
  MaxAttaches = 2
  MaxCrashes = 1
SPECIFICATION Spec
SYMMETRY ConnSymmetry
INVARIANTS
  BreachLogMatchesCounts
  BoardIsReplayOfStore
  WatchedUnlessOverlapped
PROPERTIES
  EndIsFinal
CHECK_DEADLOCK FALSE
