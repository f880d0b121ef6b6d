\* Replays, gaps, rewound and drifting clocks, reattachments and silence across
\* a crash; one socket at a time, and a tick loop that goes on.
CONSTANTS
  s1 = s1
  c1 = c1
  c2 = c2
  Sessions <- OneSession
  Conns <- OneConn
  NoSession = NoSession
  Clients <- TwoClocks
  Payloads <- OnlyHeartbeat
  SkewTolerance = 1
  BreachCooldown = 2
  MaxRecordedBreaches = 1
  MaxGap = 1
  SilenceCooldown = 2
  RestoredPerSession = 2
  MaxSeq = 2
  MaxClock = 4
  MaxFrames = 2
  MaxAttaches = 2
  MaxCrashes = 1
SPECIFICATION FairSpec
INVARIANTS
  StreamStateDurable
  EventsAreDistinct
PROPERTIES
  NoLaunderedReplay
  DurableProgress
  SilenceIsFlagged
CHECK_DEADLOCK FALSE
