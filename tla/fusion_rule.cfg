\* A counter that goes forward but for one sample.
CONSTANTS
  Onset = 1
  Release = 1
  Cooldown = 3
  Clock <- FiveTicks
  MaxRewinds = 1
  MaxSamples = 6
SPECIFICATION Spec
INVARIANTS
  CandidateIsEpisodeStart
  FiredIsSustained
  FiringsSpaced
  SustainedIsFired
PROPERTIES
  KeepsFlagLifecycle
CHECK_DEADLOCK FALSE
