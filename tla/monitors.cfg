SPECIFICATION Spec
CONSTANTS
  s1 = s1
  s2 = s2
  c1 = c1
  c2 = c2
  e1 = e1
  e2 = e2
  None = None
  Sessions = {s1, s2}
  Calls = {c1, c2}
  Faces <- FacesMC
  CaptureSets <- CaptureSetsMC
  Answers = {"seeking_help", "not json"}
  Embedders = {e1, e2}
  Deployments <- DeploymentsMC
  MatchThreshold = 120
  EnrolmentConsistency = 140
  MinCaptures = 3
  Window = 3
  MismatchesRequired = 2
  UnobservableRun = 2
  RecentOutcomes = 4
  HelpWindow = 3
  HelpRequired = 2
  RecentLabels = 4
  RetentionDays = 2
  TemplateDays = 1
  TranscriptDays = 1
  RestoredPerSession = 2
SYMMETRY Slots
INVARIANT SustainedIsFlagged EnrolmentIsStored EvidenceResolves BoardShowsStoredFlags NothingExpiredIsServed
PROPERTY MismatchIsOnRecord HelpIsLegible
CHECK_DEADLOCK FALSE
