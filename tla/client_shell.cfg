\* Two warnings; either six blocked actions and a restart of the gateway, or
\* two other frames; the page is loaded once more.
CONSTANTS
  Allowance = 2
  MaxStrikes = 2
  Cooldown = 1
  Courses <- TwoCourses
  MaxAttempts = 6
  MaxClock = 1
SPECIFICATION Spec
INVARIANTS ConsentBeforeCapture WarnedThenFlagged
PROPERTY StartsOrSaysSo
CHECK_DEADLOCK FALSE
