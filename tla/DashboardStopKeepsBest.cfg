CONSTANTS
  Capacity = 1
  Kept = 1
  Attempts = 2
  TargetScore = 2
  MaxScore = 2
  Several = FALSE
SPECIFICATION Spec
CHECK_DEADLOCK FALSE
INVARIANT StopKeepsBest
