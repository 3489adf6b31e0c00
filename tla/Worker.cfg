CONSTANTS
  Attempts = 2
  TargetScore = 2
  MaxScore = 3
  Several = TRUE
  Flags <- MCFlags
  Handshakes <- MCHandshakes
  Unreadable <- NoLine
  Batch = 1
  MaxElapsed = 9
SPECIFICATION WorkerSpec
CHECK_DEADLOCK FALSE
INVARIANTS
  KeysAsAsked
  ExitIsExplained
  StopYieldsResult
PROPERTIES
  ProgressInTime
