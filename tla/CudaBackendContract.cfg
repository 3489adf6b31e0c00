\* Contract addresses: the unfused pipeline step, transform, score.
\* The call returns, so the system may stop.
CONSTANTS
  Size = 2
  MaxScore = 2
  MaxRounds = 3
  Contract = TRUE
  ProgressOn = FALSE
SPECIFICATION Spec
CHECK_DEADLOCK FALSE
INVARIANTS
  OffsetMatchesAddress
