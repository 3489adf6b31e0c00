\* Plain addresses with progress events; three lanes race for two slots.
\* The call returns, so the system may stop.
CONSTANTS
  Size = 3
  MaxScore = 2
  MaxRounds = 3
  Contract = FALSE
  ProgressOn = TRUE
SPECIFICATION Spec
CHECK_DEADLOCK FALSE
INVARIANTS
  OffsetMatchesAddress
  BestIsReported
  NothingHeldAfterReturn
PROPERTIES
  AttemptsCountKeys
  AbstractSpec
