\* Two GPUs, progress events on; two scores below a match, so that a worse
\* candidate can follow a better one, and two of a match; finalising and
\* writing may fail.
\* The run returns, so the system may stop.
CONSTANTS
  TargetScore = 3
  MaxScore = 4
  Devices = {g0, g1}
  WithOutput = TRUE
  Faulty = TRUE
  ProgressOn = TRUE
SPECIFICATION FairSpec
CHECK_DEADLOCK FALSE
INVARIANTS
  CallbackSerialised
  OwnCancelIsNoError
  FailureIsReturned
  BestIsReturned
PROPERTIES
  QuietAfterReturn
  RunReturns
