\* Violated: without progress events a stop or a match goes unnoticed.
\* The run may return, so the system may stop.
CONSTANTS
  TargetScore = 2
  MaxScore = 2
  Devices = {g0, g1}
  WithOutput = FALSE
  Faulty = FALSE
  ProgressOn = FALSE
SPECIFICATION FairSpec
CHECK_DEADLOCK FALSE
PROPERTY
  WorkerExits
