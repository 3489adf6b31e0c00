\* Violated: parameters whose confirmation ran out of memory are searched with.
\* The search returns, so the system may stop.
CONSTANTS
  TargetScore = 2
  MaxScore = 2
  WithOutput = TRUE
  Faulty = FALSE
  Probes = 2
  Rates = {10}
  MaxProgress = 2
  GpuCounts = {1}
SPECIFICATION Spec
CHECK_DEADLOCK FALSE
INVARIANT
  OutOfMemoryIsUnusable
