\* Two probes, two rates of which the lower is below 80% of the higher, two
\* scores below a match and two of a match, so that the match of a second GPU
\* can be worse than that of the first; one GPU or two; matches that cannot
\* be finalised.
\* The search returns, so the system may stop.
CONSTANTS
  TargetScore = 3
  MaxScore = 4
  WithOutput = FALSE
  Faulty = TRUE
  Probes = 2
  Rates = {5, 10}
  MaxProgress = 3
  GpuCounts = {1, 2}
SPECIFICATION FairSpec
CHECK_DEADLOCK FALSE
INVARIANTS
  SkippedNeverChosen
  AnnouncedIsKept
PROPERTIES
  NoFurtherAttempt
  CancelReturns
