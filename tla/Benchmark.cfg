\* Two candidates and two rates, the lower one below 80% of the higher, so
\* that a probe or a confirmation may be given up; one GPU, or two whose
\* progress may overtake; a search that uses the cache at the same time.
\* The process may exit, so the system may stop.
CONSTANTS
  Processes = {bench, search}
  Others = {search}
  Keys <- MCKeys
  Params <- MCParams
  Stored <- MCStored
  Torn <- MCTorn
  Candidates = 2
  Confirms = 2
  Rates = {5, 10}
  Duration = 2
  GpuCounts = {1, 2}
  Bench = bench
SPECIFICATION FairSpec
CHECK_DEADLOCK FALSE
INVARIANTS
  ChosenStoodTheTest
  CacheHoldsMeasured
  QuietCacheKeepsAll
PROPERTIES
  BarFallsOnlyToLateProgress
  BenchEnds
