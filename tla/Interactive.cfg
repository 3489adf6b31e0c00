CONSTANTS
  Capacity = 1
  Kept = 1
  Attempts = 2
  TargetScore = 2
  MaxScore = 2
  Several = FALSE
  MaxBacks = 2
  Machines <- MCMachines
  Malformed <- MCMalformed
  Requests <- MCRequests
SPECIFICATION InteractiveSpec
CHECK_DEADLOCK FALSE
INVARIANTS
  ArgsAreTheAnswers
  ChosenAreSearched
  OutcomeIsPrinted
PROPERTIES
  StopReturns
  SearchEnds
