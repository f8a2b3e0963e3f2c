\* A producer and two consumers on one scheduler with co-issue.
CONSTANTS
  Ctas = {0}
  Warps = {0, 1, 2}
  Barriers = {0}
  Producers = 1
  Depth = 2
  Lanes = {1, 2}
  MaxActive = 2
  Programs <- MCPrograms
  Modes <- MCModes
  Grid = 1
SPECIFICATION FairSpec
INVARIANTS
  PipelineCountExact
  NoHazardInFlight
  IssuesStaySafe
  FrontEndInStep
PROPERTIES
  Terminates
