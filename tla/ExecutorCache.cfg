SPECIFICATION Spec
CONSTANTS
  p1 = p1
  p2 = p2
  Projects = {p1, p2}
  Parallelism = 1
  DeleteSuccessfulJobs = TRUE
  JobTTL = FALSE
  LateCleanup = FALSE
  Discoverable <- AnySelection
  Budget <- MCBudget
  MaxRequests = 1
  MaxDiscoveries = 1
  MaxFaults = 0
  MaxPhantoms = 1
  MaxStale = 1
SYMMETRY Symmetry
INVARIANTS PriorityOnlyWhileScheduled PriorityRespected RunningHasJob
