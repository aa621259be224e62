SPECIFICATION Spec
CONSTANTS
  p1 = p1
  p2 = p2
  Projects = {p1, p2}
  Parallelism = 1
  DeleteSuccessfulJobs = FALSE
  JobTTL = FALSE
  LateCleanup = FALSE
  Discoverable <- AnySelection
  Budget <- MCBudget
  MaxRequests = 0
  MaxDiscoveries = 2
  MaxFaults = 0
  MaxPhantoms = 0
  MaxStale = 0
INVARIANT JobsWithinParallelism
