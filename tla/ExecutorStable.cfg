SPECIFICATION FairSpec
CONSTANTS
  p1 = p1
  p2 = p2
  Projects = {p1, p2}
  Parallelism = 1
  DeleteSuccessfulJobs = FALSE
  JobTTL = TRUE
  LateCleanup = TRUE
  Discoverable <- Everything
  Budget <- MCBudget
  MaxRequests = 3
  MaxDiscoveries = 0
  MaxFaults = 0
  MaxPhantoms = 0
  MaxStale = 0
INVARIANT JobsWithinParallelism
PROPERTY OldGenerationsCollected
