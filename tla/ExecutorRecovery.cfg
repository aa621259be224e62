SPECIFICATION FairSpec
CONSTANTS
  p1 = p1
  p2 = p2
  Projects = {p1, p2}
  Parallelism = 1
  DeleteSuccessfulJobs = TRUE
  JobTTL = TRUE
  LateCleanup = FALSE
  Discoverable <- Everything
  Budget <- MCBudget
  MaxRequests = 2
  MaxDiscoveries = 0
  MaxFaults = 1
  MaxPhantoms = 0
  MaxStale = 0
PROPERTIES RunningResolves ScheduledIsServed
