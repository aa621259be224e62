SPECIFICATION Spec
CONSTANTS
  p1 = p1
  p2 = p2
  Projects = {p1, p2}
  Parallelism = 1
  DeleteSuccessfulJobs = TRUE
  JobTTL = FALSE
  LateCleanup = FALSE
  Discoverable <- AnySelection
  Budget <- MCBudget
  MaxRequests = 0
  MaxDiscoveries = 2
  MaxFaults = 1
  MaxPhantoms = 0
  MaxStale = 0
SYMMETRY Symmetry
INVARIANTS TypeOK RunningWithinParallelism RunningHasJob GaugeAgreesWithStatus
PROPERTY ImplementsLifecycle
