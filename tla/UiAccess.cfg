SPECIFICATION FairSpec
CONSTANTS
  GroupIds = {"a", "b", "x", ""}
  Malformed = {"x"}
  MaxGroupsPerUser = 2
  Tabs = {"t1", "t2"}
  Replicas = {"r1", "r2"}
  RenovateJobs = {"job"}
  Setups <- MCSetups
  Claims <- MCClaims
  AllowedSets <- MCAllowedSets
  MaxVisits = 4
  MaxEvents = 1
INVARIANTS TypeOK NoFalseLoopError SomeLoginGetsThrough AccessIsExact
PROPERTY NavigationEnds
CHECK_DEADLOCK FALSE
