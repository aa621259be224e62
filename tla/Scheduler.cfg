SPECIFICATION FairSpec
CONSTANTS
  RenovateJobs <- MCRenovateJobs
  Schedules = {"hourly", "daily", "bad"}
  Parseable = {"hourly", "daily"}
  MaxOverlap <- MCMaxOverlap
  MaxEdits = 2
  MaxRestarts = 1
INVARIANTS TypeOK NoLeakedCronEntry
PROPERTIES SettledSchedulesAreKept SchedulesFollowSpec HealthFollowsSpec
CHECK_DEADLOCK FALSE
