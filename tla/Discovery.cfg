SPECIFICATION FairSpec
CONSTANTS
  cron = cron
  ui1 = ui1
  CronCallers = {cron}
  UiCallers = {ui1}
  MaxClock = 3
  MaxFaults = 2
CHECK_DEADLOCK FALSE
INVARIANT TypeOK
PROPERTIES ResultNotOlderThanOwn EveryCallerFinishes SuccessIsStored
