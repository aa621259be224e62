SPECIFICATION Spec
CONSTANTS
  cron = cron
  ui1 = ui1
  ui2 = ui2
  CronCallers = {cron}
  UiCallers = {ui1, ui2}
  MaxClock = 2
  MaxFaults = 0
CHECK_DEADLOCK FALSE
SYMMETRY UiSymmetry
PROPERTY CleanupDeletesOnlyOlder
