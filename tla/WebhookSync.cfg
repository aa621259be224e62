SPECIFICATION FairSpec
CONSTANTS
  NumRepos = 2
  Configs <- MCConfigs
  Base <- MCBase
  InitialTopics <- MCInitialTopics
  PageLimit = 1
  MaxCycles = 2
  MaxTopics = 1
  MaxEvents = 2
INVARIANTS TypeOK NoDuplicateHooks ForeignHooksUntouched
PROPERTIES HooksConverge OptedOutReposCleanedUp
CHECK_DEADLOCK FALSE
