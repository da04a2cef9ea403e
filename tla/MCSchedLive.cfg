SPECIFICATION FairSpec
CONSTANTS
  MAX_TASKS = 4
  Lockers = {1}
  HwUsers = {1}
  HwDepths = {0}
  Sleepers = {3}
  Waiters = {}
  Wakers = {}
  Spawners = {1}
  Mortals = {3}
  LateSpawn = FALSE
  FreeSteps = 1
  MaxDepth = 1
  MaxSpawn = 1
  MaxTime = 2
  SleepTimes = {1}
  None = None
PROPERTIES ReadyRuns SleeperWakes ExitCompletes
