SPECIFICATION Spec
CONSTANTS
  MAX_TASKS = 7
  Lockers = {4}
  HwUsers = {}
  HwDepths = {0, 1, 2}
  Sleepers = {}
  Waiters = {1}
  Wakers = {2}
  Spawners = {1}
  Mortals = {5}
  LateSpawn = TRUE
  FreeSteps = 2
  MaxDepth = 1
  MaxSpawn = 4
  MaxTime = 3
  SleepTimes = {1, 2}
  None = None
INVARIANTS VictimsStayTerminated
