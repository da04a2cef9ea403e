SPECIFICATION Spec
CONSTANTS
  MAX_TASKS = 5
  Lockers = {1, 3, 4}
  HwUsers = {1, 4}
  HwDepths = {0, 1, 2}
  Sleepers = {3, 4}
  Waiters = {3, 4}
  Wakers = {2}
  Spawners = {1}
  Mortals = {3, 4}
  LateSpawn = FALSE
  FreeSteps = 2
  MaxDepth = 2
  MaxSpawn = 2
  MaxTime = 3
  SleepTimes = {1, 2}
  None = None
INVARIANTS LockCount HoldersRunOrWait RingIntact OneRunner NoLostWaiter VictimsStayTerminated
