SPECIFICATION MCFairSpec
CONSTANTS
  Readers = {r1, r2}
  Terminal = terminal
  Keys = {a}
  INPUT_STREAMS = 3
  INPUT_QUEUE_SIZE = 2
  Events = {e1, e2, e3}
  None = None
  SIZE = 4
  Elements = {kbd, mouse}
INVARIANTS RefsMatchUsers EventsLive WaitersFound PolledReadReturns NoSleepingOnWork
PROPERTIES  ReadReturns QueuePromise
