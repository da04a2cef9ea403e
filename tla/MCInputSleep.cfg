SPECIFICATION MCSpec
CONSTANTS
  Readers = {r1}
  Terminal = terminal
  Keys = {a}
  INPUT_STREAMS = 2
  INPUT_QUEUE_SIZE = 2
  Events = {e1, e2}
  None = None
  SIZE = 2
  Elements = {kbd}
INVARIANT NoSleepOnInput
