SPECIFICATION FairSpec
CONSTANTS
  Users = {u1}
  Printers = {u1, terminal}
  Warners = {u1}
  Terminal = terminal
  composer_task = composer
  int_worker = worker
  MouseMoves = FALSE
  Addresses = {a1}
  Console = console
  Cursor = cursor
  MAX_WINDOWS = 1
  ZIndices = {500}
  None = None
INVARIANTS EditsCounted
PROPERTIES ViewPromise EditsShown
