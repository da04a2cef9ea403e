\* A root of four slots that a long name fills up.
SPECIFICATION MCSpec
CONSTANTS
  Sectors <- MCSectors
  Values = {blank, filled}
  Requests <- MCRequests
  DISK_MAX_CACHE_BLOCK = 2
  Partitions = {boot, disk}
  BOOT = boot
  Infos = {i1, i2, i3}
  NULL = null
  MaxLost = 2
  N = 7
  EPC = 4
  a = a
  b = b
  Names = {a, b}
  OldFile = b
  Parts <- MCParts
  Bytes = {x}
  Writes <- MCWrites
  DirNames = {a, b}
PROPERTY CreatedIsListed
CHECK_DEADLOCK FALSE
