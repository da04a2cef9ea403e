\* Three sectors; six clusters of seven slots; two partitions.
SPECIFICATION MCSpec
CONSTANTS
  Sectors <- MCSectors
  Values = {blank, filled}
  Requests <- MCRequests
  DISK_MAX_CACHE_BLOCK = 2
  Partitions = {boot, disk}
  BOOT = boot
  Infos = {i1, i2, i3}
  NULL = null
  MaxLost = 2
  N = 6
  EPC = 7
  a = a
  b = b
  Names = {a, b}
  OldFile = b
  Parts <- MCParts
  Bytes = {x}
  Writes <- MCWrites
  DirNames = {a}
INVARIANTS OwnersDisjoint  
 
CHECK_DEADLOCK FALSE
