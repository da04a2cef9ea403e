\* Four frames for two processes; an arena of up to five blocks.
SPECIFICATION MCSpec
CONSTANTS
  Slots = {p1, p2}
  KERNEL = kernel
  Ram = {1, 2, 3, 4}
  KernelFrames = {0}
  PAGE_SIZE = 16
  PT_ENTRIES = 4
  Images <- MCImages
  StackSizes = {12}
  STACK_TOP = 192
  HEAP_LIMIT = 80
  MMAP_START = 128
  MMAP_LIMIT = 160
  KERNEL_PAGE = 12
  MMIO_PAGES = 1
  BrkAddresses <- MCBrkAddresses
  MmapAddresses <- MCMmapAddresses
  Lengths <- MCLengths
  NONE = none
  KHEAP_START = 8
  KHEAP_END = 36
  LEFT_EDGE_SIZE = 2
  RIGHT_EDGE_SIZE = 1
  HEAP_VOID_BUCKET_COUNT = 6
  Sizes = {1, 2, 5}
  Alignments = {2, 4, 8}
SYMMETRY SlotSymmetry
INVARIANTS   ArenaSound NothingWasted
PROPERTIES AllocatorPromise
CHECK_DEADLOCK FALSE
