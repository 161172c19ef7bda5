SPECIFICATION MCSpec
CONSTANTS
  MAX_TASKS = 3
  MAX_PRIO = 1
  NORMAL_PRIO = 1
  TIMER_VECTOR = 32
  MayBlock = FALSE
  LoadFirst = TRUE
  Blocks = {1, 2, 3}
  HeapStart = 2
  HeapMax = 6
  WORD = 8
  MaxIncr = 2
  MaxUsers = 1
  BUDDY_MIN = 0
  BUDDY_ALLOC = 3
  BUDDY_MAX = 5
  NODE_EXP = 1
  Requests = {2, 3, 4}
  VMA_KERN_MIN = 2
  VMA_KERN_MAX = 11
  BootRegions <- MCBootRegions
  PAGE_FRAMES = 7
  MaxDepth = 4
  Users = {t0, t1, t2}
  Boot = t0
  FRAMES = 7
  ENTRIES = 2
  KernelTables = {1}
  CopyMayFail = FALSE
INVARIANTS FpuIsMine  NestedCallsBalanced SpacesSeparate FramesAccounted
CHECK_DEADLOCK FALSE
