SPECIFICATION MCSpec
CONSTANTS
  FRAMES = 10
  Clients = {c1, c2}
  Boot = c1
  MaxRequest = 3
  Available = {0, 1, 2, 3, 4, 6, 7, 8, 9}
  MbInfo = 1
  ModList = {1}
  Modules = {3}
  KERNEL_START = 2
  KERNEL_END = 3
  None = None
  BUDDY_MIN = 1
  BUDDY_ALLOC = 3
  BUDDY_MAX = 5
  PREFIX = 1
  Sizes = {1, 2, 12}
  Limit = 16
  Nodes = 4
  VMA_KERN_MIN = 2
  VMA_KERN_MAX = 10
  AllocSizes = {1, 2}
  Regions <- MCRegions
  MiddleFreed = FALSE
INVARIANTS FramesOwned NoDrift  VmaListRight
PROPERTIES  SearchComplete 
CHECK_DEADLOCK TRUE
