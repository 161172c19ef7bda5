SPECIFICATION HeapSpec
CONSTANTS
  MAX_TASKS = 3
  MAX_PRIO = 1
  NORMAL_PRIO = 1
  TIMER_VECTOR = 32
  Blocks = {1, 2, 3}
  HeapStart = 2
  HeapMax = 6
  WORD = 8
  MaxIncr = 2
  MaxUsers = 2
INVARIANT DescriptorMine
CHECK_DEADLOCK FALSE
