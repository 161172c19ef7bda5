SPECIFICATION FairSpec
CONSTANTS
  MAX_TASKS = 4
  MAX_PRIO = 2
  NORMAL_PRIO = 1
  TIMER_VECTOR = 32
INVARIANTS TypeOK QueuesAreLists BitmapExact  
PROPERTIES StrictPriority NoEarlyReuse RoundRobin
