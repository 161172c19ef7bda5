SPECIFICATION FairSpec
CONSTANTS
  MAX_TASKS = 3
  MAX_PRIO = 2
  NORMAL_PRIO = 1
  TIMER_VECTOR = 123
PROPERTIES
  RoundRobin
