SPECIFICATION SemSpec
CONSTANTS
  MAX_TASKS = 5
  MAX_PRIO = 1
  NORMAL_PRIO = 1
  TIMER_VECTOR = 32
  Uses <- MCPool
CHECK_DEADLOCK TRUE
INVARIANT NoLostWakeup
