SPECIFICATION FairSpinSpec
CONSTANTS
  MAX_TASKS = 3
  MAX_PRIO = 1
  NORMAL_PRIO = 1
  TIMER_VECTOR = 32
  TICKETS = 3
  MaxNest = 1
  LockModes = {"task", "fault"}
CHECK_DEADLOCK FALSE
PROPERTY LockGranted
