SPECIFICATION FairSpinSpec
CONSTANTS
  MAX_TASKS = 4
  MAX_PRIO = 1
  NORMAL_PRIO = 1
  TIMER_VECTOR = 32
  TICKETS = 4
  MaxNest = 2
  LockModes = {"task", "fault"}
CHECK_DEADLOCK FALSE
INVARIANTS MutualExclusion TicketsConsecutive
PROPERTIES NoOvertaking GrantedToTasks
