SPECIFICATION FairSemSpec
CONSTANTS
  MAX_TASKS = 4
  MAX_PRIO = 2
  NORMAL_PRIO = 1
  TIMER_VECTOR = 32
  Uses <- MCUses
CHECK_DEADLOCK TRUE
INVARIANTS  OneUnitNotLost
PROPERTIES FifoOrder Handover
