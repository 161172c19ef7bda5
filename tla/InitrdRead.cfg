SPECIFICATION InitrdSpec
CONSTANTS
  Fds = {f1, f2}
  MAX_DATAENTRIES = 2
  BLOCKS = 2
  MAX_LENGTH = 4
  MAX_SIZE = 3
  Bytes = {1, 2}
  Truncate = FALSE
  AllocMayFail = FALSE
  WriteModule = FALSE
INVARIANT ReadRight
CHECK_DEADLOCK FALSE
