SPECIFICATION MCSpec
CONSTANTS
  Tasks = {t1, t2}
  Makers = {t1}
  Names = {na, nb}
  MAX_DEPTH = 2
  NODES = 3
  SLOTS = 3
  Fds = {f1, f2}
  MAX_DATAENTRIES = 2
  BLOCKS = 2
  MAX_LENGTH = 4
  MAX_SIZE = 3
  Bytes = {1, 2}
  Truncate = FALSE
  AllocMayFail = FALSE
  WriteModule = FALSE
  Writers = {w1, w2}
  KMSG_SIZE = 4
  Chars = {1, 2}
  MAX_LOG = 5
  MAX_READ = 3
  COLS = 4
  ROWS = 2
  TAB = 2
  Printable = {"blank", "a"}
  BLANK = "blank"
  MAX_LINES = 3
  HALF_BITS = 3
  Dividends <- MCDividends
  Divisors <- MCDivisors
  WORD_BITS = 6
  LIMIT_BITS = 5
  Strings <- MCStrings
  ReadBases = {0, 10, 16}
  Widths = {0, 3}
INVARIANTS LookupsRight FileRight  ScreenIsWindow DivisionRight NumbersRight
SYMMETRY MCSymmetry
CHECK_DEADLOCK FALSE
