SPECIFICATION MCSpec
CONSTANTS
  Locks = {a, b}
  MaxStack = 7
  MaxNest = 2
  TICKETS = 4
  MAILBOX_SIZE = 2
  Mails = {z, m}
  Zero = z
  Posters = {p1, p2}
  Fetchers = {f1, f2}
  NoTask = NoTask
  UART_MAILBOX_SIZE = 2
  FIFO = 2
  MaxChars = 8
  Window = 8
  LineErrors = TRUE
INVARIANTS IrqLocksRight MailboxRight  NoTaskLeftBlocked
PROPERTIES ImplementsQueue AllHandledWithRoom
CHECK_DEADLOCK FALSE
