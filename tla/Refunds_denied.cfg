SPECIFICATION Spec
CONSTANTS
  Procs = {p1}
  Amount = 1
  Timely = TRUE
  InOrder = TRUE
  Refuses = TRUE
  MaxAsks = 2
  MaxPanel = 0
  MaxCancels = 1
  MaxFaults = 0
  Unread = Unread


PROPERTIES DeniedIsRead
CHECK_DEADLOCK FALSE
