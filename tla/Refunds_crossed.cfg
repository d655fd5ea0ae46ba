SPECIFICATION Spec
CONSTANTS
  Procs = {p1, p2}
  Amount = 3
  Timely = TRUE
  InOrder = TRUE
  Refuses = FALSE
  MaxAsks = 0
  MaxPanel = 2
  MaxCancels = 0
  MaxFaults = 0
  Unread = Unread
INVARIANTS SaidBackIsBack
CHECK_DEADLOCK FALSE
