SPECIFICATION Spec
CONSTANTS
  Procs = {p1, p2}
  Amount = 2
  Timely = TRUE
  InOrder = TRUE
  Refuses = FALSE
  MaxAsks = 3
  MaxPanel = 1
  MaxCancels = 1
  MaxFaults = 1
  Unread = Unread
SYMMETRY Alike
CONSTRAINT Few
INVARIANTS TypeOK AskedIsCounted NotGivenUp TakenIsReal OwnBackIsBack NeverMoreThanPaid DeniedIsCancelled
PROPERTIES RowsGoForward CancelGivesBack HearingAgrees
CHECK_DEADLOCK FALSE
