SPECIFICATION Spec
CONSTANTS
  p1 = p1
  p2 = p2
  c1 = c1
  c2 = c2
  Procs <- MCProcs
  Charges <- MCCharges
  Kinds = {"ensure", "unpaid"}
  Totals = {1}
  FirstTotals = {1}
  FirstWords = {"PENDING", "AWAITING_RISK_ANALYSIS"}
  Moves <- PaidMoves
  ShopStatuses = {}
  Timely = TRUE
  Restores = FALSE
  MaxAge = 0
  MaxAsks = 2
  MaxFaults = 0
  NoCharge = NoCharge
  Nobody = Nobody
  Unanswered = Unanswered
SYMMETRY Symmetry
PROPERTIES ReviewNotCancelledOver
CHECK_DEADLOCK FALSE
