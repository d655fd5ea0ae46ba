SPECIFICATION Spec
CONSTANTS
  p1 = p1
  p2 = p2
  c1 = c1
  c2 = c2
  Procs <- MCProcs
  Charges <- MCCharges
  Kinds = {"ensure", "shop", "hear", "recheck", "read", "fee", "unpaid"}
  Totals = {1}
  FirstTotals = {1}
  FirstWords = {"PENDING", "AWAITING_RISK_ANALYSIS"}
  Moves <- SlowMoves
  ShopStatuses = {"OUT_FOR_DELIVERY"}
  Timely = FALSE
  Restores = TRUE
  MaxAge = 2
  MaxAsks = 3
  MaxFaults = 1
  NoCharge = NoCharge
  Nobody = Nobody
  Unanswered = Unanswered
CONSTRAINT Apart
SYMMETRY Symmetry
INVARIANTS TypeOK OneLiveRow StrayApart
PROPERTIES MoneyNeverGoesBack UnpaidIsSure
CHECK_DEADLOCK FALSE
