SPECIFICATION FairSpec
CONSTANTS
  p1 = p1
  p2 = p2
  c1 = c1
  c2 = c2
  Procs <- MCProcs
  Charges <- MCCharges
  Kinds = {"ensure", "shop", "hear", "recheck"}
  Totals = {1}
  FirstTotals = {1}
  FirstWords = {"PENDING"}
  Moves <- PaidMoves
  ShopStatuses = {}
  Timely = TRUE
  Restores = FALSE
  MaxAge = 0
  MaxAsks = 2
  MaxFaults = 1
  NoCharge = NoCharge
  Nobody = Nobody
  Unanswered = Unanswered
PROPERTIES MoneyAccounted CancelledMoneyKept CancelledRowEnds
CHECK_DEADLOCK FALSE
