SPECIFICATION ClaimsSpec
CONSTANTS
  p1 = p1
  p2 = p2
  c1 = c1
  c2 = c2
  Procs <- MCProcs
  Charges <- MCCharges
  Kinds = {"ensure", "fee", "customer", "shop", "read", "hear", "recheck"}
  Totals = {1, 2}
  FirstTotals = {1}
  FirstWords = {"PENDING"}
  Moves <- PaidMoves
  ShopStatuses = {}
  Timely = TRUE
  Restores = FALSE
  MaxAge = 0
  MaxAsks = 3
  MaxFaults = 2
  NoCharge = NoCharge
  Nobody = Nobody
  Unanswered = Unanswered
  Talks <- MCProcs
  Terms = {monthly, yearly}
  NoTerms = NoTerms
  InTime = TRUE
  NoTalk = NoTalk
  MaxChoices = 2
  MaxCoupons = 1
  MaxRemovals = 1
  MaxLapses = 1
CONSTRAINT Few
SYMMETRY AllAlike
INVARIANTS PaidIsTold QuietAgrees PageTypeOK OneStanding RowTells NothingUnnamed
PROPERTIES NoSecondPayable RowLeavesOnAsaasWord ActiveByItsOwn FreeMonthIsFree
CHECK_DEADLOCK FALSE
