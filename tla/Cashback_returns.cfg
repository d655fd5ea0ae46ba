SPECIFICATION Spec
CONSTANTS
    Orders = {o1, o2, o3}
    Extras = {x1}
    Earnings = {2}
    Spends = {1, 2}
    Validities <- NoExpiry
    MinDays = 2
    BalanceMax = 1
    MaxNow = 0
SYMMETRY Alike
INVARIANT CancellationFits
CHECK_DEADLOCK FALSE
