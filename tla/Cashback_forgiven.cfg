SPECIFICATION Spec
CONSTANTS
    Orders = {o1, o2}
    Extras = {x1}
    Earnings = {2}
    Spends = {1, 2}
    Validities <- Short
    MinDays = 2
    BalanceMax = 2
    MaxNow = 2
SYMMETRY Alike
PROPERTY ForgivenNotRecreated
CHECK_DEADLOCK FALSE
