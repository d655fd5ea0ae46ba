SPECIFICATION Spec
CONSTANTS
    Orders = {o1, o2, o3}
    Extras = {x1}
    Earnings = {2}
    Spends = {1, 2}
    Validities <- ShortOrNone
    MinDays = 2
    BalanceMax = 1
    MaxNow = 2
SYMMETRY Alike
CONSTRAINT Small
INVARIANTS TypeOK BooksHold LotsSound EarnedOnce
PROPERTIES VoidStays ExpiredNotRevived
CHECK_DEADLOCK FALSE
