SPECIFICATION LiveSpec
CONSTANTS
    Processes = {p1, p2}
    Events = {e1, e2}
    NoEvent = NoEvent
    Ours = {e1}
    Billing = FALSE
    Late = TRUE
    Batch = 1
    AttemptsMax = 2
    Lease = 1
    ParkedFor = 1
    WaitMax = 1
    Keep = 1
    Hold = 1
    NamedWaits = {}
    MaxStops = 1
PROPERTIES NeverAgain EventSettles
