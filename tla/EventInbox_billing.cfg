SPECIFICATION Spec
CONSTANTS
    Processes = {p1, p2}
    Events = {e1, e2, e3}
    NoEvent = NoEvent
    Ours = {e1, e2, e3}
    Billing = TRUE
    Late = FALSE
    Batch = 2
    AttemptsMax = 2
    Lease = 2
    ParkedFor = 1
    WaitMax = 0
    Keep = 0
    Hold = 0
    NamedWaits = {2}
    MaxStops = 0
SYMMETRY Alike
INVARIANTS TypeOK NothingMissed GivenUpForCause
PROPERTIES Promise
