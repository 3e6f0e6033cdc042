SPECIFICATION Spec
CONSTANTS
    d1 = d1
    d2 = d2
    NoEntry = NoEntry
    Delivery = {d1}
    BestEffort = {d1}
    OnError = {d1}
    MaxRetries = 2
    MaxCrashes = 1
INVARIANTS
    PartialFailureKept
CHECK_DEADLOCK FALSE
