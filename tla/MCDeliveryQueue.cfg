SPECIFICATION Spec
CONSTANTS
    d1 = d1
    d2 = d2
    NoEntry = NoEntry
    Delivery = {d1, d2}
    BestEffort = {d2}
    OnError = {d2}
    MaxRetries = 2
    MaxCrashes = 3
INVARIANTS
    TypeOK
    NothingLost
    

    
CHECK_DEADLOCK FALSE
