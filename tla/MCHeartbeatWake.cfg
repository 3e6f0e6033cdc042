SPECIFICATION FairSpec
CHECK_DEADLOCK FALSE
CONSTANTS
    t1 = t1
    t2 = t2
    Target = {t1, t2}
    Priority = {1, 3}
    Coalesce = {0, 1}
    DefaultCoalesce = 1
    RetryDelay = 3
    MaxRequests = 3
    MaxRegistrations = 2
    MaxTroubles = 2
INVARIANTS
    TypeOK
    PendingIsArmed
    AskedIsPending
PROPERTIES
    CooldownNotPreempted
    EveryWakeAnswered
