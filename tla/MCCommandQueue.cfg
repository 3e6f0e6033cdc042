SPECIFICATION FairSpec
CONSTANTS
    t1 = t1
    t2 = t2
    t3 = t3
    main = main
    w1 = w1
    Task = {t1, t2, t3}
    Lane = {main}
    LaneOf <- MCLaneOf
    Waiter = {w1}
    ConcurrencyValues = {0, 2}
    MaxGeneration = 2
INVARIANTS
    TypeOK
    NoIdleSlot
    NoCommandLost
    ActiveIsCurrent
    FifoOrder
    WaitersTold
PROPERTIES
    CapRespected
    EveryoneAnswered
CHECK_DEADLOCK FALSE
