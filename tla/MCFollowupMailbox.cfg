SPECIFICATION FairSpec
CONSTANTS
    r1 = r1
    r2 = r2
    r3 = r3
    r4 = r4
    idA = idA
    idB = idB
    routeX = routeX
    routeY = routeY
    NoKey = NoKey
    Unkeyed = Unkeyed
    CrossRoute = CrossRoute
    NoQueue = NoQueue
    Run = {r1, r2, r3, r4}
    MessageKey <- MCMessageKey
    Route <- MCRoute
    QueueId = {q1, q2}
    ReplyRun = {p1}
    Settings <- MCKeepSettings
    ForeignRuns = FALSE
    MaxClears = 0
    MaxFailures = 1
INVARIANTS
    NoIdleQueue
PROPERTIES
    ImplementsMailbox
CHECK_DEADLOCK FALSE
