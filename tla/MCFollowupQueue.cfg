SPECIFICATION Spec
CONSTANTS
    r1 = r1
    r2 = r2
    r3 = r3
    r4 = r4
    idA = idA
    idB = idB
    routeX = routeX
    routeY = routeY
    NoKey = NoKey
    Unkeyed = Unkeyed
    CrossRoute = CrossRoute
    NoQueue = NoQueue
    Run = {r1, r2, r3}
    MessageKey <- MCMessageKey
    Route <- MCRoute
    QueueId = {q1, q2, q3}
    ReplyRun = {p1}
    Settings <- MCSettings
    ForeignRuns = TRUE
    MaxClears = 1
    MaxFailures = 1
SYMMETRY MCSymmetry
INVARIANTS
    TypeOK
    AnsweredOnce
    NoTwinQueued
CHECK_DEADLOCK FALSE
