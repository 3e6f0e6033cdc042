SPECIFICATION FairDueSpec
CHECK_DEADLOCK FALSE
CONSTANTS
    grid = grid
    once = once
    beat = beat
    Job = {grid, once, beat}
    Kind <- MCKind
    NoStore = NoStore
    KeepAfterRun = {}
    Stored = {{grid}, {once}, {beat}}
    FirstAt = {1}
    Outcome = {"ok", "error"}
    Period = 2
    Backoff = 1
    MaxAttempts = 1
    Stuck = 1
    MaxImmediate = 1
    Stagger = 1
    Concurrency = 1
    MaxNow = 2
    MaxService = 2
    MaxOps = 1
CONSTRAINT
    NotShared
INVARIANTS
    TypeOK
    OneRunAtATime
    JobsKept
PROPERTIES
    PassedSlotKept
    DueJobsRun
