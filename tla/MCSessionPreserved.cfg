SPECIFICATION Spec
CHECK_DEADLOCK FALSE
CONSTANTS
    r1 = r1
    r2 = r2
    c1 = c1
    s1 = s1
    s2 = s2
    Run = {r1, r2, c1}
    CronRun = {c1}
    Session = {s1, s2}
    SessionOf <- MCSessionOf
    RequestedLane <- MCRequestedLane
    GlobalLane = {"main", "cron", "nested"}
    Concurrency <- MCConcurrency
    MaxRestarts = 1
INVARIANTS
    QueuedRunsPreserved
