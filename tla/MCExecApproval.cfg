SPECIFICATION FairSpec
CHECK_DEADLOCK FALSE
CONSTANTS
    a = a
    b = b
    prefix = prefix
    Id = {a, b}
    Input <- MCInput
    Matches <- MCMatches
    Offered <- MCOffered
    Timeout = {2}
    Grace = 1
    MaxNow = 4
    MaxRecords = 2
    MaxCalls = 2
    MaxForwards = 2
INVARIANTS
    TypeOK
    RunsAsDecided
PROPERTIES
    VerdictStands
    EveryCallAnswered
