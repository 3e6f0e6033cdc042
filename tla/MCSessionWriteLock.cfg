SPECIFICATION FairSpec
CONSTANTS
    first = first
    second = second
    a1 = a1
    a2 = a2
    b = b
    None = None
    Process = {first, second}
    Pid = {1, 2}
    Gateway = {second}
    Call = {a1, a2, b}
    ProcessOf <- MCProcessOf
    Reentrant = {a1, b}
INVARIANTS
    TypeOK
    LiveLockKept
    OneWriter
    RefsCounted
PROPERTY
    StaleLockReclaimed
CHECK_DEADLOCK FALSE
