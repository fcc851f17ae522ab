SPECIFICATION Spec
CONSTANTS
    e1 = e1
    bad = bad
    old = old
    p1 = p1
    p2 = p2
    s1 = s1
    s2 = s2
    s3 = s3
    NoEvent = NoEvent
    Events = {e1}
    Invalid = {}
    Legacy = {}
    Processes = {p1, p2}
    Slots = {s1, s2}
    ProcessOf <- TwoProcesses
    MaxAttempts = 3
    RecordFails = TRUE
    MaxCopies = 2
    MaxRequeues = 1
    MaxFaults = 4
INVARIANTS
    TypeOK
    PersistedOnce
    NothingLost
    RetryBudgetIsDurable
CHECK_DEADLOCK FALSE
