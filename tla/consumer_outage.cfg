SPECIFICATION Spec
CONSTANTS
    e1 = e1
    bad = bad
    old = old
    p1 = p1
    p2 = p2
    s1 = s1
    s2 = s2
    s3 = s3
    NoEvent = NoEvent
    Events = {e1}
    Invalid = {}
    Legacy = {}
    Processes = {p1}
    Slots = {s1, s3}
    ProcessOf <- OneProcess
    MaxAttempts = 2
    RecordFails = TRUE
    MaxCopies = 1
    MaxRequeues = 0
    MaxFaults = 1
INVARIANTS
    FailedDeliveriesAreNacked
CHECK_DEADLOCK FALSE
