SPECIFICATION FairSpec
CONSTANTS
    e1 = e1
    bad = bad
    old = old
    p1 = p1
    p2 = p2
    s1 = s1
    s2 = s2
    s3 = s3
    NoEvent = NoEvent
    Events = {e1, bad, old}
    Invalid = {bad}
    Legacy = {old}
    Processes = {p1}
    Slots = {s1, s3}
    ProcessOf <- OneProcess
    MaxAttempts = 2
    RecordFails = FALSE
    MaxCopies = 1
    MaxRequeues = 1
    MaxFaults = 2
PROPERTIES
    EventuallySettled
    ImplementsIntake
CHECK_DEADLOCK FALSE
