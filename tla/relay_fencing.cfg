SPECIFICATION FairSpec
CONSTANTS
    i1 = i1
    i2 = i2
    t1 = t1
    t2 = t2
    r1 = r1
    NoClaim = NoClaim
    Rows = {r1}
    Instances = {i1}
    Ticks = {t1, t2}
    InstanceOf <- OneProcess
    BatchSize = 1
    MaxAttempts = 2
    LockTtlElapses = TRUE
    LoseReplies = FALSE
    MaxLockVersion = 8
    MaxOvertaking = 3
    MaxFaults = 1
    MaxReplays = 1
INVARIANTS
    TypeOK
    OneOwner
PROPERTIES
    NoLostFailure
    SentIsFinal
    EventuallySettled
