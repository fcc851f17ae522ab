SPECIFICATION Spec
CONSTANTS
    i1 = i1
    i2 = i2
    t1 = t1
    t2 = t2
    r1 = r1
    NoClaim = NoClaim
    Rows = {r1}
    Instances = {i1}
    Ticks = {t1}
    InstanceOf <- OneTick
    BatchSize = 1
    MaxAttempts = 5
    LockTtlElapses = FALSE
    LoseReplies = FALSE
    MaxLockVersion = 6
    MaxOvertaking = 6
    MaxFaults = 0
    MaxReplays = 0
INVARIANTS
    OutageLeavesRowsPending
