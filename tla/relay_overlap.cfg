SPECIFICATION Spec
CONSTANTS
    i1 = i1
    i2 = i2
    t1 = t1
    t2 = t2
    r1 = r1
    NoClaim = NoClaim
    Rows = {r1}
    Instances = {i1, i2}
    Ticks = {t1, t2}
    InstanceOf <- TwoProcesses
    BatchSize = 1
    MaxAttempts = 3
    LockTtlElapses = FALSE
    LoseReplies = FALSE
    MaxLockVersion = 3
    MaxOvertaking = 3
    MaxFaults = 0
    MaxReplays = 0
INVARIANTS
    DisjointBatches
