SPECIFICATION Spec
CONSTANTS
    i1 = i1
    i2 = i2
    t1 = t1
    t2 = t2
    r1 = r1
    r2 = r2
    NoClaim = NoClaim
    Rows = {r1, r2}
    Instances = {i1, i2}
    Ticks = {t1, t2}
    InstanceOf <- TwoProcesses
    BatchSize = 2
    MaxAttempts = 2
    LockTtlElapses = FALSE
    LoseReplies = TRUE
    MaxLockVersion = 2
    MaxOvertaking = 2
    MaxFaults = 1
    MaxReplays = 1
SYMMETRY Symmetry
INVARIANTS
    SentOnlyAfterConfirm
    OwnerReadCurrentAttempts
    RetryBudget
PROPERTIES
    ImplementsOutbox
