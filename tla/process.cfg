SPECIFICATION ProcessFairSpec
CONSTANTS
    c1 = c1
    c2 = c2
    None = None
    Callers <- MCCallers
    MaxOutages = 3
    MaxTimeouts = 1
    Tracing = TRUE
INVARIANTS
    ProcessTypeOK
    OneConnection
    RefusedNeverRuns
    LeaksOnlyAfterTimeout
PROPERTIES
    CallersReturn
    DlqConsumerReturns
    RelayReconnects
    RecordsReturn
    ImplementsChannel
    OnlyRestartUnsticks
