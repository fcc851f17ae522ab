SPECIFICATION ProcessFairSpec
CONSTANTS
    c1 = c1
    c2 = c2
    None = None
    Callers <- MCCallers
    MaxOutages = 0
    MaxTimeouts = 0
    Tracing = TRUE
INVARIANTS
    TopologyBeforeConsumer
