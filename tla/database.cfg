SPECIFICATION MessagesSpec
CONSTANTS
    c1 = c1
    c2 = c2
    c3 = c3
    Calls <- MCCalls
    Requested <- MCRequested
    MaxId = 2
    MaxTick = 2
    TicksPerMs = 2
    DefaultLimit = 1
    Ceiling = 2
SYMMETRY MCSymmetry
INVARIANTS
    MessagesTypeOK
    StatementsAccepted
    LedgerTellsSchema
    ServicesFitSchema
    NeverTwice
    WalkMissesOnlyTies
    KeepsItsPlace
PROPERTIES
    AloneChangesOnlyItsField
