SPECIFICATION RunningSpec
CONSTANTS
    c1 = c1
    c2 = c2
    c3 = c3
    None = None
    Callers <- MCCallers
    MaxOutages = 1
PROPERTIES
    Reconnects
