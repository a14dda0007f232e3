SPECIFICATION NodeSpec
CONSTANTS
    MaxIndex = 5
    MaxTerm = 3
    MaxBatch = 2
    MaxCrashes = 2
    Keep = 5
    PeerSnapshots = FALSE
    NoRow = NoRow
    Mode = "single"
INVARIANTS
    RestartServes
CHECK_DEADLOCK FALSE
