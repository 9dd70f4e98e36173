CONSTANTS
    Starter = s
    Deliveries = {d1}
    Reopening = {d1}
    Redrives = {h}
    MAX_BACKSTOP_RESPAWNS = 1
    MaxFaults = 2
    MaxEpoch = 3
SPECIFICATION Spec
INVARIANTS
    TypeOK
    FoldedUnlessExcused
CHECK_DEADLOCK FALSE
