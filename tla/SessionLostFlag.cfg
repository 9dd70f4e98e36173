CONSTANTS
    Starter = s
    Deliveries = {d1, d2}
    Reopening = {d1, d2}
    Redrives = {}
    MAX_BACKSTOP_RESPAWNS = 1
    MaxFaults = 0
    MaxEpoch = 4
SPECIFICATION Spec
INVARIANTS
    FinishedStaysComplete
CHECK_DEADLOCK FALSE
