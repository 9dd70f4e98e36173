CONSTANTS
    Starter = s
    Deliveries = {d1, d2}
    Reopening = {d1, d2}
    Redrives = {}
    MAX_BACKSTOP_RESPAWNS = 2
    MaxFaults = 0
    MaxEpoch = 8
SPECIFICATION Spec
INVARIANTS
    NoStragglerLeft
PROPERTIES
    EveryDeliveryDrained
CHECK_DEADLOCK FALSE
