CONSTANTS
    Entry = {i1, i2}
    MaxEpoch = 2
    max_inbox_deliveries = 2
SPECIFICATION Spec
INVARIANTS
    TypeOK
    NoEntryLost
    NoLostWakeup
    HealthySurvivesItsBatch
PROPERTIES
    EveryEntrySettles
CHECK_DEADLOCK FALSE
