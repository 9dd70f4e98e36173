CONSTANTS
    Run = {r1, r2, r3}
    TTL = 3
    MaxEpoch = 5
SPECIFICATION LockFairSpec
INVARIANTS
    LockTypeOK
    LeaseMutualExclusion
PROPERTIES
    OnlyNewestFinalizes
    DeadLeaseExpires
    ImplementsPort
CHECK_DEADLOCK FALSE
