CONSTANTS
    MaxEpoch = 2
    MaxAttempts = 3
SPECIFICATION Spec
INVARIANTS
    TypeOK
    NoRefireWithinEpoch
    SkipsExplained
PROPERTIES
    CommittedNeverRefires
CHECK_DEADLOCK FALSE
