SPECIFICATION Spec
CONSTANTS
    Session = {"s", "t"}
    Run = {"p", "q", "x"}
    SessionOf <- MCSessionOf
    EpochOf <- MCEpochOf
    Ops <- MCOps
    Refreshing = {"s"}
    MaxAttempts = 2
    MaxFaults = 1
INVARIANTS TypeOK MarkedMeansFolded DeadLetterExplained
PROPERTIES RecordNeverRegresses
