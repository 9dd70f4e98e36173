SPECIFICATION Spec
CONSTANTS
    Operator = {"a", "b", "e"}
    Capability = {"c", "d", "Client"}
    Type = {"Mail", "Work", "Home", "Risk"}
    Subclass <- MCSubclass
    NoCap = NoCap
    Sessions <- MCSessions
    Identity = {"w", "h", "r"}
    TypeOf <- MCTypeOf
    Seed = {"w"}
    OperationTimeout = 2
    PublishTimeout = 1
    RetryDelay = 1
    MaxEmissions = 1
    MaxRevocations = 1
    None = None
INVARIANTS TypeOK QuiescentUpToDate FailuresReported DeadlineHonoured
PROPERTIES SessionEnds
