SPECIFICATION Spec
CONSTANTS
    Operator = {"a", "b", "e", "g"}
    Capability = {"c", "d"}
    Type = {"Mail", "Work", "Home", "Risk"}
    Leaf = {"Work", "Home", "Risk"}
    SubtypesOf <- MCSubtypesOf
    NoCap = NoCap
    Flows <- MCFlows
    Identity = {"w", "h", "r"}
    TypeOf <- MCTypeOf
    Seed = {"w"}
    QueueSize = 2
    ActivationAttempts = 2
    MaxEmissions = 1
    MaxInputs = 2
    Deliverable <- MCDeliverable
    MaxUpsets = 1
    Never = Never
INVARIANTS TypeOK WatermarkHonest QuiescentUpToDate CyclesBounded
           DataPruningLossless
PROPERTIES GatherSettles
