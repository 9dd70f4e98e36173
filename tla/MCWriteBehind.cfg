SPECIFICATION Spec
CONSTANTS
    Point = {"a", "b", "e"}
    Pii = {"b"}
    Quiet = {"b"}
    Ephemeral = {"e"}
    PageSize = 1
    Run = {"p", "q"}
    EpochOf <- MCEpochOf
    Batches <- MCBatches
    MaxMerges = 2
    MaxRedrives = 1
    MaxFaults = 1
INVARIANTS TypeOK ArchiveFaithful CleanEndAccounted
