CONSTANTS
    Identity = {a, b}
    Operator = {op}
    Never = Never
    Flow = {f1, f2}
    Epoch <- MCEpoch
    Time <- MCTime
    MaxBatch = 2
    MaxRevision = 3
SYMMETRY Symmetry
SPECIFICATION Spec
INVARIANTS
    TypeOK
    MirrorInStep
    ChangeSetsExact
    ResolvedIsKeyedMerge
