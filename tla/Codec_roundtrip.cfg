CONSTANTS
    SymbolBits = 4
    Primitive = 19
    Failure <- MCFailure
    None = None
    Profiles <- MCProfiles
    HeaderWord <- MCHeaderWord
    Jobs <- MCJobs
    Feasibility <- MCFeasibility
    High <- MCHigh
    Capacities <- MCCapacities
    Bursts <- MCBursts
    Epsilon = 1
    Strangers <- MCStrangers
SPECIFICATION Spec
CHECK_DEADLOCK FALSE
INVARIANTS
    WithinRadiusCorrected
    RecoveredIsSent
    ProgressiveRecovery
    FailuresAreClassified
    EmbeddingSound
