SPECIFICATION Spec
CONSTANTS
    c1 = c1
    c2 = c2
    c3 = c3
    None = None
    Missing = Missing
    Absent = Absent
    Damaged = Damaged
    Nothing = Nothing
    Releases <- MCReleases
    RuntimeOf <- MCRuntimeOf
    Commits <- MCCommits
    Attempts = 2
    Burst = 2
    MaxTroubles = 2
    MaxPushes = 3
    MaxCuts = 2
    MaxEvents = 2
    MaxLaunches = 1
    MaxSamples = 2
    MaxFailures = 2
INVARIANTS
    OperationRunsNamedCommit
    MonitorTellsTruth
PROPERTIES
    ServerIsSound
    LockedInputsAgree
    RefusedOnlyOnDrift
CHECK_DEADLOCK FALSE
