SPECIFICATION Spec
CONSTANTS
    c1 = c1
    c2 = c2
    c3 = c3
    None = None
    Missing = Missing
    Absent = Absent
    Damaged = Damaged
    Nothing = Nothing
    Releases <- MCOneRelease
    RuntimeOf <- MCRuntimeOf
    Commits <- MCOneRelease
    Attempts = 1
    Burst = 1
    MaxTroubles = 1
    MaxPushes = 0
    MaxCuts = 0
    MaxEvents = 0
    MaxLaunches = 0
    MaxSamples = 0
    MaxFailures = 0
PROPERTIES RepairOnlyIfIncomplete
CHECK_DEADLOCK FALSE
