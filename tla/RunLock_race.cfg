SPECIFICATION Spec
CONSTANTS
    Procs = {p1, p2}
    HostOf <- OneHost
    NoLock = NoLock
    Torn = Torn
    Overlap = TRUE
    MaxBoots = 0
INVARIANT MutualExclusion
CHECK_DEADLOCK FALSE
