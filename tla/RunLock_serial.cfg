SPECIFICATION FairSpec
CONSTANTS
    Procs = {p1, p2, p3}
    HostOf <- OneHost
    NoLock = NoLock
    Torn = Torn
    Overlap = FALSE
    MaxBoots = 1
INVARIANTS MutualExclusion EvidencePreserved
PROPERTIES TakeoverAfterCrash
CHECK_DEADLOCK FALSE
