SPECIFICATION FairSpec
CONSTANTS
    Commands = {c1}
    Objects = {1, 2, 3}
    SizeOf <- Sizes
    MaxBundle = 2
    MaxVersion = 2
    MaxVisits = 4
INVARIANTS CommittedRestorable RevocationStands EntriesMatchBundles
PROPERTIES EvacuationEarned BackupCompletes
