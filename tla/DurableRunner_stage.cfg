SPECIFICATION FairSpec
CONSTANTS
    Tasks = {t1, t2}
    NoTask = NoTask
    MaxWorkers = 2
    MaxFaults = 2
INVARIANTS NoRework StateTruthful NoFutureLost
PROPERTIES ImplementsStage StageCompletes
CHECK_DEADLOCK FALSE
