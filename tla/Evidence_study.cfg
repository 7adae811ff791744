SPECIFICATION Spec
CONSTANTS
    Missing = Missing
    MaxFaults = 1
    Editable <- MCEditable
    Methods <- MCMethods
    Baselines <- MCBaselines
    Adaptive <- MCAdaptive
INVARIANTS
    ObjectsFromNamedBytes
    EvaluationsOfSoundEmbeddings
    SummaryOfTheFrozenPlan
    AnalysisOfTheStudy
    VerifiedArchiveFaithful
PROPERTIES
    CompleteMeansEvaluated
    ClaimedPlanOfItsManifest
CHECK_DEADLOCK FALSE
