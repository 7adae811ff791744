SPECIFICATION FairSpec
CONSTANTS
    Embeddings = {e1}
    Core = {k1}
    Families = {h1, h2}
    SourcesOf <- Sources
    None = None
    MaxFaults = 3
INVARIANTS ScheduleRespected CompleteMeansWhole ArchivedSummaryAgrees ReportsMatchSummary
PROPERTY StudySettles
CHECK_DEADLOCK FALSE
