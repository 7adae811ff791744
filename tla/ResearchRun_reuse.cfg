SPECIFICATION Spec
CONSTANTS
    Embeddings = {e1, e2}
    Core = {k1}
    Families = {h1}
    SourcesOf <- Sources
    None = None
    MaxFaults = 1
INVARIANT ResumeReusesArchive
CHECK_DEADLOCK FALSE
