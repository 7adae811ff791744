SPECIFICATION Spec
CONSTANTS
    Workers = {w1, w2, w3}
    emb = emb
    eval = eval
    Objects <- Pair
    DependsOn <- EvalReadsEmb
    NoObject = NoObject
    Nobody = Nobody
    Shared = FALSE
SYMMETRY Symmetry
INVARIANTS NoPartialObject DirectoriesKept SuccessHasObject CommitUncontended
PROPERTIES ImplementsObjectStore
CHECK_DEADLOCK FALSE
