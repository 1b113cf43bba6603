CONSTANTS
    Calls = {c1}
    Jobs <- MCJobs3
    OxEscalate <- MCOx2
    Limited = {"brave"}
    Budgeted = {"marginalia"}
    Returns <- MCReturns3
    RenderCounts = {1}
    EarlyReturnAt = 2
    OxConcurrency = 1
    TTLExpires = TRUE
SPECIFICATION Spec
INVARIANTS Accounting TimeoutClassified RenderBound EarlyReturnStopsLegs
