CONSTANTS
    Calls = {c1, c2}
    Jobs <- MCJobsDDG
    OxEscalate <- MCOx1
    Limited = {}
    Budgeted = {}
    Returns <- MCReturns1
    RenderCounts = {1}
    EarlyReturnAt = 2
    OxConcurrency = 1
    TTLExpires = FALSE
SPECIFICATION Spec
INVARIANT OverlookedWasTried
PROPERTY GoroutinesEnd
