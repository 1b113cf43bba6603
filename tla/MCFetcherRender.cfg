CONSTANTS
    Fetches = {f1, f2}
    URLs = {"u1"}
    HostOf <- MCHostOf
    DirectFirst = TRUE
    ProxyFirst = {}
    HasProxy = TRUE
    Fallbacks <- AllRenderers
    DirectResponses <- MCDirect
    NetResponses <- MCNetRead
    MaxRetries = 1
    MaxAttempts = 2
    AttemptCap = 4
SPECIFICATION Spec
INVARIANTS WindsDown
PROPERTIES PermanentIsPrimary Terminates
