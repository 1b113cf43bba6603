CONSTANTS
    Fetches = {f1, f2}
    URLs = {"u1", "u2"}
    HostOf <- MCHostOf
    DirectFirst = TRUE
    ProxyFirst = {"u2"}
    HasProxy = TRUE
    Fallbacks <- NoRenderer
    DirectResponses <- MCDirect
    NetResponses <- MCNet
    MaxRetries = 1
    MaxAttempts = 2
    AttemptCap = 4
SPECIFICATION Spec
INVARIANTS AttemptsBound StrayBound
PROPERTIES PermanentQuarantine
