CONSTANTS
    Callers = {c1, c2, c3}
    Limit = 1
    MaxMonth = 2
    MaxCalls = 4
SPECIFICATION LimitSpec
PROPERTY Allowance
