CONSTANTS
    Callers = {c1, c2}
    Limit = 1
    MaxMonth = 1
    MaxCalls = 4
SPECIFICATION LimitSpec
INVARIANT MonthlyLimit
