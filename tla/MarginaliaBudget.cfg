CONSTANTS
    Callers = {c1, c2}
    Limit = 2
    MaxDay = 3
    MaxRestarts = 1
SPECIFICATION BudgetSpec
INVARIANTS BudgetConsistent DailyRequests
