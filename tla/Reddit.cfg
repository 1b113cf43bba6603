CONSTANTS
    Callers = {c1, c2}
    Tiers = {"oauth", "cookie", "render"}
    Lifetime = 3
    Margin = 1
    Latency = 1
    MaxTime = 5
    MaxCalls = 3
SPECIFICATION Spec
INVARIANTS SingleFlight
PROPERTIES HandedOutAlive DeniedNeverReused Terminates
