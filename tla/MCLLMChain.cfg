CONSTANTS
    Calls = {c1, c2}
    ModelID = {"A", "B"}
    Configs <- MCConfigs
    Lives <- MCLives
    FailThreshold = 2
    BuiltinDefault = 1
    EnvSeconds = 0
    CooldownMax = 2
    RetryAfters = {0, 4}
    MaxTime = 3
CHECK_DEADLOCK FALSE
SPECIFICATION Spec
INVARIANTS AnswerSound CooldownSound
PROPERTIES WindowsKept ChainEnds
