CONSTANTS
    Configs <- MCConfigs
    Sources = {"s1", "s2", "s3"}
    Hung = {"s3"}
    Answers <- MCAnswers
    EarlyReturnAt = 3
    RankedWeights = 2
    MaxSources = 2
    URL = {"u1", "u2", "u3"}
    MaxURLs = 3
    MaxConcurrency = 1
    DefaultConc = 2
SPECIFICATION Spec
INVARIANTS SourcesSound FetchSound CitationsSound
PROPERTIES GoroutinesEnd
CHECK_DEADLOCK FALSE
