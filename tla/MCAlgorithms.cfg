CONSTANTS
    Configs <- MCConfigs
    Items <- MCItems
    MaxPolls = 2
SPECIFICATION MCSpec
INVARIANTS ResultsSound RepetitionJustified Ranked Numbers TextKept
PROPERTY Returns
CHECK_DEADLOCK FALSE
