CONSTANTS
    Hosts = {h1, h2, h3}
    Cap = 2
    TTL = 1
    MaxTime = 6
SPECIFICATION MCSpec
INVARIANT Inv
PROPERTIES LossOnlyByUnmark AbsSpec EvictsOldestInserted
