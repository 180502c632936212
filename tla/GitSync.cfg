CONSTANTS
    NLayers = 2
    MaxTrunk = 1
    MaxCommits = 1
    MaxRuns = 2
SPECIFICATION Spec
INVARIANTS
    TypeOK
    NoPatchLost
    SyncEndsWell
PROPERTIES
    DropsOnlyLanded
    HeadComesHome
CHECK_DEADLOCK FALSE
