SPECIFICATION FairSpec
CONSTANTS
    NumGroups = 4
    NumRuns <- RunsOfFour
    ReadLimits = {1, 2}
    Prefetch = TRUE
    MaxFails = 2
    MaxCancels = 2
PROPERTY WindowEnds
INVARIANTS
    ReadsBounded
    WindowIsSound
    NothingRunsOn
