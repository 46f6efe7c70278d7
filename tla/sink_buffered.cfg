SPECIFICATION FairSpec
CONSTANTS
    NumSegs = 5
    MaxBuffered = 3
    AbortFrom = "opened"
PROPERTIES ImplementsLinearExport ExportEnds
CHECK_DEADLOCK FALSE
INVARIANTS
    PoolIsSound
    AbortsAreTrue
