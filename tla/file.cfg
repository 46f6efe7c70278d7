SPECIFICATION FairSpec
CONSTANTS
    NumJobs = 6
    QueueSize = 3
    Readers = 2
    MaxCancels = 2
    CancelRename = TRUE
CHECK_DEADLOCK FALSE
INVARIANTS
    FileIsWhole
    AbortsAreTrue
PROPERTY ExportEnds
