CONSTANTS
    MaxJobs = 3
    MaxVerifies = 2
    Invalidators = {i1, i2}
    MaxReloads = 2
    CancelUnstarted = FALSE
    MaxHandles = 2
    Catalogs = {c1}
    MaxEpoch = 3
    MaxRefresh = 1
    Pages = 2
    MaxRequests = 5
    MaxRoots = 2
    Backends = {s3, azure}
    MaxScans = 3
    MaxKeys = 2
    Texts = {"a", "b"}
    MaxTicks = 2
SPECIFICATION Spec
INVARIANTS
    LoadingEnds
    ScreenIsTrue
    ExportsAreAlone
PROPERTIES
    ScreenKeepsRows
    JobsEnd
CHECK_DEADLOCK FALSE
