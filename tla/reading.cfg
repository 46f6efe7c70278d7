CONSTANTS
    TypeBits = 2
    LenBits = 2
    Coverage = 2
    GapTolerance = 1
    DecodeBlock = 2
    MaxMajor = 3
    IdxBits = 3
    BucketBits = 4
    LayerBase = 2
    SubFile = 3
    FgpRecord = 2
    FgpUnit = 4
    FgpSegment = 8
    RecNumBits = 3
    RepeatBits = 1
    MaxReads = 2
    MaxDecodes = 1
    BatchSize = 2
    Worlds <- MCWorlds
    PoolTasks = {a, b, c}
    PoolChunks = {x, y}
    MaxReleases = 2
    Pages = 3
    Readers = {r, s}
    PageRoom = 2
    BadPages <- MCBad
    AheadReaders = {a, b}
    AheadSize = 7
    MaxAheadReads = 4
    ReadLengths = {1, 2, 4}
    AheadStarts = {0}
    Trigger = 2
    FirstWindow = 2
    MaxWindow = 4
    MaxBytes = 5
    MinWindow = 2
    MaxStreams = 2
    GatherItems = 4
    MaxConcurrent = 2
SPECIFICATION ReadingSpec
INVARIANTS
    DamageIsCaught
    FormatsReadBack
    VerifyIsComplete
    CachesAreFresh
    SharedReadsAreSound
CHECK_DEADLOCK FALSE
