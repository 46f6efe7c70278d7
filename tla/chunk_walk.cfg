SPECIFICATION Spec
CONSTANTS
    ChunkLen = 2
    BucketChunks = 3
    BlockChunks = 2
    MaxMerged = 4
    MaxEntries = 3
    Files <- AllFiles
    Starts <- AllStarts
    Tails <- AllTails
    CutSets <- AllCuts
INVARIANTS
    WindowIsBounded
    ContentIsRight
    PlansAreExact
