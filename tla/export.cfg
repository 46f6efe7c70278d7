SPECIFICATION Spec
CONSTANTS
    Trees <- MCTrees
    Disks <- MCDisks
    MaxStrangers = 1
    Contents <- MCContents
    Sinks <- MCSinks
    Tunings <- MCTunings
    WindowEntries = 2
    MinWorkerGroups = 2
    PageSize = 2
    NameOrder <- MCNameOrder
    Readers = {1, 2}
    MaxReads = 3
INVARIANTS
    ExportsAreTrue
    NodesAreFound
CHECK_DEADLOCK FALSE
