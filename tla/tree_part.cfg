SPECIFICATION Spec
CONSTANTS
    Trees <- MCPartTrees
    Disks <- MCDisks
    MaxStrangers = 0
    Contents <- MCContents
    Sinks <- MCSinks
    Tunings <- MCTunings
    WindowEntries = 2
    MinWorkerGroups = 2
    PageSize = 2
    NameOrder <- MCNameOrder
    Readers = {1, 2}
    MaxReads = 3
INVARIANT FoldersAreSafe
CHECK_DEADLOCK FALSE
