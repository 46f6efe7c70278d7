CONSTANTS
    Catalogs = {c0, c1}
    FirstCatalog = c0
    GoodKeys = {"k1", "k2"}
    BadKeys = {"bad"}
    Setters = {"s1", "s2"}
    Tries <- MCTries
    Providers = {p1}
    MaxOpens = 3
    Overlaps = {}
    Discoveries = {"d1", "d2"}
    BackingOf <- MCBackingOf
    MaxFound = 2
    CloseOverlaps = FALSE
    DbReaders = {l1, l2}
    MaxSources = 4
    Rows = {99, 2, 3, 4}
    StreamKeys = {"ka", "kb", "kc"}
    StreamReaders = {"r1", "r2", "r3", "r4"}
    KeyOf <- MCKeyOf
    MaxStreams = 1
    MaxBorn = 4
    Overlap = FALSE
    Candidates = 4
    Tables = 2
    IndexKinds = {"ok", "degradable", "none"}
    SmbCallers = {a, b}
    SmbSlots = 2
    SmbPaths = {p, q}
    KeptHandles = 1
    MaxAttempts = 2
    MaxSessions = 3
    S3Tasks = {a, b, c}
    MaxClients = 3
    MaxDepth = 2
    Copies = {a, b}
    FsFree = 4
    FsReserve = 1
    Shapes <- MCShapes
    Users = {u}
    Names = {"n", "m"}
    Kinds = {"s3", "smb"}
    Secrets = {"s"}
    MaxOps = 3
SPECIFICATION Spec
INVARIANTS
    CatalogsUseAdoptedKey
    LiveWhileUsed
    HandlesAreReleased
    IndexIsShared
    SlotsAreSound
    ReadersAreServed
    ListedHasSecrets
CHECK_DEADLOCK FALSE
