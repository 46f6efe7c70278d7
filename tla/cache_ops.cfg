SPECIFICATION Spec
CONSTANTS
    Keys = {k1, k2}
    Callers = {c1, c2}
    Closers = {}
    Quiescers = {q1}
    MaxSize = 1
    MaxFetches = 2
    Ops = {"lookup", "put", "invalidate"}
SYMMETRY Symmetry
INVARIANTS StoreFresh SingleFlight NobodyOrphaned LruConsistent CancelledOnlyIfOwn
CHECK_DEADLOCK FALSE
