SPECIFICATION FairSpec
CONSTANTS
    Keys = {k1, k2}
    Callers = {c1, c2}
    Closers = {s1}
    Quiescers = {}
    MaxSize = 2
    MaxFetches = 2
    Ops = {}
INVARIANTS NothingLeaks
PROPERTY CallsReturn
CHECK_DEADLOCK FALSE
