SPECIFICATION Spec
CONSTANTS
    c1 = c1
    c2 = c2
    x1 = x1
    x2 = x2
    x3 = x3
    p1 = p1
    p2 = p2
    p3 = p3
    h1 = h1
    Creators = {c1, c2}
    Features <- MCFeatures
    LockNames <- BrandLock
    Cap <- CapTwo
    Stale = 3
    Lookups = {x1, x3}
    Claims = {p1, p3}
    Owner <- MCOwner
    Handle <- OneHandle
    Known <- CompleteOnly
    JobStale = 1
    StepCount = 1
    Faults = {}
CHECK_DEADLOCK FALSE
INVARIANTS NothingPaidTwice
