SPECIFICATION Spec
CONSTANTS
    a = a
    s1 = s1
    s2 = s2
    s3 = s3
    p1 = p1
    Creators = {a}
    Features <- MCFeatures
    LockNames <- PitchLock
    Cap <- CapThree
    Stale = 3
    Requests = {s1, s2, s3}
    Streams = {s1, s2, s3}
    Owner <- OneOwner
    SlotMax = 3
    Deadline = 1
    Grace = 1
    Faults = {}
CHECK_DEADLOCK FALSE
INVARIANTS OneInFlight
