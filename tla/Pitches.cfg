SPECIFICATION Spec
CONSTANTS
    a = a
    s1 = s1
    s2 = s2
    s3 = s3
    p1 = p1
    Creators = {a}
    Features <- MCFeatures
    LockNames <- PitchLock
    Cap <- CapTwo
    Stale = 3
    Requests = {s1, s2, p1}
    Streams = {s1, s2}
    Owner <- OneOwner
    SlotMax = 1
    Deadline = 1
    Grace = 1
    Faults = {"disconnect", "lost", "database"}
CHECK_DEADLOCK FALSE
INVARIANTS TypeOK StreamsBounded NothingLeft WrittenWithinCap DoneRanFollowup
