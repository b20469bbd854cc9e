SPECIFICATION Spec
CONSTANTS
    a = a
    b = b
    None = None
    Creators = {a}
    Features <- MCFeatures
    LockNames <- InstaAndRankings
    Cap <- CapTwo
    Stale = 2
    Requests = {r1, r2, v}
    Viewers = {v}
    Tasks <- Competing
    Paused = {}
    Workers = 2
    QueueMax = 1
    Faults = {"midnight"}
INVARIANTS TypeOK OneRunPerKind AtWorkIsCurrent ChargedForAJob
SYMMETRY Symmetric
