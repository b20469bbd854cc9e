SPECIFICATION Spec
CONSTANTS
    a = a
    b = b
    None = None
    Creators = {a, b}
    Features <- MCFeatures
    LockNames <- InstaAndRankings
    Cap <- CapOne
    Stale = 2
    Requests = {r1, r2, r3, v}
    Viewers = {v}
    Tasks <- TwoCreators
    Paused = {"ranking:v2"}
    Workers = 2
    QueueMax = 1
    Faults = {"crash"}
INVARIANTS OneHolder OneRunPerKind PendingHasWorker UsesAccounted CapHolds
SYMMETRY Symmetric
