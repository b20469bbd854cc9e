SPECIFICATION Spec
CONSTANTS
    a = a
    b = b
    None = None
    Creators = {a}
    Features <- MCFeatures
    LockNames <- InstaAndRank3
    Cap <- CapTwo
    Stale = 2
    Requests = {r1, v}
    Viewers = {v}
    Tasks <- Everything
    Paused = {}
    Workers = 1
    QueueMax = 1
    Faults = {}
PROPERTIES OutcomeKept
