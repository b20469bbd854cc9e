SPECIFICATION ServicesSpec
CONSTANTS
    c1 = c1
    c2 = c2
    c3 = c3
    Calls = {c1, c2, c3}
    MaxPerEmail = 1
    MaxPerIp = 2
    MaxForgotPerIp = 1
    Edits = {1, 2}
    PostIds = {1, 2, 3}
    Handles = {"first", "second"}
    HandleOf <- MCHandleOf
    PostCalls = {1, 2}
    MinPosts = 2
    MaxPosts = 3
    FullSet = 2
    BrandIds = {"b1", "b2"}
    Opens = {"o1", "o2", "o3"}
    RevealsPerDay = 1
    SavedMax = 1
    CacheKeys = {1, 2}
    Readers = {1, 2}
    CacheTtl = 2
    CacheMax = 1
    QueryTicks = 2
    LastTick = 5
    Https = {1, 2, 3}
    Slow = {1, 2}
    SlowMax = 1
    BodyLimit = 1
    BodyMax = 3
    MatchPairs <- MCMatchPairs
    CoreNiches = {"beauty", "music"}
    AvoidedNiches = {"band"}
    SimilarMany = 2
    SameNicheMany = 2
    RankBrands <- MCRankBrands
    GenderMatches = {1, 2}
    MaxRanked = 2
    RankBatch = 1
    Confidences = {40, 70}
    MinMatchConfidence = 55
CHECK_DEADLOCK FALSE
SYMMETRY MCSymmetry
INVARIANTS
    ServicesTypeOK
    SessionsKnowPassword
    LinksWorkOnce
    SentHasDate
    MinimumKept
    RevealsWithinCap
    CacheFreshAndBounded
    PlacesCounted
    OneAnswer
    MatchesSound
