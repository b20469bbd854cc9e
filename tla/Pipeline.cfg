SPECIFICATION PipelineSpec
CONSTANTS
    OpJobs = {1, 2, 3}
    OpKinds = {"seed", "score"}
    OpQueueMax = 1
    OpStale = 1
    OpKeep = 1
    LlmAsks = {1, 2, 3}
    Streamed = {3}
    LlmMaxTries = 2
    LlmDeadline = 4
    LlmTimeout = 2
    LlmDelays = {1, 2}
    StopAfter = 2
    Cooldown = 2
    Fetches = {1, 2, 3}
    RatePerMin = 1
    Minute = 2
    Retries429 = 1
    LastMinuteTick = 5
    LinkDomains = {"d1", "d2"}
    LinkLists <- MCLinkLists
    YtBrands = {"b1", "b2"}
    YtVideos = {"v1", "v2"}
    YtKeys = 2
    YtQueries = 2
    YtRuns = 2
    IgBrands = {"b1", "b2"}
    IgPosts = {"p1", "p2"}
    PostsOf <- MCPostsOf
    Creators = {"c1", "c2"}
    CreatorsOf <- MCCreatorsOf
    UserPosts = {"q1", "q2"}
    ShownBy <- MCShownBy
    ScoreVideos <- MCVideos
    ScorePosts <- MCPosts
    ScoreSites <- MCSites
    ScoreGates <- MCGates
    SignalInputs <- MCSignalInputs
    SignalBefore <- MCSignalBefore
    SignalCountries = 1
    PersonIds = {"a", "b", "c", "z"}
    ApolloFound <- MCFound
    ApolloPicks <- MCPicks
    EnrichMin = 60
    EnrichMax = 2
    PhoneTop = 1
    EnrBrands = {"b1", "b2"}
    EnrRows <- MCEnrRows
    EnrModes = {"drain", "scoped", "signals", "reverse"}
    EnrBatch = 1
    EnrRuns = 1
    EnrFaults = 1
    Handles = {"a", "b"}
    UserRows <- MCUserRows
    CollaboratorsOf <- MCCollaborators
    RowLimit = 2
    ConfirmedHandles = {"a"}
    PostDay <- MCPostDay
    PartnerPosts = {2, 4}
    PostsFirstScrape = 2
    PostsRefreshMax = 2
    ReBrands = {"x", "y"}
    BrandNames = {"m", "n"}
    SiteDomains = {"a", "b", "c", "lnk", "p"}
    ServiceDomains = {"lnk"}
    CustomDomains = {"c"}
    PlatformDomains = {"p"}
    Bios <- MCBios
    SearchResults <- MCResults
    TopCandidates = 1
    Proxies = 2
    ChecksPerBatch = 3
    RotateAfterFailures = 2
    MaxEarlyRounds = 2
    GeoSites = {"a", "b", "lnk"}
    LinkSite = "lnk"
    GeoPaths = {"home", "us", "about", "ship"}
    HomePath = "home"
    UsPath = "us"
    LinksOnPage <- MCLinksOnPage
    GeoMaxPages = 3
    GeoAnswers <- MCGeoAnswers
CHECK_DEADLOCK FALSE
INVARIANTS
    PipelineTypeOK
    OneFreshJobPerKind
    PaceKept
    MarkedMeansDone
    CleanRunLeavesNothing
    ConclusionsStand
PROPERTIES
    OperatorJobResolves
    LlmPromised
    RunEnds
