SPECIFICATION IndependentSpec
CONSTANTS
    Days = 3
    Tiers <- MCTiers
    Totals = {2}
    Spent = {1, 3}
    Windows = {2, 3}
    Jobs = {j1, j2}
    MaxWrites = 3
    MaxRuns = 2
    None = None
    Front = {"us", "de"}
    NoFront = NoFront
    Requests = {s1, s2}
    MaxRequests = 3
    MaxChanges = 1
    MaxFrontTroubles = 1
    Keyword = {k1}
    Rival = {r1}
    Chart = {"health"}
    Scanner = {s1, s2}
    Position = {1}
    MaxDays = 3
    MaxRankRuns = 3
    MaxRankTroubles = 1
    Session = {s1, s2}
    Token = {t1, t2}
    MaxRegistrations = 3
    MaxSends = 1
    MaxTokenTroubles = 2
    Slot = {s1, s2}
    Text = {t1, t2}
    Sync = {s1, s2}
    MaxReplyTroubles = 2
    ChartApp = {a1, a2}
    Category <- MCCategory
    Depth = 2
    Collector = {s1, s2}
    NoCategory = NoCategory
    MaxCollections = 2
    MaxMoves = 1
    MaxScanTroubles = 1
    Watcher = {s1, s2}
    MaxWatches = 2
    MaxReleases = 1
    MaxWishes = 2
    MaxWatchTroubles = 1
    Term = {"tracker", "app", "planner"}
    Words <- MCWords
    Prefix = {"stem", "phrase"}
    Country = "us"
    Length <- MCLength
    Tops <- MCTops
    MaxDemand = 1
    MaxObservations = 3
    CorpusTerm = {w1, w2}
    Mined = {w2}
    Process = {s1}
    Keeper = {s1, s2}
    Legacy <- MCLegacy
    rescore = TRUE
    backfill = TRUE
    Batch = 2
    TermLimit = 1
    MaxSuggestions = 1
    MaxScoringTroubles = 1
    Pass = {s1, s2}
    Title = {"stem", "phrase"}
    Attempts = 3
    MaxAdvice = 3
    MaxPasses = 2
    MaxStatusChanges = 2
    MaxPassTroubles = 1
    Executor = {s1, s2}
    NoExecutor = None
    StallLimit = 1
    MaxReviewSyncs = 3
    MaxKeyChanges = 2
    MaxAnalysisTroubles = 2
    FunnelSync = {s1, s2}
    AppleDays <- MCAppleDays
    PlayDays <- MCPlayDays
    MaxReportDays = 2
    MaxReads = 3
    MaxReadTroubles = 1
    ListingSync = {s1, s2}
    MaxEdits = 1
    MaxListings = 2
    MaxListingTroubles = 1
INVARIANT Settled
INVARIANT OnlyKnownDays
INVARIANT StorefrontsAgree
INVARIANT RanksComparable
INVARIANT Reachable
INVARIANT RepliesTrue
INVARIANT ClimbTrue
INVARIANT WatchKept
INVARIANT ClustersAreStars
INVARIANT CorpusMovesOn
INVARIANT AiWorkOnce
 
CHECK_DEADLOCK FALSE
