---------------------------- MODULE MCIndependent ----------------------------
(***************************************************************************)
(* Thirteen components that share no state, checked in one run: a          *)
(* behaviour is one of the organic installs, of an app's storefronts, of   *)
(* an app's ranks, of a phone's push tokens, of a review's reply, of the   *)
(* chart sweeps, of an app's competitors, of a request to group terms, of  *)
(* the scoring of terms, of an app's insight passes, of the analysis of a  *)
(* review, of the installs by traffic source or of the change timeline.    *)
(* The variables of the others are 0.                                      *)
(***************************************************************************)
EXTENDS OrganicInstalls, Sequences

CONSTANTS
    None,
    Front, NoFront, Requests, MaxRequests, MaxChanges, MaxFrontTroubles,
    Keyword, Rival, Chart, Scanner, Position, MaxDays, MaxRankRuns, MaxRankTroubles,
    Session, Token, MaxRegistrations, MaxSends, MaxTokenTroubles,
    Slot, Text, Sync, MaxReplyTroubles,
    ChartApp, Category, Depth, Collector, NoCategory, MaxCollections, MaxMoves, MaxScanTroubles,
    Watcher, MaxWatches, MaxReleases, MaxWishes, MaxWatchTroubles,
    Term, Words, Prefix, Country, Length, Tops, MaxDemand, MaxObservations,
    CorpusTerm, Mined, Process, Keeper, Legacy, rescore, backfill, Batch, TermLimit,
    MaxSuggestions, MaxScoringTroubles,
    Pass, Title, Attempts, MaxAdvice, MaxPasses, MaxStatusChanges, MaxPassTroubles,
    Executor, NoExecutor, StallLimit, MaxReviewSyncs, MaxKeyChanges, MaxAnalysisTroubles,
    FunnelSync, AppleDays, PlayDays, MaxReportDays, MaxReads, MaxReadTroubles,
    ListingSync, MaxEdits, MaxListings, MaxListingTroubles

VARIABLES
    component, \* the one that takes the steps
    home, name, fronts, store, latest, req, moved, raced, asks,
    ranking, ofDay, followed, ranks, scan, late, unread, scans,
    session, phone, dead, tokens, requests, send, verdicts, spoiled, counts,
    shop, row, request, sync, accepted, missed, repaired, failures,
    chart, moves, market, reading, work, relocated, crossed, half, broken, collected,
    page, competitor, listed, snap, watch, unranked, word, lost, mixed, wishes,
    demand, discovery, signals, topApps, asked, star, observed,
    scored, noticed, contains, estimate, oldest, lane, keeper, did, turns, halfway, scorings,
    rec, insights, pass, excused, passes,
    sentiment, queueing, configured, budget, bull, exec, answers, odd, analyses,
    account, report, exported, ongoing, traffic, reader, whole, together, reads,
    shown, listings, listing, overlapped, edits

-----------------------------------------------------------------------------
(* The components, and their variables                                     *)

A == INSTANCE AppStorefronts
        WITH Slots <- Requests, MaxTroubles <- MaxFrontTroubles, row <- fronts, used <- asks
frontVars == <<home, name, fronts, store, latest, req, moved, raced, asks>>

P == INSTANCE SearchRanks
        WITH Slot <- Scanner, MaxRuns <- MaxRankRuns, MaxTroubles <- MaxRankTroubles,
             job <- ranking, day <- ofDay, listed <- followed, rows <- ranks, run <- scan,
             missed <- unread, used <- scans
rankVars == <<ranking, ofDay, followed, ranks, scan, late, unread, scans>>

D == INSTANCE DeviceTokens WITH MaxTroubles <- MaxTokenTroubles, rows <- tokens, used <- counts
deviceVars == <<session, phone, dead, tokens, requests, send, verdicts, spoiled, counts>>

V == INSTANCE ReviewReplies WITH MaxTroubles <- MaxReplyTroubles, used <- failures
replyVars == <<shop, row, request, sync, accepted, missed, repaired, failures>>

M == INSTANCE MarketScan
        WITH App <- ChartApp, MaxTroubles <- MaxScanTroubles, row <- market,
             moved <- relocated, used <- collected
sweepVars == <<chart, moves, market, reading, work, relocated, crossed, half, broken, collected>>

W == INSTANCE CompetitorWatch
        WITH Slot <- Watcher, MaxSyncs <- MaxWatches, MaxChanges <- MaxWishes,
             MaxTroubles <- MaxWatchTroubles, row <- competitor, rows <- listed, sync <- watch,
             used <- wishes
watchVars == <<page, competitor, listed, snap, watch, unranked, word, lost, mixed, wishes>>

K == INSTANCE KeywordClusters
clusterVars == <<demand, discovery, signals, topApps, asked, star, observed>>

C == INSTANCE CorpusScoring
        WITH Term <- CorpusTerm, Limit <- TermLimit, MaxObserved <- MaxSuggestions,
             MaxTroubles <- MaxScoringTroubles,
             row <- scored, observed <- noticed, half <- halfway, used <- scorings
scoringVars ==
    <<scored, noticed, contains, estimate, oldest, lane, keeper, did, turns, halfway, scorings>>

I == INSTANCE InsightPass
        WITH MaxRows <- MaxAdvice, MaxChanges <- MaxStatusChanges, MaxTroubles <- MaxPassTroubles,
             used <- passes
passVars == <<rec, insights, pass, excused, passes>>

R == INSTANCE ReviewAnalysis
        WITH Worker <- Executor, NoWorker <- NoExecutor, MaxSyncs <- MaxReviewSyncs,
             MaxChanges <- MaxKeyChanges, MaxTroubles <- MaxAnalysisTroubles,
             job <- bull, paid <- answers, used <- analyses
reviewVars == <<sentiment, queueing, configured, budget, bull, exec, answers, odd, analyses>>

F == INSTANCE TrafficFunnel
        WITH Sync <- FunnelSync, MaxDays <- MaxReportDays, MaxSyncs <- MaxReads,
             MaxTroubles <- MaxReadTroubles,
             store <- account, requests <- ongoing, row <- traffic, sync <- reader, used <- reads
funnelVars == <<account, report, exported, ongoing, traffic, reader, whole, together, reads>>

L == INSTANCE ListingTimeline
        WITH Sync <- ListingSync, MaxSyncs <- MaxListings, MaxTroubles <- MaxListingTroubles,
             rows <- listings, sync <- listing, crossed <- overlapped, used <- edits
timelineVars == <<shown, listings, listing, overlapped, edits>>

-----------------------------------------------------------------------------
(* What TLC is given                                                       *)

MCTiers == <<"PLAY_CONSOLE", "FIREBASE">>

MCCategory == <<"health", "games">>

\* Three terms, two of which share a word, and a prefix too short to group two by itself.
MCWords ==
    [t \in Term |-> CASE t = "tracker" -> {"habit", "tracker"} [] t = "app" -> {"habit", "app"}
                      [] t = "planner" -> {"planner"}]
MCLength ==
    [x \in Term \union Prefix \union Chart \union {Country} |->
        CASE x = "stem" -> 4 [] x = "phrase" -> 7 [] x = "health" -> 8 [] x = "us" -> 2
          [] x = "tracker" -> 13 [] x = "app" -> 9 [] x = "planner" -> 7]
MCTops == {{1, 2}, {1, 2, 3}, {3}}

\* Rows scored before a basis or the apps were kept: of a search with ratings, of one
\* without, and of one that listed nothing.
MCLegacy ==
    {r \in [found : BOOLEAN, apps : {FALSE}, counted : BOOLEAN, starsOnly : {FALSE}] :
        r.counted => r.found}

\* A day of two sources that are put in one bucket, one with a download again, and Play's.
Line(kind, count, new) == [source |-> kind, units |-> count, first |-> new]
MCAppleDays ==
    {<<Line("App Referrer", 1, TRUE), Line("Web Referrer", 2, TRUE)>>,
     <<Line("App Store Search", 2, TRUE), Line("App Store Search", 1, FALSE)>>}
MCPlayDays ==
    {<<Line("Play Store search", 1, FALSE)>>,
     <<Line("Google Ads", 0, FALSE), Line("Third-party referrers", 1, FALSE)>>}

-----------------------------------------------------------------------------

\* The sweeps begin with the apps on one chart, and of the terms two are searched alike or
\* none is.
IndependentInit ==
    /\ component \in {"organic", "storefronts", "ranks", "device", "reply", "sweeps", "watch",
                      "clusters", "scoring", "insights", "review", "funnel", "timeline"}
    /\ Init
    /\ \/ component = "storefronts" /\ A!Init
       \/ /\ component # "storefronts"
          /\ home = 0 /\ name = 0 /\ fronts = 0 /\ store = 0 /\ latest = 0 /\ req = 0 /\ moved = 0
          /\ raced = 0 /\ asks = 0
    /\ \/ component = "ranks" /\ P!Init
       \/ /\ component # "ranks"
          /\ ranking = 0 /\ ofDay = 0 /\ followed = 0 /\ ranks = 0 /\ scan = 0 /\ late = 0
          /\ unread = 0 /\ scans = 0
    /\ \/ component = "device" /\ D!Init
       \/ /\ component # "device"
          /\ session = 0 /\ phone = 0 /\ dead = 0 /\ tokens = 0 /\ requests = 0 /\ send = 0
          /\ verdicts = 0 /\ spoiled = 0 /\ counts = 0
    /\ \/ component = "reply" /\ V!Init
       \/ /\ component # "reply"
          /\ shop = 0 /\ row = 0 /\ request = 0 /\ sync = 0 /\ accepted = 0 /\ missed = 0
          /\ repaired = 0 /\ failures = 0
    /\ \/ component = "sweeps" /\ M!Init /\ \E s \in [1 .. 2 -> ChartApp] : chart[Category[1]] = s
       \/ /\ component # "sweeps"
          /\ chart = 0 /\ moves = 0 /\ market = 0 /\ reading = 0 /\ work = 0 /\ relocated = 0
          /\ crossed = 0 /\ half = 0 /\ broken = 0 /\ collected = 0
    /\ \/ component = "watch" /\ W!Init
       \/ /\ component # "watch"
          /\ page = 0 /\ competitor = 0 /\ listed = 0 /\ snap = 0 /\ watch = 0 /\ unranked = 0
          /\ word = 0 /\ lost = 0 /\ mixed = 0 /\ wishes = 0
    /\ \/ component = "clusters" /\ K!Init /\ demand["tracker"] = 0 /\ demand["app"] = 1
       \/ /\ component # "clusters"
          /\ demand = 0 /\ discovery = 0 /\ signals = 0 /\ topApps = 0 /\ asked = 0 /\ star = 0
          /\ observed = 0
    /\ \/ component = "scoring" /\ C!Init
       \/ /\ component # "scoring"
          /\ scored = 0 /\ noticed = 0 /\ contains = 0 /\ estimate = 0 /\ oldest = 0 /\ lane = 0
          /\ keeper = 0 /\ did = 0 /\ turns = 0 /\ halfway = 0 /\ scorings = 0
    /\ \/ component = "insights" /\ I!Init
       \/ /\ component # "insights"
          /\ rec = 0 /\ insights = 0 /\ pass = 0 /\ excused = 0 /\ passes = 0
    /\ \/ component = "review" /\ R!Init
       \/ /\ component # "review"
          /\ sentiment = 0 /\ queueing = 0 /\ configured = 0 /\ budget = 0 /\ bull = 0 /\ exec = 0
          /\ answers = 0 /\ odd = 0 /\ analyses = 0
    /\ \/ component = "funnel" /\ F!Init
       \/ /\ component # "funnel"
          /\ account = 0 /\ report = 0 /\ exported = 0 /\ ongoing = 0 /\ traffic = 0 /\ reader = 0
          /\ whole = 0 /\ together = 0 /\ reads = 0
    /\ \/ component = "timeline" /\ L!Init
       \/ /\ component # "timeline"
          /\ shown = 0 /\ listings = 0 /\ listing = 0 /\ overlapped = 0 /\ edits = 0

\* TLC settles what rests before the steps it takes.
Resting(c, state) == IF component = c THEN TRUE ELSE UNCHANGED state

IndependentNext ==
    /\ UNCHANGED component
    /\ Resting("organic", vars)
    /\ Resting("storefronts", frontVars)
    /\ Resting("ranks", rankVars)
    /\ Resting("device", deviceVars)
    /\ Resting("reply", replyVars)
    /\ Resting("sweeps", sweepVars)
    /\ Resting("watch", watchVars)
    /\ Resting("clusters", clusterVars)
    /\ Resting("scoring", scoringVars)
    /\ Resting("insights", passVars)
    /\ Resting("review", reviewVars)
    /\ Resting("funnel", funnelVars)
    /\ Resting("timeline", timelineVars)
    /\ \/ component = "organic" /\ Next
       \/ component = "storefronts" /\ A!Next
       \/ component = "ranks" /\ P!Next
       \/ component = "device" /\ D!Next
       \/ component = "reply" /\ V!Next
       \/ component = "sweeps" /\ M!Next
       \/ component = "watch" /\ W!Next
       \/ component = "clusters" /\ K!Next
       \/ component = "scoring" /\ C!Next
       \/ component = "insights" /\ I!Next
       \/ component = "review" /\ R!Next
       \/ component = "funnel" /\ F!Next
       \/ component = "timeline" /\ L!Next

restVars ==
    <<frontVars, rankVars, deviceVars, replyVars, sweepVars, watchVars, clusterVars,
      scoringVars, passVars, reviewVars, funnelVars, timelineVars>>

IndependentSpec == IndependentInit /\ [][IndependentNext]_<<component, vars, restVars>>

\* One primary storefront, which the app's own country and name mirror.
StorefrontsAgree == component = "storefronts" => A!StorefrontsAgree

\* prevRank is the rank before, and the ranks compared are of one day.
RanksComparable == component = "ranks" => P!RanksComparable

\* A phone that registered is within reach.
Reachable == component = "device" => D!Reachable

\* The row's reply is one the store took, and the next sync brings the latest.
RepliesTrue == component = "reply" => V!RepliesTrue

\* A rank is a place on the chart it is shown with, and a climb is one on that chart.
ClimbTrue == component = "sweeps" => M!ClimbTrue

\* Those the members left tracked are watched, and a change is one.
WatchKept == component = "watch" => W!WatchKept

\* Clusters are disjoint stars around what is searched most.
ClustersAreStars == component = "clusters" => K!ClustersAreStars

\* Scoring and estimating make progress with nothing but the rows to go by.
CorpusMovesOn == component = "scoring" => C!CorpusMovesOn

\* The model is asked once, and its advice is in the list once.
AiWorkOnce ==
    /\ component = "insights" => I!AdviceOnce
    /\ component = "review" => R!AnalyzedOnce

\* What the funnel and the timeline show is what the stores counted and showed.
PagesTrue ==
    /\ component = "funnel" => F!FunnelTrue
    /\ component = "timeline" => L!TimelineTrue
==============================================================================
