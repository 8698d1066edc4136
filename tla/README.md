# IndexForge: a verification project

TLA+ models of the parts of IndexForge whose correctness depends on what happens between two
awaits: the crawl frontier, push campaigns, mobile sessions and push tokens, connection syncs,
alerts, digests, the job queue, workspace membership, derived metrics, storefronts, ranks and
competitors, the change timeline, the funnel by traffic source, review replies and analysis, insight
passes, the scoring of terms, the market radar, the cache, rate limits and the model budget; and one
of its algorithms, the grouping of terms. `src/` is the repository; paths below are relative to it
(`server/` stands for `src/server/`). Every definition that models code names the lines it stands
for in `PROJECT.json` ("map").

Contents: [the system](#the-system), [hard behaviours](#what-is-hard-here), [plan](#plan),
[modules](#modules), [runs](#runs), [bounds](#bounds), [fairness](#fairness),
[proofs](#what-is-proved), [disagreements](#where-code-and-documentation-disagree),
[limits of the code](#what-the-models-exclude-on-purpose), [not modelled](#not-modelled).

## The system

A Next.js application (tRPC routers over Prisma and Postgres, REST routes for cron, mobile and
the public API), a BullMQ worker on Redis, a corpus crawler started by hand, an Expo mobile client
and an Electron shell. Nothing is locked: processes share rows and rely on unique keys, guarded
`updateMany`s and deterministic job ids. Transactions are few and short.

| component | state | operations | talks to | what makes it correct |
| --- | --- | --- | --- | --- |
| Crawl frontier (`server/aso/frontier.ts`, `corpus.ts`, `scripts/build-corpus.ts`) | `crawl_tasks`, `keyword_terms`, `keyword_signals`; a lane's locals | seed, claim, fetch, upsert terms, complete, expand, fail, release stale claims | store autocomplete; other crawlers on the same tables | a claim is held once; rows are buried only when spent; earned children are queued; every row settles |
| Scoring of terms (`aso/difficulty.ts`, `corpus.ts`, `mining.ts`) | `keyword_competition`, `keyword_estimates`, a lane's queue | select terms, score the competition, recompute the demand index, ask about mined terms | store search and autocomplete; every crawler and the worker at once | no term is scored or asked twice by one process, none is starved of its index |
| Push campaigns (`api/routers/push.ts`, `jobs/handlers/push.ts`, `push/fcm.ts`) | `PushCampaign`, `PushDelivery`, `PushCredential`, the job | compose, upload or remove a key, send, settle | Firebase, queue | no user is notified twice without cause; records say what happened; a campaign settles |
| Mobile sessions (`server/mobile-auth.ts`, routes `api/mobile/auth/*`, `apps/mobile/src/api/auth.ts`) | `DeviceSession`, `RefreshToken`; Keychain, the shared refresh promise | sign in, rotate, replay, revoke, expire, prune, sign out | the phone, over a network that drops | one current token; no honest client looks like a thief; nobody is locked out; sign-out is final |
| Connections (`jobs/handlers/connection.ts`, `jobs/run.ts`, `integrations/service.ts`, `api/routers/connection.ts`) | `Connection`, `ResourceLink`, `SyncRun` | sync, test, list resources, refresh a Google token, reconnect, rotate key, disable, unlink | third-party APIs, queue, derived metrics | every run ends, with a fair verdict; what was written is derived; a disabled connection stays quiet |
| Alerts (`jobs/handlers/insights.ts`, `notify/index.ts`, `api/routers/alert.ts`) | `AlertEvent`, its delivery fields, the job | evaluate, deliver, test, redeliver, acknowledge, resolve, reopen | channels, queue | one open event a rule; delivery records are true; every alert is tried |
| Digests (`jobs/handlers/digest.ts`, `api/routers/digest.ts`) | `Digest.lastSentAt`, the job | dispatch due ones, deliver, send now | channels, queue | one a period, none skipped |
| Queue and schedule (`jobs/queues.ts`, `jobs/handlers/schedule.ts`, `jobs/processor.ts`, `worker/index.ts`) | jobs known to Redis | hourly tick, add, process, retry, trim | everything that runs in the background | periodic work is kept up, once a slot; a request is heard |
| Organizations (`api/routers/org.ts`, `account.ts`, `server/auth.ts`) | `Organization`, `Membership`, `Invitation`, `User` | set role, remove, invite, revoke, redeem on sign-in, delete account or workspace | mail | an owner is left; members keep their workspace; an invitation is redeemed |
| Derived metrics (`metrics/derive.ts`, `precedence.ts`) | `DERIVED` rows | derive a window: read, decide, upsert, drop | sync jobs (each queues one) | rows equal their definition once things are quiet |
| Rate limiting, host throttle (`server/redis.ts`) | Redis counters and slots | count, expire, read the ttl; take a slot, sleep | routes, scrapers | a window lets its limit through and never outlives its period; a host sees one call an interval |
| Read-through cache (`cache/fast-cache.ts`) | L1 map, L2 keys, in-flight loads | `getOrSet`: hit, miss, load, store, evict | routers | bounded staleness, one load of a key at a time |
| Listings, ranks, competitors (`jobs/handlers/aso.ts`, `api/routers/keyword.ts`, `competitor.ts`) | snapshots, changes, ranks, the app's name | sync a listing, ranks, chart ranks, competitors; add, untrack, remove | store pages, queue | the name is the primary storefront's; what is compared belongs together; a tracked competitor is watched |
| Change timeline (`aso/impact.ts`) | reads `StoreListing` | compare consecutive rows | listing syncs | an entry is an edit |
| Installs by traffic source (`integrations/apple/*`, `google/play-console.ts`, `api/routers/metrics.ts`) | report requests at Apple, `MetricPoint` rows of dimension `source=` | find or register a request, read reports, upsert, add up | Apple, Play | what is shown is what the store counted, however often it is read |
| Reviews and replies (`reviews/reply.ts`, `review.ts`, `jobs/handlers/insights.ts`) | `Review.reply*`, `sentiment`, the job | publish, write, sync; classify | store APIs, model API, queue | the row never claims a reply the store did not take; a sync repairs it; a review is analyzed, and paid for, once |
| Storefronts (`api/routers/app.ts`) | locales of an app | add, remove, make primary, update | listing syncs | exactly one primary, which the app mirrors |
| Device tokens (`api/routers/device.ts`, `notify/push.ts`) | `DeviceToken` | register, send, retire on a ticket's verdict | Expo | a phone told that it is registered is within reach |
| AI client and budget (`ai/client.ts`) | `AiUsage` | check the budget, call, retry, record | model API | overspending is bounded |
| Insight passes (`jobs/handlers/insights.ts`, `api/routers/ai.ts`) | `AiInsight`, `AiRecommendation` | explain an anomaly, list advice, create what is new; take up, apply, dismiss | model API, queue, members | a recommendation is in the list once; an anomaly is explained once a pass |
| Market radar (`market/*.ts`, `api/routers/trends.ts`) | niches, apps, snapshots, reviews, themes | sweep the charts, build a niche: ingest, classify, derive themes | store pages, model API, queue | a review is paid for once; a failed app leaves the others whole and is named; a rank is shown with its own chart |
| Grouping of terms (`aso/clustering.ts`, `api/routers/research.ts`) | `keyword_signals` it reads | gather evidence, build stars | corpus | groups are disjoint stars around what is searched most |
| Other ASO analysis, scrapers, connectors, public API keys, read-only routers, contact form, secrets, interfaces, desktop, shared package | none of their own, or one insert | pure functions, I/O, views | - | see [not modelled](#not-modelled) |

**How they interact.** The worker's hourly `schedule.tick` adds connection syncs, listings, ranks,
alert evaluation, digest dispatch and maintenance to one queue. A sync writes metrics and adds
`metrics.derive`; an evaluation adds `alert.deliver`; a dispatch adds `digest.send`. Cron routes run
some of the same handlers inline, without the queue, so worker and route can be inside the same
handler at once. Routers write the rows that running jobs have already read.

## What is hard here

`PROJECT.json` lists 40 hazards at the line where each bites. They fall into seven groups.

* **Read, await, write.** `failTask` decides on an `attempts` value it read before; `evaluateAlerts`
  looks for an open event before creating one, and an insight pass for a current recommendation;
  `org.setRole` counts owners before demoting one; `syncConnection` writes `ACTIVE` over whatever
  the row has become; the model's budget is checked and nothing is reserved; two requests upsert the
  same storefront or push token.
* **Read in one place, shown in another.** A climb is the difference of two readings that two
  collectors wrote; an app's rank stands beside competitors' that a different run wrote, perhaps of
  a different day; a cached value ages twice, in Redis and in the process.
* **Died between two writes.** A crawl row `DONE` whose children were never queued; a message
  Firebase took whose delivery is still `PENDING`; a digest that went out and was not stamped; a
  `SyncRun` that stays `RUNNING`.
* **The lost answer.** The server rotated a token and the phone never heard; a channel took an
  alert and the call timed out.
* **Jobs.** A stalled job runs twice at once; attempts run out on a retryable failure; an `add`
  under a known id does nothing, and how long an id is known depends on what else completes.
* **Boundaries.** `MinimumGap` of 20 hours against an hourly tick; failures compared with a number of
  links that may be zero; paid installs above the total, days before and after the paid span; a
  window between INCR and EXPIRE; midnight during a run.
* **Order of a greedy pass.** A group is built around the most searched term that is left, so what a
  term joins depends on what was taken before it, and on evidence summed from three sources.

## Plan

Order: what loses or repeats work for users first, then what corrupts views, then resources.

Done: 1. the crawl frontier, the model with the most concurrency and the first to be proved about.
2. Push campaigns over one BullMQ job, against an abstract ledger. 3. Mobile sessions. 4. Connections.
5. Alerts, on the same job module. 6. Digests and queue, over real hours. 7. Membership. 8. Organic
installs; storefronts with listing syncs; the niches of the market radar. 9. Rate limits and host
slots. 10. The cache. 11. Ranks, charts and competitors. 12. Replies. 13. Push tokens and the model's
budget. 14. The chart sweeps. 15. The grouping of terms, the one ASO algorithm whose result depends
on an order. 16. The scoring of terms and their demand index. 17. Insight passes and the analysis of
reviews. 18. What two pages make of what syncs wrote: the funnel and the change timeline.

Left, in this order:

1. Deleting an app and switching it off (`App.isActive`) while its syncs run; quiet hours and
   preferences of members' notifications.
2. The market's statistics and the velocity of ratings; the remaining ASO algorithms (coverage, gaps,
   cannibalization, the measured impact of a change), pure functions of rows already read.
3. `keyword.competitorRanks` lists untracked competitors too, though its comment says "Us against
   every tracked competitor" (`api/routers/keyword.ts`): a model of that page beside `SearchRanks`.

Of proofs nothing is left that the provers reach: every safety property a passing run checks is a
theorem (see [below](#what-is-proved)).

Small modules that share nothing are checked by one run of a module that composes them, one of them
taking the steps in each behaviour (`MCDelivery`, `MCBackground`, `MCWorkspace`, `MCClients`,
`MCIndependent`), so that the project stays readable as it grows.

Abstract specifications: `CampaignLedger`, which `PushCampaign` implements.

## Modules

One convention runs through all of them: **a step ends where the code awaits.** The variables are
the rows, the Redis keys and the local variables that live across an await; an action reads and
writes what the code does between two awaits. Crashes, lost answers, failing calls and operator
actions are actions of their own, each counted in `used` against a bound. Ghost variables record
what the code forgets (how often Firebase took a message, what was written since a derivation);
no guard of a code action reads one. A definition marked "mutant" is a plausible bug of the
definition next to it and is not used by the model.

| module | models | state | actions |
| --- | --- | --- | --- |
| `CrawlFrontier` | frontier and corpus under the lanes of several processes | `task`, `corpus`, `signal`, `run`, `lane`, `aged` | `Pick` `Claim` `Fetch` `Lookup` `Create` `Signal` `Complete` `Expand` `FailRead` `FailWrite` are one lane's awaits in order; `Start` `Stop` `Exit` `Crash` a process; `Maintain` its timer (release of stale claims); `Age` the cutoff passing |
| `BullJob` | one BullMQ job as the handlers rely on it (external) | a record | operators `Added` `Taken` `Resolved` `Rejected` `Stalled` |
| `PushCampaign` | one campaign, its request and its job | `campaign`, `delivery`, `credential`, `job`, `exec` | `Compose` `Enqueue` the request; `Load` `Mark` `Skip` `Accept` `Refuse` ... `Tally` `Settle` `Return` the handler; `SaveCredential` `RemoveCredential`; `Take` `Crash` `LoseLock` `Reclaim` the queue |
| `CampaignLedger` | what a campaign promises | `campaign`, `delivery`, `disputed` | `Compose` `Begin` `Decide` `Close`; `Redo` once disputed |
| `MobileSession` | one phone and its sessions | `session`, `token`, `request`, `store`, `refresh`, `ui` | `Lookup` `Replay` `Commit` `Respond` the server; `BeginRefresh` `Save` `Clear` `SignIn` `SignOut` `RevokeArrives` `ClearTokens` the phone; `Drop` `Kill` `Fault` `Expire` `Prune` `RevokeRemote` the rest |
| `ConnectionSync` | one connection, overlapping syncs, a tester, an admin | `conn`, `link`, `runs`, `exec`, `tester` | `Begin` `Load` `Open` `Metrics` `Reviews` `Close` `Derive` `Finish` `Fail` a sync; `StartTest` `TestAnswers` `ReadErrors` `RecordError` a test; `SetStatus` `Reconnect` `RotateKey` `Remove` `Relink` the admin |
| `AlertEvents` | one rule that keeps triggering | `event`, `eval`, `job`, `exec` | `Trigger` `Check` `Create` `Enqueue` an evaluation; `Accept` `Refuse` `Lose` `Record` `Answer` a delivery; `SetEventStatus` `SendTest` `Redeliver` members |
| `DigestDispatch` | one digest over real hours | `cadence`, `now`, `lastSent`, `known`, `jobs`, `stamping` | `Dispatch` `Enqueue` `Deliver` `DeliverFails` `Stamp` `SendNow` `Hour` `Stop` `Start` |
| `QueueSchedule` | one scheduled id over real hours, beside what else completes | `period`, `now`, `phase`, `record`, `newer`, `fresh` | `Tick` `TickFails` `Begin` `Succeed` `Fail` `AlertsDone` `OtherFails` `Press` `PressedRun` `Hour` |
| `OrgMembership` | one workspace and its requests | `org`, `role`, `account`, `own`, `invite`, `accepted`, `req` | `Begin` (the procedure's checks), then `LookTarget` `CountOwners` `WriteRole`, `LookMember` `WriteInvite`, `LookMembership` `Redeem` `Accept`, `LookBlockers` `CountMembers` `DeleteAccount`, `DeleteOrg` |
| `OrganicInstalls` | derivations beside writes | `installs`, `paid`, `organic`, `job` | `WriteInstalls` `WritePaid`; `Begin` `ReadInstalls` `ReadPaid` `Decline` `Decide` `Upsert` `DropStale` `Crash` |
| `AppStorefronts` | one app's storefronts, requests and listing syncs side by side | `home`, `name`, `row`, `store`, `latest`, `req` | `Look` `ReadHome` `UpsertPrimary` are `appStorefronts`; then `AddLocale`; `LookTarget` `SetPrimary` `RemoveLocale`; `Update`; `Fetch` `FetchFails` `Compare` `Create` `Rename` `Nameless` a sync |
| `MarketNiche` | overlapping builds of one niche | `published`, `stored`, `analyzed`, `themes`, `method`, `build` | `Begin` `Ingest` `IngestFails` per app; `Load` `StampWordless` `Call` `CallFails` `Stamp` `StampFails` its classification; `ReadRows` `Replace` `Describe` the niche; `Cut` |
| `MarketScan` | chart sweeps and niche builds over the same apps, and what Trends shows | `chart`, `row`, `reading`, `work` | `Begin` `ReadChart` `Look` `Unreadable` `WriteRow` `Collide` `Snapshot` `CategoryDone` `Fail` a collector; `Move` the store |
| `SearchRanks` | daily ranks of an app, its competitors and its charts | `job`, `day`, `listed`, `rows`, `run` | `Begin` `Search` `WriteOwn` `WriteRival` `NextKeyword` `ForeignKey` `Finish` `syncRanks`; `BeginCharts` `ReadChart` `WriteChart` `SkipChart` `FinishCharts` `syncChartRanks`; `Fail`; `Add` `SetTracked` `Remove` members; `Midnight` |
| `CompetitorWatch` | competitors of an app: discovery, snapshots, members | `page`, `row`, `snap`, `sync` | `Begin` `Count` `UpsertFound` `AskRanks` discovery; `Load` `GetApp` `NoDetail` `Compare` `Create` `Update` `Removed` `Finish` `Fail` the snapshots; `Add` `SetTracked` `Remove` members; `Release` the store |
| `ReviewReplies` | one review's reply | `shop`, `row`, `request`, `sync` | `Reply` `Publish` `PublishFails` `Write` `WriteFails` a request; `Fetch` `Upsert` `SyncCut` a sync; `AtStore` the console |
| `DeviceTokens` | one phone's push tokens | `session`, `phone`, `rows`, `requests`, `send`, `verdicts` | `Register` `Clear` `Upsert` `UpsertConflicts` `Unregister` a request; `Resolve` `Post` `Invalidate` `VerdictLost` a send; `SignIn` `SignOut` `NewToken` `Revoke` |
| `AiBudget` | what a workspace spends on the model | `month`, `recorded`, `call` | `Begin` `Answer` `Fail` `Record` `Useless` a call; `NextMonth` |
| `FastCache` | the cache of several processes over one Redis | `memory`, `redis`, `flight`, `inflight`, `caller` | `Ask` a call; `RedisHit` `RedisMiss` `RedisDown` `Fetched` `FetchFails` `Stored` `StoreFails` a load; `Die` `Tick` |
| `RateWindow` | one fixed window | `count`, `left`, `caller` | `Incr` `IncrFails` `Expire` `ExpireCut` `ReadTtl` `Tick` |
| `HostThrottle` | one host's slot | `slot`, `lane` | `Want` `Take` `Miss` `ReadTtl` `Wake` `Tick` |
| `KeywordClusters` | a request that groups terms, after what the corpus observed of them | `demand`, `discovery`, `signals`, `topApps`, `asked`, `star` | `CrawlPrefix` `MineCategory` `Validate` `ScoreCompetition` the corpus; `Cluster` the request, `Centre` one pass of its loop |
| `CorpusScoring` | terms of one store and country, scored and computed by several processes | `row`, `observed`, `contains`, `estimate`, `oldest`, `lane`, `keeper` | `Observe` the crawl; `Refill` `Take` `Score` `ScoreFails` the difficulty lane; `BeginPass` `WriteEstimate` `EndPass` `recomputeEstimates`; `Ask` `Confirm` `EndValidation` `validateMinedTerms`; `Cut` `Die` |
| `InsightPass` | insight passes of one app beside its members | `rec`, `insights`, `pass` | `Queue`; `Begin` `Explain` `List` `Find` `Create` `Finish` `Fail` a pass; `SetStatus` a member |
| `ReviewAnalysis` | how one review gets its sentiment | `sentiment`, `queueing`, `configured`, `budget`, `job`, `exec` | `Upsert` `Enqueue` a sync; `Begin` `Ask` `AskFails` `Write` `WriteFails` the job; `Forget` `Stall` the queue; `Change` key and budget |
| `TrafficFunnel` | installs by traffic source of one app, at Apple or Play | `report`, `exported`, `requests`, `row`, `sync` | `Begin` `List` `Register` `Find` `Fail` `Read` `Write` `WriteFails` a sync; `Publish` `Stop` the stores; `Funnel` is the page |
| `ListingTimeline` | the rows of one app's storefronts, and their differences | `shown`, `rows`, `sync` | `Begin` `Fetch` `Compare` `Create` `CreateFails` `End` a sync; `Edit` the developer; `Changes` is the page |
| `CrawlFrontierProofs`, `PushCampaignProofs`, `AlertEventsProofs`, `ClientsProofs`, `WorkspaceProofs`, `BackgroundProofs`, `IndependentProofs`, `StoreDataProofs` | theorems, see [below](#what-is-proved) | | |
| `MC...` | instances for TLC | | |

**Composition.** `PushCampaign`, `AlertEvents` and `ReviewAnalysis` are built on `BullJob`, so that
retries, stalls and a second execution of the same job are the same in all three. `PushCampaign`
implements `CampaignLedger` (`INSTANCE ... WITH disputed <- used["blocked"] > 0`). `QueueSchedule`
and `DigestDispatch` model the queue from the side of an id, where time matters and the handler does
not. `AppStorefronts` composes members' requests with listing syncs, `SearchRanks` and
`CompetitorWatch` members' changes with runs and syncs, `MarketScan` sweeps with niche builds,
`CorpusScoring` the lanes of several processes with the worker's job.

**Abstractions worth knowing.**

* *CrawlFrontier*: a prefix is an element with its `Children` and the terms the store answers
  (`Suggest`); priorities only order picks and any pending row may be picked.
* *PushCampaign*: an answer of Firebase is one of ok, retryable, auth, other; a lost response is an
  acceptance followed by a retryable failure, as in `fcm.ts`.
* *MobileSession*: tokens are identities; hashing and the identity provider are left out. The access
  token is its session, and `due` says it is near its expiry.
* *ConnectionSync*: what is fetched is only "some rows were written"; a Google token refresh
  rewrites the stored credentials on the way.
* *AlertEvents*: starts where the rule has triggered; the comparison itself is not in it.
* *DigestDispatch*: times are whole hours. Two hour marks that differ by `n` are really between
  `n - 1` and `n + 1` hours apart, so `Due` may answer either way at the edge.
* *QueueSchedule*: of all other jobs only the numbers that complete between two of ours matter, since
  `removeOnComplete: {count}` trims across names.
* *OrgMembership*: VIEWER and MEMBER have the same rights here and are one role.
* *AppStorefronts*: a storefront is a country and a language, compared as they are stored. Of a
  listing only its version counts, and whose storefront it is; the rating rows a sync upserts are
  left out. `app.create` is the initial state; an app with rows but no primary is reached by removals.
* *MarketNiche*: a review is an identity with the themes the model finds in it; snapshots of apps are
  left out. The model service is configured; without it every build leaves all reviews unclassified
  and its sentence says nothing of it.
* *MarketScan*: of a reading only its rank, its category and when the chart was read matter; an app
  keeps its two latest, those Trends looks at. The store lists an app on one chart at most.
* *SearchRanks*: a behaviour is of one of the two jobs, which have no row in common; a position is a
  rank or none. Keyword statistics, and the details discovery reads, are left out.
* *CompetitorWatch*: searches may find any apps; a listing is a version.
* *ReviewReplies*: a reply is a text or none. *DeviceTokens*: a row is a session, a token and whether
  it is live; preferences only choose whom to send to.
* *AiBudget*: a call is the tokens its answer may cost, and of the usage rows only the month's sum.
* *FastCache*: nothing invalidates a key, so all that is known of a value is its age; ages are
  relative, so no clock is needed. A load takes `Slow` at most, an assumption (the code sets no
  limit), and the fetcher never returns null. *RateWindow*, *HostThrottle*: time is a count of ticks.
* *KeywordClusters*: one request per behaviour; demand is fixed before it. Scores are in parts of
  1200, rounded down where the code divides. Platforms and wording are left out, and so are
  categories, which the router never passes. A term has a row once something was observed of it.
* *CorpusScoring*: of a score only what decides whether a term is selected again matters: whether its
  row lists apps and counted ratings; of an index, whether there is one and in which order they were
  computed. Rows of an older version of the lane are in the initial states.
* *InsightPass*: advice is a list of titles. *ReviewAnalysis*: a sentiment is the model's or the
  stars'; drafting a reply keeps nothing.
* *TrafficFunnel*: of the three metrics of a source, installs, whose lines Apple also tells apart by
  whether they are first downloads. A line stands for a segment of a report and for a batch of upserts,
  which is where reading and writing may stop. The window of a sync holds every day.
* *ListingTimeline*: a listing is a version of what its hash covers and a version of the icon, which it
  does not; the storefronts of a sync come in any order. `AppStorefronts` has the rest of that sync.
* *OrganicInstalls*: `Tiers` is the precedence table; values are few but include one below, at and
  above a total.

## Runs

Six runs must pass, six refute a sentence of the repository. Five of the six are composed: each
of their behaviours is one of the components named, chosen in the initial state (`component`), and the
others rest. That asks of each component what a run of its own would ask. Every component has variables
and constants of its own there, so that what the run checks is, by name, what the theorems are about.
In `MCIndependent`, which has thirteen of them, those that rest have 0 for a state and a property is
said of its own component only; elsewhere they rest in an initial state.

| run | states | checks | shows |
| --- | --- | --- | --- |
| MCCrawlFrontier | 319k | `ClaimUnique` `BuriedOnlyWhenSpent` `TermsAccounted` `EarnedChildrenQueued` `EveryTaskSettles` | two processes, any two of crash, throwing call, stop, early release: claims stay exclusive, a new term is credited once and observed, no hole in the frontier unless a crash or a `failTask` that itself throws dropped the row, and every queued row settles while a process stays up |
| MCDelivery | 237k | | |
| - campaign | | `OnceAndTruthful` `ImplementsLedger` `CampaignSettles` | retries never repeat a notification, only interruptions do, and rows are truthful; the ledger is implemented until a lock is lost; a queued campaign settles if fewer calls fail than there are attempts |
| - alert | | `AlertsTruthful` `EveryAlertTried` | two open events need overlapping evaluations; records are truthful and repeats have a cause; alerts are tried |
| MCClients | 1.37M | | |
| - phone | | `OneChain` `LiveUntilSignOut` | rotation is single-flight on the phone and guarded on the server: on a steady connection it never forks and never looks stolen |
| - connection | | `RunsEndFairly` `DeriveFollowsWrites` `NoSyncOnceDisabled` | two overlapping syncs of two links: runs end, verdicts are fair, what was written gets derived |
| MCBackground | 2.08M | | |
| - digest | | `OneEachPeriod` `Arrives` | worker and cron route ticking at once, daily over 58 hours and weekly over 345 |
| - queue | | `KeptUp` `PressHeard` | periods 6, 12 and 24: a finished job's id blocks the next slot only as long as stated, and a slot is served once |
| - cache | | `CacheKeeps` | two processes, two keys, an L1 of one entry: a value is served for less than twice its ttl, and callers share loads |
| - limit | | `WindowHolds` | two callers: at most twice the limit in any span of a window; a window ends when it said, unless EXPIRE was cut off |
| - host | | `Paced` | three callers: one call an interval, no slot left unused |
| MCWorkspace | 789k | | |
| - org | | `HasOwner` `AccountsKeepFaith` | three users, three requests, two at a time, from any membership |
| - niche | | `PaidOnce` `ThemesHonest` | two builds, one failure: paid once, shortfalls are named, themes that stopped are gone |
| - budget | | `OverspendBounded` | five calls, two at a time, over two months |
| MCIndependent | 3.11M | | |
| - organic installs | | `Settled` `OnlyKnownDays` | two derivations over different windows beside writes |
| - storefronts | | `StorefrontsAgree` | two requests or syncs at a time: the primary, the mirror and the name hold together |
| - ranks | | `RanksComparable` | three runs over three days, two at a time: `prevRank` is the rank of the row before; ranks put side by side are of one day |
| - device | | `Reachable` | three registrations beside a send, tokens that rotate and die |
| - reply | | `RepliesTrue` | two requests beside two syncs |
| - sweeps | | `ClimbTrue` | two collectors over two charts: a rank and a climb are of the chart they are shown with |
| - watch | | `WatchKept` | two syncs, changed listings, members: those left tracked are watched, a change is one |
| - clusters | | `ClustersAreStars` | three terms, three observations: disjoint stars, centres apart, a short prefix groups nothing alone |
| - scoring | | `CorpusMovesOn` | a process beside the worker's job: a term is scored and asked about once, whatever the store answers; no index waits while another is computed twice |
| - insights, review | | `AiWorkOnce` | two passes beside members: no advice twice in the list; two executions beside syncs: one call of the model a review, never replaced by its stars |
| - funnel, timeline | | `PagesTrue` | syncs side by side, requests stopped, segments and batches lost: a bucket shows a count of the store's and never a multiple; the rows of a storefront follow its edits unless two syncs read it at once |
| MCPushStuck | violation | `CampaignSettles` | with as many failing calls as attempts, the campaign stays SENDING |
| MCMobileDrop | violation | `DropIsTransient` | one dropped response, and the next refresh revokes the session |
| MCConnNeverParks | violation | `FailingParks` | failing syncs leave the connection ACTIVE |
| MCRanksNow | violation | `RanksNow` | ranks asked for after the day's job ran wait for the next day |
| MCClusterPrefixes | violation | `CompletedTogether` | two terms mined from one chart are grouped as completions of its name |
| MCFunnelLosesRows | violation | `AddsUp` | of two names in one bucket the funnel shows the last |

Several names join what belongs to one question: `TermsAccounted` is `CreditedOnce` and
`NoTermUnobserved`; `OnceAndTruthful` of campaigns is `DuplicatesBounded` and `DeliveryTruthful`;
`AlertsTruthful` is `OneOpenEvent`, `DeliveryTruthful` and `RepeatsExplained`; `OneChain` is `NoSpuriousReplay` and
`OneCurrentToken`; `OneEachPeriod` is `OncePerPeriod` and `NoDaySkipped`; `RunsEndFairly` is
`EveryRunEnds` and the step property `VerdictFair`; `ThemesHonest` is `ShortfallShown` and
`ThemesCurrent`; `StorefrontsAgree` is `OnePrimary` and `NameFollowsPrimary`; `LiveUntilSignOut` is
`NeverLockedOut` and `SignOutFinal`; `AccountsKeepFaith` is `MembersKeepOrg` and `InviteRedeemed`;
`AiWorkOnce` is `AdviceOnce` and `AnalyzedOnce`; `PagesTrue` is `FunnelTrue` and `TimelineTrue`.

`MCCrawlFrontier` also checks `TypeOK`, the typing its proofs rest on; the other modules' typing is
part of the inductive invariants in the proof modules. Every
property of a passing run has a mutant in `PROJECT.json`: a bug of a mapped definition (a dropped
guard, a read from before an await, a missing reset) under which that property fails in that run.

`CHECK_DEADLOCK FALSE` everywhere: the bounds are in the guards, so every model stops once they are
spent, and a system whose requests have all been served may stop.

## Bounds

Every bound is a constant `Max...` of the module and appears in its guards; nothing else limits a
model. `MaxTroubles` bounds all disturbances together.

* Two of each actor (lanes, executions, evaluators, requests, derivations) is what these races need:
  each is one actor's write between another's read and write. The parameters that tell a third
  actor apart (row, link, channel) are shared by the two.
* Two troubles reach every pair (a crash while a retry is pending, a stop after an early release).
  `MaxErrors = 2` lets a throwing call meet a throwing `failTask`, whose row is then dropped.
  One trouble suffices where two executions already disturb each other (connection, niche,
  storefronts, ranks, sweeps, competitors).
* `MCTask` has a row that earns its child by exactly `Threshold`, and a child at `MaxDepth`.
* Attempts are 3 where the third matters (push) and 2 elsewhere: a first, a retry, a last.
* `DailyHours = 58` holds three send hours and their ends, `WeeklyHours = 345` three of a weekly one;
  `MaxHours = 33` holds two slots of the daily job and the nine hours in which a request can precede
  one. `OtherJobs = {0, 20}` is below and at the smallest `removeOnComplete` count that matters.
* Storefronts: two of them, so that one is promoted over the other; three requests, so that a
  storefront is added, promoted and synced, and one changed listing. Niche: two apps and
  `MinApps = 2`, so that a theme may be one app's or both; an app with two reviews against a `Limit`
  of one, so that a backlog is left; two builds, so that the second has what the first has done.
* Ranks: three days, so that a day without a row lies between two; three runs, so that one
  that fails comes between two that write. Sweeps: two apps on two
  charts of two, one change of the charts, two collectors. Competitors: two syncs, so that the second
  has the first's snapshots before it; one changed listing; two changes by members. Phone: three
  registrations, two tokens, two sessions. The sweeps begin with both apps on one chart, from where the
  one move reaches the others.
* Cache: `Ttl = Slow = 1` and an L1 of one entry for two keys, so that every entry expires, is evicted
  and is found in Redis at the end of its life. Limit: a window of two ticks and a limit of two.
  Host: an interval of three ticks, a short sleep of one, so that a sleep can end before the slot does.
* Budget: two tokens, answers of up to two, so that one answer or two fill it.
* Clusters: three terms that share words in a pair, a prefix too short to group alone and one long
  enough, top results that overlap by two of three; three observations are two terms seen together
  and a third apart. Demand differs between two terms at most, so that both ties and order occur.
* Scoring: two terms, one of them mined; passes of one term, so that the other waits; one suggestion,
  one disturbance. Rows begin missing, empty, with ratings or with stars alone. Insights: two titles
  that a list may repeat, two passes, three rows, two changes by members, one failure. Analysis: two
  executions, three syncs, two changes of key or budget, two failures or stalls.
* Funnel: two days, three syncs two at a time, one disturbance; a day has one source, two of one bucket,
  a source with a download again, or a count of nothing. Timeline: two storefronts that begin with the
  same text or not, one edit, two syncs.
* Three users are an admin, the one acted on and a bystander who may be the last owner.
* `Totals = {2}`, `Spent = {1, 3}`: paid below and above the total; the span's ends and its gaps come
  from three days, windows of two and three.

Symmetry is used only where the values are interchangeable and no liveness property is checked.

## Fairness

Liveness is claimed only of these, and only from fairness the scheduling gives.

* `CrawlFrontier`: a lane that can step does (the event loop), the maintenance timer fires, a claim
  nobody holds grows old. Nobody is obliged to start or restart a process, so `EveryTaskSettles` says
  "if some process stays up".
* `PushCampaign`: the request goes on after creating the campaign, a worker is kept running and
  takes what waits, its handler runs on, the stalled-job timer fires. Failures are not fair: they
  are bounded.
* `AlertEvents`: the same; `Take` is strongly fair because one worker serves jobs in their order,
  so each waiting job has its turn though the worker is again and again busy with another. (In
  `MCDelivery` a component that rests has nothing enabled that must happen.)
* `DigestDispatch` and `QueueSchedule` claim no liveness. That work is done within its hour is an
  assumption on `Hour` (named there), and "arrives" and "is heard" are said of the step that ends an
  hour.

## What is proved

TLAPS checks eight modules; each EXTENDS a module of a run and proves properties that run checks,
for every value of its constants. Two kinds of assumptions are used. Named ASSUMEs
(`CrawlAssumption`, `PushAssumption`, `BullAssumption`, `OrganicAssumption`, `HostAssumption`,
`BudgetAssumption`) are evaluated by TLC in every run that extends their module. Theorems about an
instantiated module carry theirs as a hypothesis, a definition next to the theorem: bounds are
numbers and what stands for "nobody" is no member (`NoneApart`, `Connectors`, `Apart`, `Measured`,
`Scannable`, `Places`, `Queueing`, `Digesting`, `Caching`, `Limiting`, `Mining`), the ranking of
reports tells them apart (`Ranked`), reports are sequences of lines (`Reporting`), a set is finite
(`App`, `Pass`, `Executor`, `CorpusTerm`). Each holds of the constants the runs use.

**Crawl** (`CrawlFrontierProofs`): for any rows, children, terms, lanes and processes, and any number
of crashes, early releases, throwing calls and stops: `TypeCorrect`; `ClaimsAreExclusive`;
`BurialsAreJustified`, though `failTask` reads and writes in two statements; `NoHoles` (children that
were earned are queued or a lane owes them); `TermsAreAccounted`. `ClaimUnique` is not inductive: a
new claim differs from those in use only because each of these is at most the row's `attempts`, which
never shrinks (`ClaimBound`). A lane may bury a row because the verdict it carries was justified when
it read, and `attempts` has not shrunk since (`VerdictJustified`). A term's credit belongs to one
execution because whoever is about to observe it found it created, and `createMany` creates once
(`Credits`). Children that were earned are the duty of the lane that completed the row; it ends only
with the enqueue, a dead process or a `failTask` that throws (`dropped`).

**Campaigns** (`PushCampaignProofs`): for any apps, workers, interruptions and attempts:
`Invariance`, `HeardOnce`, and `Implements`, the refinement of `CampaignLedger` step by step. How
often Firebase took a notification is not inductive: an execution that lost its lock may send it once
more, and so may the job. The invariant is that for each app what was accepted, what such strays hold
and what is due come to one more than the interruptions at most; a stray that hands a row back as
PENDING only moves what it might have added over to the job. Until a lock is lost the job's owner is
the only one that runs (`Alone`), which is what makes each step one of the ledger or a stutter.

**Alerts** (`AlertEventsProofs`): `AlertsAreTruthful`. The same argument for each event and channel:
heard, due by the job and about to be delivered inline come to one more than the reasons (crash, lost
answer, redelivery). That a rule has one open event rests on what an evaluation saw (`Looked`), and
that the row tells what happened on what the execution has yet to write (`Told`).

**Clients** (`ClientsProofs`): for any sessions, tokens and refreshes `SessionsStayChains` and
`SessionsLiveUntilSignOut`; for any links and executions `SyncsStop`, `WritesAreDerived` and
`RunsAreEnded`. A token is used once because one refresh runs at a time (`OneAtATime`) and its token
is nowhere else; a sign-out is final because what an overlapping refresh may still put back belongs
to a session that is revoked (`Leaving`). The verdict of a run needs the tally of its links
(`Counted`); that no sync starts on a disabled connection needs when each execution read the row
(`Current`: an epoch counts the times it was disabled); that written metrics are derived needs that
links and connection go together (`GoneTogether`).

**Workspace** (`WorkspaceProofs`): `OwnerStays`, `OrgStays`, `FaithKept`, `Overspend`,
`ReviewsPaidOnce`, `ThemesAreHonest`. That an owner is left is not inductive: a request looks, then
writes. The invariant says what each request still knows: there is another owner, or nobody else, or
it has been overtaken since it looked (`Informed`). That an invited address becomes a member by its
first sign-in rests on what its request has promised (`Promised`). Checks and rows
of the budget interleave freely, so the month's sum says nothing of the next row; the invariant counts
calls under way as spent in full (`recorded + Cardinality(Busy) * Most`). What a build of the niche
loaded is never analyzed by another but for an overlapping build (`Alone`), and only grows (`Kept`).

**Background** (`BackgroundProofs`):

* `HostPaced`: `slot + since = Interval` ties the key's ttl to the clock since the last call, so a
  slot is free only a whole interval after it.
* `WorkIsKeptUp`, `RequestsAreHeard`: a tick is ignored while a job of that id is known. The invariant
  bounds how long (`Aged`): three jobs complete an hour and a tick leaves 24, so a completed one is known
  for nine hours at most. `Served` then says by when the next run is due in each phase of the day,
  `Once` that a slot has not run twice, `Heard` where the job of whoever was told to wait is.
* `DigestsCoverEachDay`, `DigestsArrive`: what was sent is stamped within the hour or made again
  (`Stamped`), so a later tick finds it; what is in the queue was found due and is still (`Found`,
  `Kept`). `WithinPeriod` and `Spaced` are the arithmetic of days and hours they rest on.
* `CacheStaysFresh`: a value enters Redis no older than its load took, so its age there is at most that
  and what has gone of its ttl (`RedisFresh`); what enters a process is no older than the last of Redis,
  and ages by another ttl at most (`MapsFit`). That callers share a load needs that what is in flight is
  what is known to be (`Known`), and that a key has one entry and one load (`OneLoad`).
* `LimitIsHeld`: each request let through carries a number of its own in its window, or a number of an
  outage. What is recent went through in the counter's window or in the one before it, so two windows'
  numbers bound it (`Numbered`). The clock of the counter is that of its ttl, or its first caller is
  still about to set it (`Expiring`).

**What runs on its own** (`IndependentProofs`), one invariant per module:

* `DerivesKnownDaysOnly`, `OrganicSettles`: a derivation's copies know no more than the rows do now
  (`Older`), its dates are derivable from them (`Sound`), and undisturbed they are the rows (`Fresh`).
* `ClustersStar`: the terms that remain relate to no centre and are searched no more than any of them
  (`Greedy`). `RelatedSymmetric` turns that round, though the code scores from one side. Shared results
  and prefixes say nothing of terms not yet observed; stems alone weigh 480 of the 540 needed.
* `RepliesStayTrue`: what a request or a sync is about to write was accepted by the store before it.
* `PhoneReachable`: until something older arrives late, each request under way carries the phone's own
  token, and verdicts are about dead ones.
* `StorefrontsSpeakAsOne`: a request not yet overtaken relies on rows that are as it read them
  (`Relied`).
* `AiWorkIsDoneOnce`: insights and unexplained rows come to no more than passes and troubles; each
  title is excused or has one row or one pass about to add it; answers, asking executors and the open
  job come to one more than the troubles.
* `CompetitorsAreWatched`: identities are never used twice, so a sync that a removal has not ended
  knows the snapshot it compares (`Knows`), and while they do not overlap it is the only one (`Single`).
* `ChartsAreTrue`: of an app that was never crossed one collector's reading is the latest (`Follows`).
* `RanksCompare`: what a run holds is right or was overtaken (`Held`); the newest row stands beside the
  others, or a run under way is ahead of them (`Beside`).

**Store data** (`StoreDataProofs`), of three more modules `MCIndependent` runs:

* `PagesStayTrue`, the funnel: of a day that is had whole a sync holds every line (`Sound`), so writing
  it leaves no bucket out, and what is written of a bucket is the count of one of its lines. A request is
  registered where none was live, unless two syncs are about to (`OneRequest`).
* `PagesStayTrue`, the timeline: what a sync has in hand was shown when it read, and is later than the
  rows of its storefront unless another wrote since (`Ordered`). The bound on the entries needs more than
  the order: the n-th row of a storefront is at least n - 1 edits after the first (`Later`), and the text
  now shown is as many edits on as were made (`Read`).
* `CorpusAlwaysMovesOn`: that a term is scored once needs that what a process has scored is in no
  selection again, which shows in the rows (`ScoredOnce`); that it is asked about once needs the same of
  the list a round holds (`AskedOnce`). That none is computed twice while another waits is a matter of
  order: who was taken before a waiting term is still to be written, or stands behind it among the oldest
  (`Waiting`), so that the next pass takes the waiting one first.

**What proof attempts showed about the models.** An invariant that will not become inductive may hold
only because of a run's bounds. `EarnedChildrenQueued` held because `MaxErrors = 1`
kept a second call from throwing; with two, `failTask` itself may throw and the children are
lost, which the property now says. `InviteRedeemed` forgot that an address that accepted may be invited
again. `DeliveryTruthful` of alerts ignored that a rule without channels is marked delivered.
`KeptUp` allowed 32 hours where 33 can pass, which the run's first hour hid. The ghosts of the ranks'
`SameDay` took rows for missed that two runs could not show; they are three now.

A definition by recursion over data (a fold, `SelectSeq`) is out of reach, since what it computes can
only be shown by induction. Four models say the same without: the cache and the corpus remove an entry at
its index, the rate limit counts records that tell requests apart, and the funnel names the last line of
a bucket.

**Only model-checked.** Liveness (`EveryTaskSettles`, `CampaignSettles`, `EveryAlertTried`): fairness
and ENABLED are out of the provers' reach. The six disagreements with the documentation are
counterexamples and stay with TLC too.

## Where code and documentation disagree

* **A campaign can stay SENDING.** `handlers/push.ts:102` says a retryable failure stays PENDING "so
  the job's own retry picks it up". So does the failure of the third and last attempt; nothing picks
  that up (MCPushStuck).
* **A dropped refresh signs the phone out.** `apps/mobile/src/api/auth.ts:110` keeps the tokens after a
  dropped connection "so the next attempt can succeed". If the server had committed, that attempt
  presents a used token, and `mobile-auth.ts:154` revokes the session (MCMobileDrop).
* **Failing syncs do not park a connection.** `integrations/service.ts:44` promises ERROR after three
  hard failures; `syncConnection` never calls `recordConnectionError` and writes ACTIVE whatever
  failed (MCConnNeverParks).
* **New keywords wait.** `api/routers/keyword.ts:133` says "Rank the new terms now rather than waiting
  for tomorrow's pass". The job it adds has the id of the schedule's daily job, and while the finished
  one is known the add does nothing (MCRanksNow).
* **A chart is taken for a prefix.** `aso/clustering.ts:14` groups terms "returned by the store for the
  same autocomplete prefix". `api/routers/research.ts:221` hands it the contexts of all signals; that of
  a mined term is its chart, whose name is long enough to weigh full (MCClusterPrefixes).
* **Buckets do not add up.** `packages/shared/src/traffic.ts:68` finds "a bucket that does not add up"
  worse than one labelled "Other". Both stores have several names for one bucket; each line becomes a
  row under the key of its bucket, and `writeMetrics` upserts: the last one is what is left
  (MCFunnelLosesRows).

## What the models exclude on purpose

Some properties carry an exception because the code does not prevent it. Each is visible in the
property's text; together they are what a reader of this code should know.

* *Crawl*: a process that dies between `completeTask` and `expandPrefix` leaves children unqueued, and
  so does an execution whose `failTask` throws after the row was completed.
* *Push*: an enqueue that fails leaves a campaign QUEUED without a job; a token outage flags a good
  key INVALID.
* *Mobile*: a refresh that overlaps a sign-out may write its pair back (the session is dead if the
  server heard the sign-out); after a drop, a token may be exchanged twice.
* *Connections*: a sync that had read the row before it was disabled writes ACTIVE over it; a
  connection without links collects errors; with reviews one link can fail twice and count twice; a
  crashed run stays RUNNING.
* *Alerts*: two evaluations may each open an event; a cut evaluation leaves an open event that was
  never delivered and keeps its rule from firing; a redelivery clears what was recorded before.
* *Digests*: after a downtime the jobs the cron route queued all run; a day is skipped after a
  downtime or after a daily digest was sent by hand; a weekly one may move off its day.
* *Queue*: a six-hourly slot is ignored while its last job is still known, a failed job blocks its
  id for a week, and a request under the schedule's id may be ignored.
* *Organizations*: two owners may demote each other at once; a member who joins during an account's
  deletion loses the workspace; an address that accepted once is never redeemed again.
* *Storefronts*: a storefront promoted between the look and the delete of `removeLocale` goes, and with
  it the only primary; one whose first row is written by two requests at once may get two;
  `app.update` moves the app's own country, which "mirrors the primary" (`api/routers/app.ts:377`),
  and leaves the primary where it is; a sync that read the old primary renames the app after it;
  two overlapping syncs of an app may store the same snapshot twice.
* *Market radar*: `classifyReviews` loads 100 reviews of an app at most, and up to 200 may have been
  fetched, so with a backlog the sentence that "has to carry the shortfall" (`market/ingest.ts:288`)
  names none although reviews await classification. "Once per review, ever" (`classify.ts:15`) means
  once per review and failure, and builds that overlap pay each.
* *Chart sweeps*: a climb spans whatever two collectors or two categories left as the latest readings;
  one app whose row cannot be created ends its category for that sweep. `jobs/handlers/market.ts` says
  "Repeated on a schedule"; only `trends.scan` enqueues it.
* *Ranks*: a run that crosses midnight writes rows of the day it began, and a later one may have taken
  its previous rank by then; a competitor the run had not loaded, or a keyword whose run was cut, shows
  an older day; one keyword or competitor removed during a run fails the whole run.
* *Competitors*: one removed is found again by discovery; one removed between discovery's count and its
  upsert is added without ranks; one removed during its snapshot fails the sync; two overlapping syncs
  may store the same listing twice. `changedSinceLast` means that it has ever changed.
* *Timeline*: `listingChanges` reads the rows of all storefronts (`aso/impact.ts:162`), so an app
  with two has an entry wherever rows of both follow each other; two overlapping syncs leave an
  edit, its undoing and the edit again. An icon that changes alone is no row, and appears with the
  next text.
* *Funnel*: two first syncs at once register two requests at Apple; days published under a request that
  was stopped before a sync read them are not looked for again.
* *Replies*: a sync that fetched before a reply was published may overwrite it, until the next sync.
* *Scoring*: a search that is answered empty scores its term for good; a mined term whose place among
  the suggestions could not be written is not asked about again, and has no index until a crawl
  meets it; passes that run at once compute the same terms.
* *Insights*: passes at once, or a member who reopens an old recommendation, leave the same advice
  twice; advice once dismissed may return; a pass that is retried explains the same anomaly again.
* *Analysis*: a job that ran without a key leaves its review as it is, and while it is known no other
  can be added; a stalled job that ran twice may replace what the model said by the stars.
* *Push tokens*: an older registration, or a verdict on the token a row held before, retires the live
  one; the next registration repairs either.
* *Model budget*: it is checked before it is spent, and an answer that failed or was of no use is in no
  row.
* *Limits*: an EXPIRE that is cut off leaves a counter that never ends; with Redis away requests pass.
  *Cache*: a value may be served for almost twice its ttl, once from Redis and once from the process.
* *Derived metrics*: a derivation over a shorter window may drop or leave rows a longer one wrote.

## Not modelled

Planned (see [plan](#plan)): switching off and deleting an app, quiet hours, the market's
statistics, the remaining ASO algorithms. Not planned: store scrapers and, but for `TrafficFunnel`,
third-party connectors (request and parse code; `ConnectionSync` takes what they may return or
throw), the other read-only routers and exports, the interfaces and the desktop shell, encryption
(its one outcome that matters, readable or not, is in `ConnectionSync` and `PushCampaign`), the
contact form (one insert behind a rate limit), blog content, seeds and one-off scripts. These are
most of the repository's lines: views, marketing pages, content and parsers. Of the modelled
components: the formulas of scores and demand, the comparison of metrics with thresholds, the
wording of digests, resource discovery and the OAuth state key, drafting of replies, prompts and the
normalisation of the model's answers, API keys and audit log are left out.

## Running

    tlc -config MCDelivery.cfg MCDelivery.tla      # module and cfg of each run: PROJECT.json
    tlapm CrawlFrontierProofs.tla
    tlapm PushCampaignProofs.tla
    tlapm AlertEventsProofs.tla
    tlapm ClientsProofs.tla
    tlapm WorkspaceProofs.tla
    tlapm BackgroundProofs.tla
    tlapm IndependentProofs.tla                    # about ten minutes
    tlapm StoreDataProofs.tla                      # about five
