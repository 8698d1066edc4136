----------------------------- MODULE MarketNiche -----------------------------
(***************************************************************************)
(* One niche of the market radar: buildNiche (src/server/market/ingest.ts) *)
(* stores the reviews of the apps that chart, has each classified once by  *)
(* a paid model (market/classify.ts) and replaces the niche's themes       *)
(* (market/themes.ts).  Builds of one niche may overlap: a job that        *)
(* stalled, or one asked for while another runs.                           *)
(***************************************************************************)
EXTENDS Integers, FiniteSets, Functions

CONSTANTS
    App,         \* apps of the category
    Review,      \* reviews the store may show
    Of,          \* Of[r]: the app r is about
    Raises,      \* Raises[r]: the themes the model finds in r
    Wordless,    \* reviews with no text to speak of
    Shown,       \* how many reviews of an app a build fetches: reviewsPerApp, 80 or up to 200
    Limit,       \* how many unanalyzed ones of it are loaded: limit, 100
    BatchSize,   \* BATCH_SIZE, 25
    MinApps,     \* minApps
    Builds,      \* builds that may run side by side
    None,
    MaxBuilds,   \* bound: builds begun
    MaxTroubles  \* bound: fetches, calls and writes that fail, builds that are cut short

VARIABLES
    published, \* reviews the store shows
    stored,    \* MarketReview rows
    analyzed,  \* those with analyzedAt
    themes,    \* the NicheTheme rows
    method,    \* what MarketNiche.method says, and of which reviews and apps
    build,     \* build[b]: an execution of buildNiche
    paid,      \* ghost: paid[r], how often the model was paid to read r
    crowded,   \* ghost: two builds have been at work at the same time
    used

vars == <<published, stored, analyzed, themes, method, build, paid, crowded, used>>

Idle == [phase |-> "idle"]
About(apps) == {r \in Review : Of[r] \in apps}
Spend == used.troubles < MaxTroubles /\ used' = [used EXCEPT !.troubles = @ + 1]

Init ==
    /\ published = {} /\ stored = {} /\ analyzed = {} /\ themes = {}
    /\ method = None
    /\ build = [b \in Builds |-> Idle]
    /\ paid = [r \in Review |-> 0]
    /\ crowded = FALSE
    /\ used = [builds |-> 0, troubles |-> 0]

Publish(r) ==
    /\ r \notin published
    /\ published' = published \union {r}
    /\ UNCHANGED <<stored, analyzed, themes, method, build, paid, crowded, used>>

-----------------------------------------------------------------------------
(* Apps                                                                    *)

In(b, phase) == build[b].phase = phase

\* The niche is upserted, and `apps`, those that chart and whose listing could be read,
\* are collected.
Begin(b, apps) ==
    /\ In(b, "idle")
    /\ used.builds < MaxBuilds /\ used' = [used EXCEPT !.builds = @ + 1]
    /\ build' = [build EXCEPT ![b] =
                   [phase |-> "next", apps |-> apps, todo |-> apps, app |-> None, pending |-> {},
                    batch |-> {}, took |-> {}, left |-> {}, read |-> 0, failed |-> 0, unclassified |-> 0]]
    /\ crowded' = (crowded \/ \E c \in Builds : ~In(c, "idle"))
    /\ UNCHANGED <<published, stored, analyzed, themes, method, paid>>

Next1(w) == [w EXCEPT !.phase = "next", !.todo = @ \ {w.app}, !.app = None,
                      !.pending = {}, !.batch = {}]

\* The first n of a list of `reviews`, in whatever order it comes.
First(n, reviews) ==
    {c \in SUBSET reviews : Cardinality(c) = n \/ (c = reviews /\ Cardinality(c) < n)}

\* ingestReviews; `took` is what has been stored of the apps read.
Ingest(b, a) ==
    /\ In(b, "next") /\ a \in build[b].todo
    /\ \E reviews \in First(Shown, published \intersect About({a})) : stored' = stored \union reviews
    /\ build' = [build EXCEPT ![b].phase = "classify", ![b].app = a, ![b].read = @ + 1,
                              ![b].took = @ \union (stored' \intersect About({a}))]
    /\ UNCHANGED <<published, analyzed, themes, method, paid, crowded, used>>

\* One throttled app does not stop the others.
IngestFails(b, a) ==
    /\ In(b, "next") /\ a \in build[b].todo
    /\ Spend
    /\ build' = [build EXCEPT ![b].todo = @ \ {a}, ![b].failed = @ + 1]
    /\ UNCHANGED <<published, stored, analyzed, themes, method, paid, crowded>>

-----------------------------------------------------------------------------
(* classifyReviews                                                         *)

\* mutant: a run classifies whatever is stored
UnanalyzedAll(a) == stored \intersect About({a})

Unanalyzed(a) == (stored \ analyzed) \intersect About({a})

Rest(w) == IF w.pending = {} THEN Next1(w) ELSE [w EXCEPT !.phase = "call", !.batch = {}]

\* `left` is what the limit leaves for another build.
Load(b) ==
    /\ In(b, "classify")
    /\ \E reviews \in First(Limit, Unanalyzed(build[b].app)) :
         LET w == [build[b] EXCEPT !.pending = reviews,
                                   !.left = @ \union (Unanalyzed(build[b].app) \ reviews)]
         IN  build' = [build EXCEPT ![b] = IF reviews \intersect Wordless = {} THEN Rest(w)
                                           ELSE [w EXCEPT !.phase = "wordless"]]
    /\ UNCHANGED <<published, stored, analyzed, themes, method, paid, crowded, used>>

\* What has no text is stamped without a call.
StampWordless(b) ==
    /\ In(b, "wordless")
    /\ analyzed' = analyzed \union (build[b].pending \intersect Wordless)
    /\ build' = [build EXCEPT ![b] = Rest([build[b] EXCEPT !.pending = @ \ Wordless])]
    /\ UNCHANGED <<published, stored, themes, method, paid, crowded, used>>

Paid(batch) == [r \in Review |-> IF r \in batch THEN paid[r] + 1 ELSE paid[r]]

Call(b) ==
    /\ In(b, "call")
    /\ \E batch \in First(BatchSize, build[b].pending) :
         /\ paid' = Paid(batch)
         /\ build' = [build EXCEPT ![b].phase = "stamp", ![b].batch = batch]
    /\ UNCHANGED <<published, stored, analyzed, themes, method, crowded, used>>

\* mutant: one counter for apps that could not be fetched or not be classified
UncountedFailure(w) == Next1([w EXCEPT !.failed = @ + 1])

Unclassified(w) == Next1([w EXCEPT !.unclassified = @ + 1])

\* The budget is spent, the service is away, or its answer, paid for, is of no use.
CallFails(b) ==
    /\ In(b, "call")
    /\ Spend
    /\ \E batch \in First(BatchSize, build[b].pending) \union {{}} : paid' = Paid(batch)
    /\ build' = [build EXCEPT ![b] = Unclassified(@)]
    /\ UNCHANGED <<published, stored, analyzed, themes, method, crowded>>

Stamp(b) ==
    /\ In(b, "stamp")
    /\ analyzed' = analyzed \union build[b].batch
    /\ build' = [build EXCEPT ![b] = Rest([build[b] EXCEPT !.pending = @ \ build[b].batch])]
    /\ UNCHANGED <<published, stored, themes, method, paid, crowded, used>>

StampFails(b) ==
    /\ In(b, "stamp")
    /\ Spend
    /\ build' = [build EXCEPT ![b] = Unclassified(@)]
    /\ UNCHANGED <<published, stored, analyzed, themes, method, paid, crowded>>

-----------------------------------------------------------------------------
(* deriveThemes                                                            *)

\* aggregateThemes: what enough apps have in common.
Aggregate(reviews) ==
    LET raised == UNION {Raises[r] : r \in reviews}
    IN  {x \in raised : Cardinality({Of[r] : r \in {q \in reviews : x \in Raises[q]}}) >= MinApps}

ReadRows(b) ==
    /\ In(b, "next") /\ build[b].todo = {}
    /\ build' = [build EXCEPT ![b].phase = "replace",
                              ![b].pending = analyzed \intersect About(build[b].apps)]
    /\ UNCHANGED <<published, stored, analyzed, themes, method, paid, crowded, used>>

Replace(b) ==
    /\ In(b, "replace")
    /\ themes' = Aggregate(build[b].pending)
    /\ build' = [build EXCEPT ![b].phase = "describe"]
    /\ UNCHANGED <<published, stored, analyzed, method, paid, crowded, used>>

Describe(b) ==
    /\ In(b, "describe")
    /\ method' = [apps |-> build[b].apps, took |-> build[b].took, left |-> build[b].left, read |-> build[b].read,
                  failed |-> build[b].failed, unclassified |-> build[b].unclassified]
    /\ build' = [build EXCEPT ![b] = Idle]
    /\ UNCHANGED <<published, stored, analyzed, themes, paid, crowded, used>>

\* The worker dies, or a statement fails; an attempt that follows is one more build.
Cut(b) ==
    /\ ~In(b, "idle")
    /\ Spend
    /\ build' = [build EXCEPT ![b] = Idle]
    /\ UNCHANGED <<published, stored, analyzed, themes, method, paid, crowded>>

Next ==
    \/ \E r \in Review : Publish(r)
    \/ \E b \in Builds :
        \/ (\E apps \in SUBSET App : Begin(b, apps)) \/ (\E a \in App : Ingest(b, a) \/ IngestFails(b, a))
        \/ Load(b) \/ StampWordless(b) \/ Call(b) \/ CallFails(b) \/ Stamp(b) \/ StampFails(b)
        \/ ReadRows(b) \/ Replace(b) \/ Describe(b) \/ Cut(b)

Spec == Init /\ [][Next]_vars

-----------------------------------------------------------------------------
(* Properties                                                              *)

\* Once per review, ever: a review is paid for again only if a call, its stamp or a build
\* failed, or two builds ran at the same time; one without text is never paid for.
PaidOnce ==
    \A r \in Review :
        /\ paid[r] <= 1 + used.troubles \/ crowded
        /\ r \in Wordless => paid[r] = 0

\* The sentence beneath the numbers carries the shortfall: if it names none, whatever was
\* stored of the apps it counts has been classified, whoever else was building the niche -
\* but for what a backlog longer than the limit leaves.
ShortfallShown ==
    method # None =>
        /\ method.unclassified = 0 => method.took \ method.left \subseteq analyzed
        /\ method.read + method.failed = Cardinality(method.apps)

\* A theme that has stopped being raised is gone: between builds the themes are those of
\* the apps the sentence is about.
ThemesCurrent ==
    method # None /\ ~crowded /\ used.troubles = 0 /\ (\A b \in Builds : In(b, "idle"))
        => themes = Aggregate(analyzed \intersect About(method.apps))

\* What the niche's page says of its reviews is so, the themes and the sentence beneath.
ThemesHonest == ShortfallShown /\ ThemesCurrent
=============================================================================
