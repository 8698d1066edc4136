---------------------------- MODULE KeywordClusters ----------------------------
(***************************************************************************)
(* Grouping a member's terms: research.cluster                             *)
(* (src/server/api/routers/research.ts) reads what the corpus has observed *)
(* of them - completions, charts, results - and cluster                    *)
(* (src/server/aso/clustering.ts) builds stars around the terms most       *)
(* searched.  A term has a row once something has been observed of it.     *)
(***************************************************************************)
EXTENDS Integers, FiniteSets, FiniteSetsExt

CONSTANTS
    Term,
    Words,          \* Words[t]: the words of t
    Prefix,         \* what the crawl asks the store to complete; a term may be among them
    Chart,
    Country,
    Length,         \* Length[c]: the characters of a prefix, of the name of a chart, of a country
    Tops,           \* sets of apps that may rank for a term
    MaxDemand,
    MaxObservations \* bound: crawls, chart readings, checks of a mined term, searches

VARIABLES
    demand,    \* demand[t]: the estimate of how much it is searched
    discovery, \* discovery[t]: how the corpus came by it
    signals,   \* signals[t]: its signals that have a context
    topApps,   \* topApps[t]: the apps that rank for it
    asked,     \* the terms of the member's request that the corpus knows
    star,      \* star[c]: the cluster around c, {} if c is no centre
    observed

vars == <<demand, discovery, signals, topApps, asked, star, observed>>

Known == {t \in Term : discovery[t] # "none"}

Init ==
    /\ demand \in [Term -> 0 .. MaxDemand]
    /\ discovery = [t \in Term |-> "none"]
    /\ signals = [t \in Term |-> {}]
    /\ topApps = [t \in Term |-> {}]
    /\ asked = {}
    /\ star = [c \in Term |-> {}]
    /\ observed = 0

-----------------------------------------------------------------------------
(* What the corpus observes                                                *)

Observe == asked = {} /\ observed < MaxObservations /\ observed' = observed + 1

Found(ts, how) ==
    discovery' = [t \in Term |-> IF t \in ts /\ t \notin Known THEN how ELSE discovery[t]]
Signal(ts, source, context) ==
    signals' = [t \in Term |-> IF t \in ts THEN signals[t] \union {<<source, context>>} ELSE signals[t]]

\* The store completes a prefix with the terms ts.
CrawlPrefix(p, ts) ==
    /\ Observe /\ Found(ts, "PREFIX_CRAWL") /\ Signal(ts, "SUGGEST_RANK", p)
    /\ UNCHANGED <<demand, topApps, asked, star>>

\* The apps of a chart use the terms ts.
MineCategory(c, ts) ==
    /\ Observe /\ Found(ts, "METADATA_MINING") /\ Signal(ts, "CHART_PRESENCE", c)
    /\ UNCHANGED <<demand, topApps, asked, star>>

\* A mined term is its own prefix; that the store does not offer it is a signal as well.
Validate(t, offered) ==
    /\ Observe /\ discovery[t] = "METADATA_MINING" /\ <<"SUGGEST_CONTAINS", t>> \notin signals[t]
    /\ signals' = [signals EXCEPT ![t] = @ \union {<<"SUGGEST_CONTAINS", t>>}
                                           \union IF offered THEN {<<"SUGGEST_RANK", t>>} ELSE {}]
    /\ UNCHANGED <<demand, discovery, topApps, asked, star>>

\* The difficulty of a term keeps the apps that rank for it.
ScoreCompetition(t, top) ==
    /\ Observe /\ t \in Known
    /\ topApps' = [topApps EXCEPT ![t] = top]
    /\ Signal({t}, "RESULT_COUNT", Country)
    /\ UNCHANGED <<demand, discovery, asked, star>>

-----------------------------------------------------------------------------
(* What relates two terms, in parts of Unit; the router passes no categories.  The parts *)
(* are rounded down, which no comparison with a whole number of them tells apart.        *)

Unit == 1200
Threshold == 540     \* 0.45
Floor == 360         \* 0.3
Corroboration == 120 \* 0.1
SERP_TARGET == 5
Shortest == 4        \* up to here a prefix is a mere stem

AtMost(n, limit) == IF n > limit THEN limit ELSE n
AtLeast(n, limit) == IF n < limit THEN limit ELSE n

\* mutant: four characters used to clear the bar
PrefixWeightSteep(p) == AtLeast(AtMost((Length[p] - 1) * (Unit \div 5), Unit), Unit \div 20)

PrefixWeight(p) == AtLeast(AtMost((Length[p] - 2) * (Unit \div 5), Unit), Unit \div 20)

\* The request passes the contexts of all signals as prefixes.
Prefixes(t) == {s[2] : s \in signals[t]}

PrefixScore(a, b) ==
    LET shared == Prefixes(a) \intersect Prefixes(b)
    IN  IF shared = {} THEN 0 ELSE Max({PrefixWeight(p) : p \in shared})

TokenOverlap(a, b) ==
    LET all == Words[a] \union Words[b]
    IN  IF all = {} THEN 0
        ELSE (Unit * Cardinality(Words[a] \intersect Words[b])) \div Cardinality(all)

SerpOverlap(a, b) ==
    AtMost(Cardinality(topApps[a] \intersect topApps[b]) * (Unit \div SERP_TARGET), Unit)

Evidence(a, b) ==
    [results |-> SerpOverlap(a, b), prefix |-> PrefixScore(a, b), words |-> TokenOverlap(a, b)]

Reasons == {"results", "prefix", "words"}
Best(e) == CHOOSE r \in Reasons : \A o \in Reasons : e[o] <= e[r]
Corroborating(e) == {r \in Reasons \ {Best(e)} : e[r] >= Floor}

\* mutant: the evidence is added up
RelatednessSummed(e) == e["results"] + e["prefix"] + e["words"]

\* The strongest evidence, and a little for each that agrees.
Relatedness(e) == AtMost(e[Best(e)] + Corroboration * Cardinality(Corroborating(e)), Unit)

Related(a, b) == Relatedness(Evidence(a, b)) >= Threshold

-----------------------------------------------------------------------------
(* The request                                                             *)

Cluster(ts) ==
    /\ asked = {} /\ ts # {}
    /\ asked' = ts
    /\ UNCHANGED <<demand, discovery, signals, topApps, star, observed>>

Taken == UNION {star[c] : c \in Term}
Remaining == asked \ Taken

\* mutant: whatever relates to a member joins
JoinsAny(c, t) == \E m \in Remaining : Related(c, m) /\ Related(m, t)

Joins(c, t) == Related(c, t)

\* The sort by demand leaves terms of one demand in any order.
Centre(c) ==
    /\ c \in Remaining /\ \A t \in Remaining : demand[t] <= demand[c]
    /\ star' = [star EXCEPT ![c] = {t \in Remaining : t = c \/ Joins(c, t)}]
    /\ UNCHANGED <<demand, discovery, signals, topApps, asked, observed>>

Next ==
    \/ \E ts \in SUBSET Term \ {{}} :
        \/ \E p \in Prefix : CrawlPrefix(p, ts)
        \/ \E c \in Chart : MineCategory(c, ts)
        \/ ts \subseteq Known /\ Cluster(ts)
    \/ \E t \in Term :
        \/ \E offered \in BOOLEAN : Validate(t, offered)
        \/ \E top \in Tops : ScoreCompetition(t, top)
        \/ Centre(t)

Spec == Init /\ [][Next]_vars

-----------------------------------------------------------------------------
(* Properties                                                              *)

Centres == {c \in Term : star[c] # {}}
Members(c) == star[c] \ {c}

\* Clusters are stars and not chains, and no term is in two: a member relates to the centre
\* itself, which is searched no less; and where it relates to two centres, it is with the one
\* that is searched no less.
Stars ==
    \A c \in Centres :
        /\ c \in star[c]
        /\ \A t \in Members(c) : Related(c, t) /\ demand[t] <= demand[c]
        /\ \A d \in Centres, t \in star[c] : Related(d, t) => demand[d] <= demand[c]
        /\ \A d \in Centres \ {c} : star[c] \intersect star[d] = {}

\* Two clusters never share a subject: their centres do not relate.
CentresApart == \A c, d \in Centres : c # d => ~Related(c, d)

\* A short prefix cannot group two terms on its own: without a longer one something else
\* agrees with it.
NoStemAlone ==
    \A c \in Centres : \A t \in Members(c) :
        \/ \E p \in Prefixes(c) \intersect Prefixes(t) : Length[p] > Shortest
        \/ SerpOverlap(c, t) >= Floor \/ TokenOverlap(c, t) >= Floor

\* The groups of a member's terms.
ClustersAreStars == Stars /\ CentresApart /\ NoStemAlone

\* "Both terms were returned by the store for the same autocomplete prefix": where the
\* completions are the strongest evidence of a group, they are completions of one prefix
\* that the store returned for both.
Completed(t) == {s[2] : s \in {r \in signals[t] : r[1] = "SUGGEST_RANK"}}
CompletedTogether ==
    \A c \in Centres : \A t \in Members(c) :
        LET e == Evidence(c, t) IN
        e["prefix"] > e["results"] /\ e["prefix"] >= e["words"] =>
            \E p \in Completed(c) \intersect Completed(t) : PrefixWeight(p) = e["prefix"]
================================================================================
