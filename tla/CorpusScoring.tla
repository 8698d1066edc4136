----------------------------- MODULE CorpusScoring -----------------------------
(***************************************************************************)
(* What becomes of the terms the crawl has found, for one store and one    *)
(* country.  Each build-corpus process (scripts/build-corpus.ts) scores    *)
(* the competition for terms in its difficulty lane                        *)
(* (src/server/aso/difficulty.ts); its maintenance lane, and the worker's  *)
(* corpus.estimate job, compute the demand index anew                      *)
(* (src/server/aso/corpus.ts), after which the lane asks the store whether *)
(* anyone searches for the terms mined from charts                         *)
(* (src/server/aso/mining.ts).  Nothing is claimed: every process derives  *)
(* what to do from the rows.                                               *)
(***************************************************************************)
EXTENDS Integers, Sequences, FiniteSets, SequencesExt

CONSTANTS
    Term,
    Mined,        \* those of them found by mining charts
    Process,      \* build-corpus processes
    Keeper,       \* what computes estimates: the processes, and the worker's job
    Legacy,       \* rows of keyword_competition from before topApps and ratings were kept
    rescore, backfill, \* --rescore-without-basis, --backfill-top-apps
    Batch,        \* terms a difficulty lane loads at once, 200
    Limit,        \* terms a pass takes, 20,000 or 500
    None,
    MaxObserved,  \* bound: suggestions of one term
    MaxTroubles   \* bound: calls that throw, processes that die

VARIABLES
    row,      \* row[t]: the competition for t, None until it is scored
    observed, \* observed[t]: its SUGGEST_RANK signals
    contains, \* contains[t]: the values of its SUGGEST_CONTAINS signals
    estimate, \* estimate[t]: how many signals its estimate is the mean of, 0 without one
    oldest,   \* the terms that have an estimate, by computedAt
    lane,     \* lane[p]: the terms loaded, and the one being scored
    keeper,   \* keeper[k]: the estimates left to write or the terms left to ask for
    did,      \* ghost: what a process has done and need not do again, and whether it has
    turns,    \* ghost: the terms that passes took while t waited, ahead[t]; whether one was
              \* taken twice
    half,     \* ghost: terms left half asked
    used

vars == <<row, observed, contains, estimate, oldest, lane, keeper, did, turns, half, used>>

NoLane == [queue |-> {}, term |-> None]
Idle == [at |-> "idle", work |-> <<>>]
Spend == used < MaxTroubles /\ used' = used + 1

Known == {t \in Term : t \in Mined \/ observed[t] > 0}
Nobody == [t \in Term |-> {}]

Init ==
    /\ observed \in [Term -> {0, 1}]
    /\ row \in [Term -> Legacy \union {None}]
    /\ \A t \in Term \ Known : row[t] = None
    /\ contains = [t \in Term |-> {}]
    /\ estimate = [t \in Term |-> 0] /\ oldest = <<>>
    /\ lane = [p \in Process |-> NoLane]
    /\ keeper = [k \in Keeper |-> Idle]
    /\ did = [once |-> {}, again |-> {}]
    /\ turns = [ahead |-> Nobody, overtaken |-> FALSE]
    /\ half = {}
    /\ used = 0

\* A lane of the crawl observes a term (CrawlFrontier).
Observe(t) ==
    /\ observed[t] < MaxObserved
    /\ observed' = [observed EXCEPT ![t] = @ + 1]
    /\ UNCHANGED <<row, contains, estimate, oldest, lane, keeper, did, turns, half, used>>

Done(p, what, t) ==
    did' = IF <<p, what, t>> \in did.once
           THEN [did EXCEPT !.again = @ \union {<<p, what, t>>}]
           ELSE [did EXCEPT !.once = @ \union {<<p, what, t>>}]

-----------------------------------------------------------------------------
(* The difficulty lane.                                                    *)

\* mutant: the basis is read off the ratings alone, which one store never shows
Uncounted(r) == ~r.counted

\* Computed with neither ratings nor a word that there are none.
WithoutBasis(r) == ~r.counted /\ ~r.starsOnly

\* mutant: a term for which the store lists nothing is taken for one never read
Appless(r) == ~r.apps

\* Apps rank for it and are not in the row.
WithoutApps(r) == ~r.apps /\ r.found

Scored == {t \in Known : row[t] # None}
Indexed == {t \in Known \ Scored : estimate[t] > 0}

\* The first of the selections that selects anything.
Candidates ==
    LET baseless == {t \in Scored : rescore /\ WithoutBasis(row[t])}
        appless == {t \in Scored : backfill /\ WithoutApps(row[t])}
    IN  IF baseless # {} THEN baseless
        ELSE IF appless # {} THEN appless
        ELSE IF Indexed # {} THEN Indexed
        ELSE Known \ Scored

\* pendingCompetition, by demand; no floor is asked for.
Refill(p) ==
    /\ lane[p] = NoLane
    /\ \E loaded \in SUBSET Candidates :
        /\ loaded # {}
        /\ loaded = Candidates \/ Cardinality(loaded) = Batch
        /\ Cardinality(loaded) <= Batch
        /\ lane' = [lane EXCEPT ![p].queue = loaded]
    /\ UNCHANGED <<row, observed, contains, estimate, oldest, keeper, did, turns, half, used>>

Take(p, t) ==
    /\ lane[p].term = None /\ t \in lane[p].queue
    /\ lane' = [lane EXCEPT ![p] = [queue |-> lane[p].queue \ {t}, term |-> t]]
    /\ UNCHANGED <<row, observed, contains, estimate, oldest, keeper, did, turns, half, used>>

\* The row for a search that lists apps or none, with ratings or without.
Competition(found, counted) ==
    [found |-> found, apps |-> found, counted |-> counted, starsOnly |-> ~counted]

\* scoreCompetition
Score(p, found, counted) ==
    LET t == lane[p].term IN
    /\ t # None
    /\ counted => found
    /\ row' = [row EXCEPT ![t] = Competition(found, counted)]
    /\ Done(p, "score", t)
    /\ lane' = [lane EXCEPT ![p].term = None]
    /\ UNCHANGED <<observed, contains, estimate, oldest, keeper, turns, half, used>>

\* The store refuses: the lane backs off and goes on with the next term.
ScoreFails(p) ==
    /\ lane[p].term # None /\ Spend
    /\ lane' = [lane EXCEPT ![p].term = None]
    /\ UNCHANGED <<row, observed, contains, estimate, oldest, keeper, did, turns, half>>

-----------------------------------------------------------------------------
(* recomputeEstimates                                                      *)

Missing == {t \in Term : observed[t] > 0 /\ estimate[t] = 0}

\* What a pass takes: terms with no estimate, then those computed longest ago.
Taken(chosen) ==
    LET room == Limit - Len(chosen)
    IN  chosen \o SubSeq(oldest, 1, IF room < Len(oldest) THEN room ELSE Len(oldest))

Estimating(k) == \E o \in Keeper \ {k} : keeper[o].at = "estimate"

\* A pass takes `due`, and whoever it does not take waits.
Waits(k, due) ==
    IF Estimating(k) THEN turns' = [turns EXCEPT !.ahead = Nobody]
    ELSE LET waiting == {t \in Term : observed[t] > 0} \ due IN
         turns' = [ahead |-> [t \in Term |-> IF t \in waiting THEN turns.ahead[t] \union due ELSE {}],
                   overtaken |-> \/ turns.overtaken
                                 \/ \E t \in waiting : turns.ahead[t] \intersect due # {}]

BeginPass(k) ==
    /\ keeper[k] = Idle
    /\ \E chosen \in SetToAllKPermutations(Missing) :
        /\ Len(chosen) <= Limit
        /\ Len(chosen) = Limit \/ ToSet(chosen) = Missing
        /\ LET due == Taken(chosen) IN
           /\ keeper' = [keeper EXCEPT ![k] =
                [at |-> "estimate",
                 work |-> [n \in DOMAIN due |-> [term |-> due[n], mean |-> observed[due[n]]]]]]
           /\ Waits(k, ToSet(due))
    /\ UNCHANGED <<row, observed, contains, estimate, oldest, lane, did, half, used>>

\* mutant: computedAt stays what it was when the row was made
StampedOnce(t) == IF estimate[t] = 0 THEN Append(oldest, t) ELSE oldest

\* A term is in there once.
Stamped(t) ==
    LET of == {n \in DOMAIN oldest : oldest[n] = t}
    IN  Append(IF of = {} THEN oldest ELSE RemoveAt(oldest, CHOOSE n \in of : TRUE), t)

WriteEstimate(k) ==
    /\ keeper[k].at = "estimate" /\ keeper[k].work # <<>>
    /\ LET due == Head(keeper[k].work) IN
       /\ estimate' = [estimate EXCEPT ![due.term] = due.mean]
       /\ oldest' = Stamped(due.term)
    /\ keeper' = [keeper EXCEPT ![k].work = Tail(@)]
    /\ UNCHANGED <<row, observed, contains, lane, did, turns, half, used>>

-----------------------------------------------------------------------------
(* validateMinedTerms                                                      *)

\* mutant: keyed on a confirmation that most mined terms never get
Unconfirmed == {t \in Mined : observed[t] = 0}

Unasked == {t \in Mined : contains[t] = {}}

\* The worker's job is done when its estimates are; a process turns to the mined terms.
EndPass(k) ==
    /\ keeper[k].at = "estimate" /\ keeper[k].work = <<>>
    /\ keeper' = [keeper EXCEPT ![k] =
            IF k \in Process
            THEN [at |-> "validate", work |-> [n \in 1 .. Cardinality(Unasked) |->
                                                [term |-> SetToSeq(Unasked)[n]]]]
            ELSE Idle]
    /\ UNCHANGED <<row, observed, contains, estimate, oldest, lane, did, turns, half, used>>

\* The store is asked, and what it says is kept either way.
Ask(k, offered) ==
    /\ keeper[k].at = "validate" /\ keeper[k].work # <<>>
    /\ LET t == Head(keeper[k].work).term IN
       /\ contains' = [contains EXCEPT ![t] = @ \union {offered}]
       /\ Done(k, "ask", t)
       /\ half' = IF offered THEN half \union {t} ELSE half
    /\ keeper' = [keeper EXCEPT ![k] = IF offered THEN [keeper[k] EXCEPT !.at = "confirm"]
                                       ELSE [keeper[k] EXCEPT !.work = Tail(@)]]
    /\ UNCHANGED <<row, observed, estimate, oldest, lane, turns, used>>

\* Its place among the suggestions is a SUGGEST_RANK like a crawl's.
Confirm(k) ==
    /\ keeper[k].at = "confirm"
    /\ LET t == Head(keeper[k].work).term IN
       /\ observed' = [observed EXCEPT ![t] = IF @ < MaxObserved THEN @ + 1 ELSE @]
       /\ half' = half \ {t}
    /\ keeper' = [keeper EXCEPT ![k] = [at |-> "validate", work |-> Tail(keeper[k].work)]]
    /\ UNCHANGED <<row, contains, estimate, oldest, lane, did, turns, used>>

EndValidation(k) ==
    /\ keeper[k].at = "validate" /\ keeper[k].work = <<>>
    /\ keeper' = [keeper EXCEPT ![k] = Idle]
    /\ UNCHANGED <<row, observed, contains, estimate, oldest, lane, did, turns, half, used>>

\* A call throws, and what was left of the round is dropped.
Cut(k) ==
    /\ keeper[k] # Idle /\ Spend
    /\ keeper' = [keeper EXCEPT ![k] = Idle]
    /\ turns' = [turns EXCEPT !.ahead = Nobody]
    /\ UNCHANGED <<row, observed, contains, estimate, oldest, lane, did, half>>

\* A process dies; the one started in its place begins from the rows.
Die(p) ==
    /\ Spend
    /\ lane' = [lane EXCEPT ![p] = NoLane]
    /\ keeper' = [keeper EXCEPT ![p] = Idle]
    /\ turns' = [turns EXCEPT !.ahead = Nobody]
    /\ UNCHANGED <<row, observed, contains, estimate, oldest, did, half>>

Next ==
    \/ \E t \in Term : Observe(t)
    \/ \E p \in Process :
        \/ Refill(p) \/ (\E t \in Term : Take(p, t)) \/ ScoreFails(p) \/ Die(p)
        \/ \E found, counted \in BOOLEAN : Score(p, found, counted)
    \/ \E k \in Keeper :
        \/ BeginPass(k) \/ WriteEstimate(k) \/ EndPass(k) \/ Confirm(k) \/ EndValidation(k)
        \/ Cut(k) \/ \E offered \in BOOLEAN : Ask(k, offered)

Spec == Init /\ [][Next]_vars

-----------------------------------------------------------------------------
(* Properties                                                              *)

\* The lanes make progress through the corpus with nothing but its rows to go by: a process
\* scores a term once, whatever the search lists and whichever selections are on, and asks
\* the store about a mined term once; no term is computed anew twice while another waits,
\* unless passes ran at once or were cut short; and a term the store offered has an index
\* to come, unless the round ended between the two signals that say so.
CorpusMovesOn ==
    /\ did.again = {}
    /\ ~turns.overtaken
    /\ \A t \in Term : TRUE \in contains[t] => observed[t] > 0 \/ t \in half
=============================================================================
