---------------------------- MODULE CrawlFrontier ----------------------------
(***************************************************************************)
(* The keyword crawl: rows of crawl_tasks (src/server/aso/frontier.ts),    *)
(* worked by the lanes of one or more build-corpus processes               *)
(* (scripts/build-corpus.ts) that fetch a prefix's autocomplete, write its *)
(* terms into the corpus (src/server/aso/corpus.ts), mark the row done and *)
(* queue the children it earned.  Every await of the code is a step        *)
(* boundary, so lanes of the same or of another process interleave there,  *)
(* a process may die there, and a stale-claim release may happen there.    *)
(***************************************************************************)
EXTENDS Integers, FiniteSets

CONSTANTS
    Task,        \* rows of crawl_tasks: a prefix (or a category) of one store
    Root,        \* the rows seedAlphabet and seedCategories insert
    Children,    \* Children[t]: prefix+letter and prefix+space+letter
    Depth,       \* Depth[t]: the row's depth column
    Suggest,     \* Suggest[t]: the useful terms the store answers for t
    Term,        \* candidate rows of keyword_terms
    NoTask, NoTerm,
    Run,         \* build-corpus processes
    Lane,        \* prefix lanes (one per store and process)
    RunOf,       \* RunOf[l]: the process a lane lives in
    Serves,      \* Serves[l]: the rows of the lane's kind, store and country
    Threshold,   \* new terms a prefix must produce to earn children
    MaxDepth,    \* hard stop on how deep the walk goes
    MaxAttempts, \* failTask's maxAttempts
    MaxErrors,   \* bound: calls that throw
    MaxCrashes,  \* bound: processes that die
    MaxSleeps,   \* bound: live claims that grow older than the cutoff
    MaxStops,    \* bound: processes told to stop
    MaxTroubles  \* bound: all four together

ASSUME CrawlAssumption ==
    /\ NoTask \notin Task /\ NoTerm \notin Term
    /\ Root \subseteq Task
    /\ Children \in [Task -> SUBSET Task]
    /\ Depth \in [Task -> Nat]
    /\ Suggest \in [Task -> SUBSET Term]
    /\ RunOf \in [Lane -> Run]
    /\ Serves \in [Lane -> SUBSET Task]
    /\ Threshold \in Nat \ {0}
    /\ MaxDepth \in Nat
    /\ MaxAttempts \in Nat \ {0}
    /\ {MaxErrors, MaxCrashes, MaxSleeps, MaxStops, MaxTroubles} \subseteq Nat

VARIABLES
    task,     \* task[t]: the row; ABSENT until it is inserted (`queued` is a ghost:
              \* how often the row has entered the queue)
    corpus,   \* the rows of keyword_terms
    signal,   \* <<t, x>>: task t observed term x (keyword_signals)
    run,      \* run[r]: the process's `stopping` flag, or down
    lane,     \* lane[l]: where the lane stands and its local variables
    aged,     \* rows whose startedAt is older than the release cutoff
    dropped,  \* a ghost: rows a lane let go of, since their last claim, without
              \* finishing them or writing failTask's verdict
    errors, crashes, sleeps, stops

bounds == <<errors, crashes, sleeps, stops>>
vars == <<task, corpus, signal, run, lane, aged, dropped, bounds>>

TaskState == {"ABSENT", "PENDING", "RUNNING", "DONE", "FAILED"}

\* The awaits of a lane that has a task in hand, in program order.
Working == {"fetch", "lookup", "create", "signal", "complete", "expand",
            "fail", "requeue", "bury"}
Pc == {"idle", "picked"} \union Working

\* A lane between tasks.  Its locals: the claimed task, the row's attempts at the
\* claim (a ghost), the suggestions left to write, the one being written, and the
\* terms this execution created (result.created).
Idle == [pc |-> "idle", task |-> NoTask, claim |-> 0, todo |-> {},
         term |-> NoTerm, created |-> 0]

Works(l, t) == lane[l].pc \in Working /\ lane[l].task = t

Troubles == errors + crashes + sleeps + stops
InState(s) == {t \in Task : task[t].state = s}

-----------------------------------------------------------------------------
(* A process starts, stops and dies.                                       *)

Init ==
    /\ task = [t \in Task |-> [state |-> "ABSENT", attempts |-> 0, discovered |-> 0,
                          queued |-> 0]]
    /\ corpus = {}
    /\ signal = {}
    /\ run = [r \in Run |-> "down"]
    /\ lane = [l \in Lane |-> Idle]
    /\ aged = {}
    /\ dropped = {}
    /\ errors = 0 /\ crashes = 0 /\ sleeps = 0 /\ stops = 0

Requeued(row) ==
    IF row.state = "PENDING" THEN row
    ELSE [row EXCEPT !.state = "PENDING", !.queued = @ + 1]

\* Insert rows that do not exist yet (createMany ... skipDuplicates).
Queued(tasks, rows) ==
    [t \in Task |-> IF t \in tasks /\ rows[t].state = "ABSENT"
                    THEN Requeued(rows[t]) ELSE rows[t]]

\* mutant: rows whose attempts are used up are not handed back
ReleasedUnspent(tasks, rows) ==
    [t \in Task |-> IF t \in tasks /\ rows[t].state = "RUNNING" /\ rows[t].attempts < MaxAttempts
                    THEN Requeued(rows[t]) ELSE rows[t]]

\* releaseStale: RUNNING rows among `tasks` become PENDING again.
Released(tasks, rows) ==
    [t \in Task |-> IF t \in tasks /\ rows[t].state = "RUNNING"
                    THEN Requeued(rows[t]) ELSE rows[t]]

\* main(): releaseStale(0), then seed the roots, then start the lanes.
Start(r) ==
    /\ run[r] = "down"
    /\ run' = [run EXCEPT ![r] = "up"]
    /\ task' = Queued(Root, Released(Task, task))
    /\ aged' = {}
    /\ UNCHANGED <<corpus, signal, lane, dropped, bounds>>

\* SIGINT, the term target or the deadline: the lanes finish the task in hand.
Stop(r) ==
    /\ run[r] = "up"
    /\ stops < MaxStops /\ Troubles < MaxTroubles
    /\ stops' = stops + 1
    /\ run' = [run EXCEPT ![r] = "stopping"]
    /\ UNCHANGED <<task, corpus, signal, lane, aged, dropped, errors, crashes, sleeps>>

\* Promise.all(lanes) has resolved: the closing releaseStale(0), then exit.
Exit(r) ==
    /\ run[r] = "stopping"
    /\ \A l \in Lane : RunOf[l] = r => lane[l].pc = "idle"
    /\ run' = [run EXCEPT ![r] = "down"]
    /\ task' = Released(Task, task)
    /\ aged' = {}
    /\ UNCHANGED <<corpus, signal, lane, dropped, bounds>>

Crash(r) ==
    /\ run[r] # "down"
    /\ crashes < MaxCrashes /\ Troubles < MaxTroubles
    /\ crashes' = crashes + 1
    /\ run' = [run EXCEPT ![r] = "down"]
    /\ lane' = [l \in Lane |-> IF RunOf[l] = r THEN Idle ELSE lane[l]]
    /\ dropped' = dropped \union {t \in Task : \E l \in Lane : RunOf[l] = r /\ Works(l, t)}
    /\ UNCHANGED <<task, corpus, signal, aged, errors, sleeps, stops>>

-----------------------------------------------------------------------------
(* Time: a claim passes the 30-minute cutoff of releaseStale.              *)

HasClaimant(t) ==
    \E l \in Lane : Works(l, t) /\ lane[l].claim = task[t].attempts

\* A claim nobody works grows old; one that is worked only if its machine slept.
Age(t) ==
    /\ task[t].state = "RUNNING"
    /\ t \notin aged
    /\ HasClaimant(t) => sleeps < MaxSleeps /\ Troubles < MaxTroubles
    /\ sleeps' = IF HasClaimant(t) THEN sleeps + 1 ELSE sleeps
    /\ aged' = aged \union {t}
    /\ UNCHANGED <<task, corpus, signal, run, lane, dropped, errors, crashes, stops>>

\* maintenanceLane: releaseStale(30) every 90 seconds while the run is up.
Maintain(r) ==
    /\ run[r] = "up"
    /\ aged # {}
    /\ task' = Released(aged, task)
    /\ aged' = {}
    /\ UNCHANGED <<corpus, signal, run, lane, dropped, bounds>>

-----------------------------------------------------------------------------
(* A lane: claimTask, crawlPrefix, completeTask, expandPrefix, failTask.   *)

At(l, at) == lane[l].pc = at
Goto(l, to) == lane' = [lane EXCEPT ![l].pc = to]

\* mutant: a lane that lost the race for a row drops it and works on
FinishHalfway(l) == lane' = [lane EXCEPT ![l].task = NoTask]

Finish(l) == lane' = [lane EXCEPT ![l] = Idle]

\* claimTask's findFirst: a PENDING row of the lane's queue, shallowest first.
Pick(l) ==
    /\ At(l, "idle")
    /\ run[RunOf[l]] = "up"
    /\ \E t \in Serves[l] \intersect InState("PENDING") :
         /\ \A u \in Serves[l] \intersect InState("PENDING") : Depth[t] <= Depth[u]
         /\ lane' = [lane EXCEPT ![l] = [Idle EXCEPT !.pc = "picked", !.task = t]]
    /\ UNCHANGED <<task, corpus, signal, run, aged, dropped, bounds>>

\* mutant: the claim is an update by id, without `state: "PENDING"` in its where
CanClaimAny(row) == row.state \in {"PENDING", "RUNNING"}

\* The where clause of the claim.
CanClaim(row) == row.state = "PENDING"

\* claimTask's conditional updateMany: the loser of a race asks again.
Claim(l) ==
    LET t == lane[l].task IN
    /\ At(l, "picked")
    /\ IF CanClaim(task[t])
       THEN /\ task' = [task EXCEPT ![t].state = "RUNNING", ![t].attempts = @ + 1]
            /\ lane' = [lane EXCEPT ![l].pc = "fetch", ![l].claim = task[t].attempts + 1]
            /\ aged' = aged \ {t}
            /\ dropped' = dropped \ {t}
       ELSE /\ Finish(l)
            /\ UNCHANGED <<task, aged, dropped>>
    /\ UNCHANGED <<corpus, signal, run, bounds>>

\* crawlPrefix: the store answers.
Fetch(l) ==
    LET found == Suggest[lane[l].task] IN
    /\ At(l, "fetch")
    /\ lane' = [lane EXCEPT ![l].todo = found,
                            ![l].pc = IF found = {} THEN "complete" ELSE "lookup"]
    /\ UNCHANGED <<task, corpus, signal, run, aged, dropped, bounds>>

\* upsertTerm's findUnique for the next suggestion.
Lookup(l) ==
    /\ At(l, "lookup")
    /\ \E x \in lane[l].todo :
         lane' = [lane EXCEPT ![l].term = x, ![l].todo = @ \ {x},
                              ![l].pc = IF x \in corpus THEN "signal" ELSE "create"]
    /\ UNCHANGED <<task, corpus, signal, run, aged, dropped, bounds>>

\* mutant: the create is an upsert that reports the term as new all the same
CreateAsUpsert(l) ==
    /\ At(l, "create")
    /\ corpus' = corpus \union {lane[l].term}
    /\ lane' = [lane EXCEPT ![l].pc = "signal", ![l].created = @ + 1]
    /\ UNCHANGED <<task, signal, run, aged, dropped, bounds>>

\* mutant: a new term is written without the signal that its caller records
CreateUnsignalled(l) ==
    /\ At(l, "create")
    /\ corpus' = corpus \union {lane[l].term}
    /\ lane' = [lane EXCEPT ![l].pc = IF lane[l].todo = {} THEN "complete" ELSE "lookup",
                            ![l].created = @ + 1]
    /\ UNCHANGED <<task, signal, run, aged, dropped, bounds>>

\* upsertTerm's create: the unique (term, country) key refuses a second row.
Create(l) ==
    /\ At(l, "create")
    /\ IF lane[l].term \in corpus
       THEN Goto(l, "fail") /\ UNCHANGED corpus
       ELSE /\ corpus' = corpus \union {lane[l].term}
            /\ lane' = [lane EXCEPT ![l].pc = "signal", ![l].created = @ + 1]
    /\ UNCHANGED <<task, signal, run, aged, dropped, bounds>>

\* recordSignal.
Signal(l) ==
    /\ At(l, "signal")
    /\ signal' = signal \union {<<lane[l].task, lane[l].term>>}
    /\ lane' = [lane EXCEPT ![l].pc = IF lane[l].todo = {} THEN "complete" ELSE "lookup",
                            ![l].term = NoTerm]
    /\ UNCHANGED <<task, corpus, run, aged, dropped, bounds>>

\* completeTask: unconditional, whatever state the row is in by now.
Complete(l) ==
    LET t == lane[l].task IN
    /\ At(l, "complete")
    /\ task' = [task EXCEPT ![t].state = "DONE", ![t].discovered = lane[l].created]
    /\ aged' = aged \ {t}
    /\ Goto(l, "expand")
    /\ UNCHANGED <<corpus, signal, run, dropped, bounds>>

\* expandPrefix's two early returns.
Earns(t, found) == found >= Threshold /\ Depth[t] < MaxDepth

\* mutant: the early return compares with <= and drops a prefix at the threshold
ExpandStrict(l) ==
    LET t == lane[l].task IN
    /\ At(l, "expand")
    /\ task' = IF lane[l].created > Threshold /\ Depth[t] < MaxDepth
               THEN Queued(Children[t], task) ELSE task
    /\ Finish(l)
    /\ UNCHANGED <<corpus, signal, run, aged, dropped, bounds>>

\* expandPrefix.
Expand(l) ==
    LET t == lane[l].task IN
    /\ At(l, "expand")
    /\ task' = IF Earns(t, lane[l].created) THEN Queued(Children[t], task) ELSE task
    /\ Finish(l)
    /\ UNCHANGED <<corpus, signal, run, aged, dropped, bounds>>

\* Any of the lane's calls throws (network or database); failTask itself may,
\* which leaves the row as it is.
Throw(l) ==
    /\ lane[l].pc \in Working
    /\ errors < MaxErrors /\ Troubles < MaxTroubles
    /\ errors' = errors + 1
    /\ IF lane[l].pc \in {"fail", "requeue", "bury"}
       THEN Finish(l) /\ dropped' = dropped \union {lane[l].task}
       ELSE Goto(l, "fail") /\ UNCHANGED dropped
    /\ UNCHANGED <<task, corpus, signal, run, aged, crashes, sleeps, stops>>

\* mutant: attempts counted from zero, so the row is buried one attempt early
SpentEarly(row) == row.attempts + 1 >= MaxAttempts

Spent(row) == row.attempts >= MaxAttempts

\* failTask's findUnique decides between FAILED and PENDING ...
FailRead(l) ==
    /\ At(l, "fail")
    /\ Goto(l, IF Spent(task[lane[l].task]) THEN "bury" ELSE "requeue")
    /\ UNCHANGED <<task, corpus, signal, run, aged, dropped, bounds>>

\* ... and its update writes the verdict, whatever state the row is in by now.
FailWrite(l) ==
    LET t == lane[l].task IN
    /\ lane[l].pc \in {"requeue", "bury"}
    /\ task' = [task EXCEPT ![t] = IF At(l, "bury") THEN [@ EXCEPT !.state = "FAILED"]
                                                    ELSE Requeued(@)]
    /\ aged' = aged \ {t}
    /\ Finish(l)
    /\ UNCHANGED <<corpus, signal, run, dropped, bounds>>

LaneStep(l) ==
    \/ Pick(l)
    \/ Claim(l)
    \/ Fetch(l)
    \/ Lookup(l)
    \/ Create(l)
    \/ Signal(l)
    \/ Complete(l)
    \/ Expand(l)
    \/ FailRead(l)
    \/ FailWrite(l)

Next ==
    \/ \E r \in Run : Start(r) \/ Stop(r) \/ Exit(r) \/ Crash(r) \/ Maintain(r)
    \/ \E t \in Task : Age(t)
    \/ \E l \in Lane : LaneStep(l) \/ Throw(l)

Spec == Init /\ [][Next]_vars

\* The event loop runs every lane that can run and the maintenance timer, and
\* time passes for a claim its process left behind.  Nothing obliges an operator
\* to start, stop or restart a process.
Fairness ==
    /\ \A l \in Lane : WF_vars(LaneStep(l))
    /\ \A r \in Run : WF_vars(Maintain(r))
    /\ \A t \in Task : WF_vars(~HasClaimant(t) /\ Age(t))

FairSpec == Spec /\ Fairness

-----------------------------------------------------------------------------
(* Properties                                                              *)

Row == [state : TaskState, attempts : Nat, discovered : Nat, queued : Nat]

\* A lane that is not idle has a row in hand, and a term where it writes one.
LaneLocals ==
    {w \in [pc : Pc, task : Task \union {NoTask}, claim : Nat, todo : SUBSET Term,
            term : Term \union {NoTerm}, created : Nat] :
        /\ w.pc # "idle" => w.task \in Task
        /\ w.pc \in {"create", "signal"} => w.term \in Term}

TypeOK ==
    /\ task \in [Task -> Row]
    /\ corpus \subseteq Term
    /\ signal \subseteq Task \X Term
    /\ run \in [Run -> {"down", "up", "stopping"}]
    /\ lane \in [Lane -> LaneLocals]
    /\ aged \subseteq Task
    /\ dropped \subseteq Task
    /\ errors \in Nat /\ crashes \in Nat /\ sleeps \in Nat /\ stops \in Nat

EntriesClaimedOnce(row) ==
    row.attempts + (IF row.state = "PENDING" THEN 1 ELSE 0) <= row.queued

\* Each entry of a row into the queue is claimed at most once, by however many lanes
\* on however many machines found it; so two lanes that work the same row at the
\* same time hold different claims, the later one on a later entry.
ClaimUnique ==
    \A t \in Task :
        /\ EntriesClaimedOnce(task[t])
        /\ \A l, m \in Lane :
             (l # m /\ Works(l, t) /\ Works(m, t)) => lane[l].claim # lane[m].claim

\* A row is buried only after its attempts are spent, however failTask's read and
\* write interleave with releases and with other claims of the same row.
BuriedOnlyWhenSpent == \A t \in InState("FAILED") : task[t].attempts >= MaxAttempts

\* A new term is credited to one execution only: the terms of the corpus can be
\* charged, each once, so that what the rows' `discovered` columns and the running
\* crawls claim to have created is covered; their sum never exceeds the corpus.
\* This is what makes the frontier stop growing once the corpus does.
Crawling(l) == lane[l].pc \in {"lookup", "create", "signal", "complete"}
Account == ({"row"} \X Task) \union ({"lane"} \X Lane)
Charged(owner, account) == Cardinality({x \in DOMAIN owner : owner[x] = account})
CreditedOnce ==
    \E owner \in [corpus -> Account] :
        /\ \A t \in Task : task[t].discovered <= Charged(owner, <<"row", t>>)
        /\ \A l \in Lane : Crawling(l) => lane[l].created <= Charged(owner, <<"lane", l>>)

\* A row recorded as done with enough new terms has its children in the frontier, or
\* a lane is still on its way to queue them or to hand the row back, unless a lane
\* dropped it: its process died, or failTask threw on top of the first error.  Stops,
\* calls that throw once and claims released and worked twice leave no hole.
EarnedChildrenQueued ==
    \A t \in InState("DONE") \ dropped :
        Earns(t, task[t].discovered) =>
            \/ \A c \in Children[t] : task[c].state # "ABSENT"
            \/ \E l \in Lane : /\ Works(l, t)
                               /\ lane[l].pc \in {"expand", "fail", "requeue", "bury"}
                               /\ Earns(t, lane[l].created)

\* A term enters the demand index only through a signal.  One that was created but
\* not yet observed is about to be, or can still be by a row that is not done.
NoTermUnobserved ==
    \A x \in corpus :
        \/ \E t \in Task : <<t, x>> \in signal
        \/ \E t \in Task : x \in Suggest[t] /\ task[t].state # "DONE"
        \/ \E l \in Lane : lane[l].pc = "signal" /\ lane[l].term = x

\* No term is counted twice and none is lost to the demand index.
TermsAccounted == CreditedOnce /\ NoTermUnobserved

\* A claim whose process died, or whose failTask threw, is not lost: as long as
\* some run stays up, every queued or claimed row ends done or buried.
EveryTaskSettles ==
    (\E r \in Run : <>[](run[r] = "up")) =>
        \A t \in Task : (task[t].state \in {"PENDING", "RUNNING"})
                            ~> (task[t].state \in {"DONE", "FAILED"})
=============================================================================
