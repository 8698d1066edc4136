---------------------------- MODULE ConnectionSync ----------------------------
(***************************************************************************)
(* One integration connection: the syncs that pull its metrics             *)
(* (syncConnection in src/server/jobs/handlers/connection.ts, wrapped by   *)
(* withSyncRun in jobs/run.ts), whatever starts them - the hourly tick, an *)
(* admin, the cron route -, the credential tests that share its row        *)
(* (integrations/service.ts), and the admin's own writes.  Executions      *)
(* share the row and never lock it; a step ends where the code awaits.     *)
(***************************************************************************)
EXTENDS Integers, FiniteSets, Sequences, Functions

CONSTANTS
    Link,        \* resource links, each to an app of its own
    Slot,        \* sync executions that can run at the same time
    Connector,   \* what its connector may do: fetch reviews, refresh a Google token
    Attempts,    \* DEFAULT_OPTIONS.attempts
    ErrorLimit,  \* recordConnectionError: `errorCount >= 3`
    MaxSyncs,    \* bound: syncs asked for
    MaxFaults,   \* bound: provider calls or writes that fail
    MaxUnqueued, \* bound: enqueues that find Redis unreachable
    MaxTests,    \* bound: credential tests and resource listings
    MaxRefreshes,\* bound: OAuth tokens refreshed by syncs
    MaxAdmin,    \* bound: admin writes to the row
    MaxUnlinks,  \* bound: links removed or put back
    MaxCrashes,  \* bound: processes that die during a sync
    MaxTroubles  \* bound: all of these together but syncs and faults

VARIABLES
    conn,    \* the Connection row
    link,    \* its ResourceLinks
    runs,    \* the connection's SyncRun rows, in creation order: their status
    exec,    \* exec[s]: an execution of syncConnection
    tester,  \* an execution of testConnection or listRemoteResources
    dirty,   \* ghost: apps with metrics newer than their last queued derivation
    epoch,   \* ghost: how often the connection was switched on or off
    used

vars == <<conn, link, runs, exec, tester, dirty, epoch, used>>

Status == {"PENDING", "ACTIVE", "NEEDS_REAUTH", "ERROR", "DISABLED"}

\* readable: the stored credentials decrypt.
Conn == [there : BOOLEAN, status : Status, errors : Nat,
         readable : BOOLEAN, reviews : BOOLEAN, google : BOOLEAN]

Idle == [pc |-> "idle", job |-> FALSE, made |-> 0, run |-> 0, of |-> {}, todo |-> {},
         readable |-> TRUE, failures |-> 0, read |-> FALSE, wrote |-> FALSE,
         reached |-> {}, since |-> 0]

Bounds == {"syncs", "faults", "unqueued", "tests", "refreshes", "admin", "unlinks", "crashes"}
Limit == [b \in Bounds |->
            CASE b = "syncs" -> MaxSyncs [] b = "faults" -> MaxFaults
              [] b = "tests" -> MaxTests [] b = "admin" -> MaxAdmin
              [] b = "unqueued" -> MaxUnqueued [] b = "refreshes" -> MaxRefreshes
              [] b = "unlinks" -> MaxUnlinks [] b = "crashes" -> MaxCrashes]
Troubles == SumFunction(used) - used["syncs"] - used["faults"]
Spend(b) ==
    /\ used[b] < Limit[b]
    /\ b \in {"syncs", "faults"} \/ Troubles < MaxTroubles
    /\ used' = [used EXCEPT ![b] = @ + 1]

\* A connection that an admin has made, tested and linked.
Init ==
    /\ \E kind \in Connector :
         conn = [there |-> TRUE, status |-> "ACTIVE", errors |-> 0, readable |-> TRUE,
                 reviews |-> kind.reviews, google |-> kind.google]
    /\ link = Link
    /\ runs = <<>>
    /\ exec = [s \in Slot |-> Idle]
    /\ tester = [pc |-> "idle", refused |-> FALSE, errors |-> 0]
    /\ dirty = {} /\ epoch = 0
    /\ used = [b \in Bounds |-> 0]

Good(c) == [c EXCEPT !.status = "ACTIVE", !.errors = 0]

-----------------------------------------------------------------------------
(* Starting and ending a sync                                              *)

\* The tick and the cron route pick the row by its status, an admin does not; the
\* cron route calls syncConnection itself, so nothing retries it.
Begin(s) ==
    /\ exec[s].pc = "idle" /\ conn.there
    /\ Spend("syncs")
    /\ \E job \in BOOLEAN :
         /\ job \/ conn.status = "ACTIVE"
         /\ exec' = [exec EXCEPT ![s] = [Idle EXCEPT !.pc = "load", !.job = job]]
    /\ UNCHANGED <<conn, link, runs, tester, dirty, epoch>>

\* The execution threw: the job has another attempt, or it is over.
Retried(e) ==
    IF e.job /\ e.made + 1 < Attempts
    THEN [Idle EXCEPT !.pc = "load", !.job = TRUE, !.made = e.made + 1] ELSE Idle

\* mutant: `status === "DISABLED"` is not looked at
SyncableAlways(status) == TRUE

Syncable(status) == status # "DISABLED"

Load(s) ==
    /\ exec[s].pc = "load"
    /\ exec' = [exec EXCEPT ![s] =
                 IF ~conn.there THEN Retried(@)
                 ELSE IF ~Syncable(conn.status) THEN Idle
                 ELSE [@ EXCEPT !.pc = "open", !.of = link, !.todo = link,
                                !.readable = conn.readable, !.since = epoch]]
    /\ UNCHANGED <<conn, link, runs, tester, dirty, epoch, used>>

\* The run exists; unreadable credentials end it before any call.
Opened(e) ==
    [e EXCEPT !.run = Len(runs) + 1,
              !.pc = IF e.readable THEN "fetch" ELSE "fail"]

\* syncRun.create: the foreign key refuses a connection deleted meanwhile.
Open(s) ==
    /\ exec[s].pc = "open"
    /\ runs' = IF conn.there THEN Append(runs, "RUNNING") ELSE runs
    /\ exec' = [exec EXCEPT ![s] = IF conn.there THEN Opened(@) ELSE Retried(@)]
    /\ UNCHANGED <<conn, link, tester, dirty, epoch, used>>

-----------------------------------------------------------------------------
(* The links, one at a time                                                *)

Fetching(s, l) == exec[s].pc = "fetch" /\ l \in exec[s].todo

\* A link is settled; after its metrics its reviews are fetched, if the connector has any.
Settled(e, l) == [e EXCEPT !.pc = "fetch", !.todo = @ \ {l}]
After(e, l) == IF conn.reviews THEN [e EXCEPT !.pc = "reviews"] ELSE Settled(e, l)

\* What a call for a link leaves behind: its rows, or a failure - the call's own, or that
\* of a later batch of the write: its first batches stay, and `wrote` never hears of them.
Reached(e, l, rows) ==
    [e EXCEPT !.read = @ \/ rows, !.wrote = @ \/ rows, !.reached = @ \union {l}]
Failed(e, batches) == [e EXCEPT !.failures = @ + 1, !.read = @ \/ batches]

\* getFreshGoogleToken persists the new token over whatever the row has become.
RefreshToken(s) ==
    /\ conn.google /\ exec[s].pc \in {"fetch", "reviews"} /\ exec[s].todo # {}
    /\ conn.there
    /\ Spend("refreshes")
    /\ conn' = Good(conn)
    /\ UNCHANGED <<link, runs, exec, tester, dirty, epoch>>

\* fetchMetrics and writeMetrics; a report may well be empty.
Metrics(s, l) ==
    /\ Fetching(s, l)
    /\ \E rows \in BOOLEAN :
         /\ exec' = [exec EXCEPT ![s] = After(Reached(@, l, rows), l)]
         /\ dirty' = IF rows THEN dirty \union {l} ELSE dirty
    /\ UNCHANGED <<conn, link, runs, tester, epoch, used>>

MetricsFail(s, l) ==
    /\ Fetching(s, l)
    /\ Spend("faults")
    /\ \E batches \in BOOLEAN :
         /\ exec' = [exec EXCEPT ![s] = After(Failed(@, batches), l)]
         /\ dirty' = IF batches THEN dirty \union {l} ELSE dirty
    /\ UNCHANGED <<conn, link, runs, tester, epoch>>

\* The reviews of the link whose metrics were just tried.
Reviews(s, l) ==
    /\ exec[s].pc = "reviews" /\ l \in exec[s].todo
    /\ \/ /\ \E rows \in BOOLEAN :
               exec' = [exec EXCEPT ![s] = Settled(Reached(@, l, rows), l)]
          /\ UNCHANGED used
       \/ /\ Spend("faults")
          /\ \E batches \in BOOLEAN :
               exec' = [exec EXCEPT ![s] = Settled(Failed(@, batches), l)]
    /\ UNCHANGED <<conn, link, runs, tester, dirty, epoch>>

-----------------------------------------------------------------------------
(* Settling                                                                *)

HasSuccess(e) == e.failures < Cardinality(e.of)

\* mutant: nothing is derived after a failure
ToDeriveClean(e) == IF e.failures = 0 THEN e.of ELSE {}

ToDerive(e) == e.of

\* connection.update, unconditional; it throws if the row was deleted.
Close(s) ==
    LET e == exec[s] IN
    /\ e.pc = "fetch" /\ e.todo = {}
    /\ conn' = IF ~conn.there THEN conn
               ELSE [conn EXCEPT !.status = "ACTIVE",
                                 !.errors = IF HasSuccess(e) THEN 0 ELSE @ + 1]
    /\ exec' = [exec EXCEPT ![s].pc = IF conn.there THEN "derive" ELSE "fail",
                            ![s].todo = ToDerive(e)]
    /\ UNCHANGED <<link, runs, tester, dirty, epoch, used>>

Derive(s, l) ==
    /\ exec[s].pc = "derive" /\ l \in exec[s].todo
    /\ exec' = [exec EXCEPT ![s].todo = @ \ {l}]
    /\ dirty' = dirty \ {l}
    /\ UNCHANGED <<conn, link, runs, tester, epoch, used>>

\* enqueue throws: Redis is unreachable.
DeriveFails(s) ==
    /\ exec[s].pc = "derive" /\ exec[s].todo # {}
    /\ Spend("unqueued")
    /\ exec' = [exec EXCEPT ![s].pc = "fail"]
    /\ UNCHANGED <<conn, link, runs, tester, dirty, epoch>>

\* mutant: any failure fails the run
TotalFailureAny(e) == e.failures > 0

TotalFailure(e) == e.failures > 0 /\ e.failures = Cardinality(e.of)

\* finish(): the row is gone with its connection, and the update throws.
Finished(e, status) == IF runs[e.run] = "GONE" THEN runs ELSE [runs EXCEPT ![e.run] = status]

Finish(s) ==
    LET e == exec[s] IN
    /\ e.pc = "derive" /\ e.todo = {}
    /\ IF TotalFailure(e) \/ runs[e.run] = "GONE"
       THEN /\ exec' = [exec EXCEPT ![s].pc = "fail"]
            /\ UNCHANGED runs
       ELSE /\ runs' = Finished(e, IF e.read /\ ~e.wrote THEN "PARTIAL" ELSE "SUCCESS")
            /\ exec' = [exec EXCEPT ![s] = Idle]
    /\ UNCHANGED <<conn, link, tester, dirty, epoch, used>>

\* mutant: the error is rethrown before the run is finished
FailedOpen(e) == runs

FailedRuns(e) == Finished(e, "FAILED")

Fail(s) ==
    /\ exec[s].pc = "fail"
    /\ runs' = FailedRuns(exec[s])
    /\ exec' = [exec EXCEPT ![s] = Retried(@)]
    /\ UNCHANGED <<conn, link, tester, dirty, epoch, used>>

Stalled(e) ==
    IF e.job THEN [Idle EXCEPT !.pc = "load", !.job = TRUE, !.made = e.made] ELSE Idle

\* The process dies; a job is found stalled and starts over.
Crash(s) ==
    /\ exec[s].pc # "idle"
    /\ Spend("crashes")
    /\ exec' = [exec EXCEPT ![s] = Stalled(@)]
    /\ UNCHANGED <<conn, link, runs, tester, dirty, epoch>>

-----------------------------------------------------------------------------
(* testConnection and listRemoteResources                                  *)

StartTest ==
    /\ tester.pc = "idle" /\ conn.there
    /\ Spend("tests")
    /\ tester' = [tester EXCEPT !.pc = IF conn.readable THEN "call" ELSE "count",
                                !.refused = ~conn.readable]
    /\ UNCHANGED <<conn, link, runs, exec, dirty, epoch>>

TestRefreshes ==
    /\ conn.google /\ tester.pc = "call" /\ conn.there
    /\ conn' = Good(conn)
    /\ UNCHANGED <<link, runs, exec, tester, dirty, epoch, used>>

TestAnswers ==
    /\ tester.pc = "call"
    /\ \E ok \in BOOLEAN :
         /\ conn' = IF ~conn.there THEN conn
                    ELSE IF ok THEN Good(conn)
                    ELSE [conn EXCEPT !.status = "ERROR", !.errors = @ + 1]
    /\ tester' = [tester EXCEPT !.pc = "idle"]
    /\ UNCHANGED <<link, runs, exec, dirty, epoch, used>>

TestThrows ==
    /\ tester.pc = "call"
    /\ Spend("faults")
    /\ \E refused \in BOOLEAN :
         tester' = [tester EXCEPT !.pc = "count", !.refused = refused]
    /\ UNCHANGED <<conn, link, runs, exec, dirty, epoch>>

\* recordConnectionError reads the count ...
ReadErrors ==
    /\ tester.pc = "count"
    /\ tester' = [tester EXCEPT !.pc = "record", !.errors = conn.errors]
    /\ UNCHANGED <<conn, link, runs, exec, dirty, epoch, used>>

\* ... and writes it back, one higher.
RecordError ==
    LET errors == tester.errors + 1 IN
    /\ tester.pc = "record"
    /\ conn' = IF ~conn.there THEN conn
               ELSE [conn EXCEPT !.errors = errors,
                                 !.status = IF tester.refused THEN "NEEDS_REAUTH"
                                            ELSE IF errors >= ErrorLimit THEN "ERROR" ELSE @]
    /\ tester' = [tester EXCEPT !.pc = "idle"]
    /\ UNCHANGED <<link, runs, exec, dirty, epoch, used>>

-----------------------------------------------------------------------------
(* The admin                                                               *)

Admin == conn.there /\ Spend("admin") /\ UNCHANGED <<link, exec, tester, dirty>>

SetStatus ==
    /\ Admin
    /\ \E enabled \in BOOLEAN :
         conn' = [conn EXCEPT !.status = IF enabled THEN "PENDING" ELSE "DISABLED"]
    /\ epoch' = epoch + 1
    /\ UNCHANGED runs

\* Connecting the same account again.
Reconnect ==
    /\ Admin
    /\ conn' = [conn EXCEPT !.status = "PENDING", !.errors = 0,
                            !.readable = TRUE]
    /\ epoch' = epoch + 1
    /\ UNCHANGED runs

\* The operator rotates ENCRYPTION_KEY.
RotateKey ==
    /\ Admin
    /\ conn' = [conn EXCEPT !.readable = FALSE]
    /\ UNCHANGED <<runs, epoch>>

\* The delete cascades to the links and the runs.
Remove ==
    /\ conn.there /\ Spend("admin")
    /\ conn' = [conn EXCEPT !.there = FALSE]
    /\ link' = {}
    /\ runs' = [r \in DOMAIN runs |-> "GONE"]
    /\ UNCHANGED <<exec, tester, dirty, epoch>>

Relink ==
    /\ conn.there /\ Spend("unlinks")
    /\ \E l \in Link : link' = IF l \in link THEN link \ {l} ELSE link \union {l}
    /\ UNCHANGED <<conn, runs, exec, tester, dirty, epoch>>

-----------------------------------------------------------------------------

Step(s) ==
    \/ Load(s) \/ Open(s) \/ Close(s) \/ Finish(s) \/ Fail(s)
    \/ \E l \in Link : Metrics(s, l) \/ Reviews(s, l) \/ Derive(s, l)

Trouble(s) == Crash(s) \/ DeriveFails(s) \/ \E l \in Link : MetricsFail(s, l)

Next ==
    \/ \E s \in Slot : Begin(s) \/ Step(s) \/ Trouble(s) \/ RefreshToken(s)
    \/ StartTest \/ TestRefreshes \/ TestAnswers \/ TestThrows \/ ReadErrors \/ RecordError
    \/ SetStatus \/ Reconnect \/ RotateKey \/ Remove \/ Relink

Spec == Init /\ [][Next]_vars

-----------------------------------------------------------------------------
(* Properties                                                              *)

Working(e) == e.pc \notin {"idle", "load", "open"}

\* Every working execution holds a run of its own connection and links it was given.
TypeOK ==
    /\ conn \in Conn
    /\ link \subseteq Link
    /\ runs \in Seq({"RUNNING", "SUCCESS", "PARTIAL", "FAILED", "GONE"})
    /\ tester.pc \in {"idle", "call", "count", "record"}
    /\ dirty \subseteq Link /\ epoch \in Nat
    /\ \A s \in Slot :
         /\ exec[s].pc \in {"idle", "load", "open", "fetch", "reviews", "derive", "fail"}
         /\ exec[s].todo \subseteq exec[s].of /\ exec[s].of \subseteq Link
         /\ exec[s].made \in 0 .. Attempts - 1
         /\ Working(exec[s]) => exec[s].run \in DOMAIN runs

\* withSyncRun: as long as no process dies, every run is ended by the execution that
\* opened it; one still RUNNING has that execution at work on it.
EveryRunEnds ==
    used["crashes"] = 0 =>
        \A r \in DOMAIN runs :
            runs[r] = "RUNNING" => \E s \in Slot : Working(exec[s]) /\ exec[s].run = r

\* An execution that will still queue the derivation for l.
Deriving(e, l) ==
    \/ e.pc \in {"fetch", "reviews"} /\ l \in e.of
    \/ e.pc = "derive" /\ l \in e.todo

\* Metrics that were written get their derived metrics recomputed: an execution that
\* wrote them still has to queue that, whatever failed around them.
DeriveFollowsWrites ==
    \A l \in dirty :
        \/ \E s \in Slot : Deriving(exec[s], l)
        \/ ~conn.there \/ used["crashes"] > 0 \/ used["unqueued"] > 0

\* A run in which no link could be fetched is not a success; one in which some link
\* could is not a failure.  (With reviews a link may fail twice, which the code takes
\* for two links, so this is said of connectors without.)
VerdictFair ==
    \A s \in Slot :
        Working(exec[s]) /\ ~Working(exec'[s]) /\ conn.there /\ ~conn.reviews
                /\ used'["crashes"] = used["crashes"] =>
            LET e == exec[s] IN
            /\ runs'[e.run] \in {"SUCCESS", "PARTIAL"} /\ e.of # {} => e.reached # {}
            /\ runs'[e.run] = "FAILED" => e.reached = {} \/ e.todo # {}

\* Every run ends, and says how it went.
RunsEndFairly == []EveryRunEnds /\ [][VerdictFair]_vars

\* Once a connection is switched off no sync of it starts, by retry or otherwise:
\* what still runs had read the row before.
NoSyncOnceDisabled ==
    conn.status = "DISABLED" => \A s \in Slot : Working(exec[s]) => exec[s].since # epoch

\* service.ts: three consecutive hard failures park the connection, so that the
\* scheduler stops burning quota on it.
FailingParks == conn.errors >= ErrorLimit => conn.status \notin {"ACTIVE", "PENDING"}
=============================================================================
