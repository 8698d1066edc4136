---------------------------- MODULE TrafficFunnel ----------------------------
(***************************************************************************)
(* One app's installs by traffic source.  Apple publishes a report per day *)
(* under a request that the first sync registers                           *)
(* (src/server/integrations/apple/analytics-reports.ts); Play exports a    *)
(* file.  A sync turns the lines of either into rows                       *)
(* (apple/app-store-connect.ts, google/play-console.ts), writes them       *)
(* (src/server/jobs/handlers/connection.ts), and the funnel adds them up   *)
(* (src/server/api/routers/metrics.ts).                                    *)
(***************************************************************************)
EXTENDS FiniteSetsExt, SequencesExt

CONSTANTS
    Sync,        \* syncs of the connection that may run side by side
    AppleDays,   \* what Apple may report of a day: sequences of lines
    PlayDays,    \* the same of Play
    MaxDays,     \* bound: days
    MaxSyncs,    \* bound: syncs
    MaxTroubles  \* bound: segments, calls and writes that fail, requests Apple stops

VARIABLES
    store,     \* the connection's source
    report,    \* report[d]: the lines the store counted on day d
    exported,  \* the days in Play's file
    requests,  \* the ongoing requests at Apple: whether live, and the days published
    row,       \* row[d][b]: the MetricPoint of the store, day d and source=b; 0 without one
    sync,
    whole,     \* ghost: the days of which a sync has read and written every line
    together,  \* ghost: two syncs were about to register a request at once
    used

vars == <<store, report, exported, requests, row, sync, whole, together, used>>

Day == 1 .. MaxDays
Bucket == {"search", "browse", "referral", "other"}

Idle == [at |-> "idle", request |-> 0, days |-> {}, got |-> {}, full |-> {}]
Spend == used.troubles < MaxTroubles /\ used' = [used EXCEPT !.troubles = @ + 1]

Init ==
    /\ store \in {"APP_STORE_CONNECT", "PLAY_CONSOLE"}
    /\ report \in [Day -> IF store = "PLAY_CONSOLE" THEN PlayDays ELSE AppleDays]
    /\ exported = {}
    /\ requests = <<>>
    /\ row = [d \in Day |-> [b \in Bucket |-> 0]]
    /\ sync = [s \in Sync |-> Idle]
    /\ whole = {} /\ together = FALSE
    /\ used = [syncs |-> 0, troubles |-> 0]

\* The substrings a store's wording is matched on, in order.
normalizeTrafficSource(source) ==
    CASE source \in {"App Store Search", "Play Store search"} -> "search"
      [] source \in {"App Store Browse", "Play Store explore"} -> "browse"
      [] source \in {"App Referrer", "Web Referrer", "Third-party referrers", "Google Ads"} ->
            "referral"
      [] OTHER -> "other"

\* A count of nothing is no row, and of Apple's downloads only the first one is an install.
Installs(line) == line.units > 0 /\ (store = "PLAY_CONSOLE" \/ line.first)

\* mutant: a row that is there is added to
UpsertedSum(old, units) == old + units

\* upsert
Upserted(old, units) == units

\* The lines of a day that are installs of a bucket.
Counted(d, b) ==
    {l \in DOMAIN report[d] :
        Installs(report[d][l]) /\ normalizeTrafficSource(report[d][l].source) = b}

\* The rows after those of the lines are written, in order: of a bucket the last remains.
Written(lines) ==
    [d \in Day |-> [b \in Bucket |->
        LET of == {l \in Counted(d, b) : [day |-> d, at |-> l] \in lines} IN
        IF of = {} THEN row[d][b] ELSE Upserted(row[d][b], report[d][Max(of)].units)]]

-----------------------------------------------------------------------------
(* The stores                                                              *)

Live == {r \in DOMAIN requests : requests[r].live}

\* A day is published under every request that is not stopped.
Publish ==
    \E d \in Day :
        /\ IF store = "PLAY_CONSOLE"
           THEN d \notin exported /\ exported' = exported \union {d} /\ UNCHANGED requests
           ELSE /\ \E r \in DOMAIN requests : requests[r].live /\ d \notin requests[r].days
                /\ requests' = [r \in DOMAIN requests |->
                        IF requests[r].live THEN [requests[r] EXCEPT !.days = @ \union {d}]
                                            ELSE requests[r]]
                /\ UNCHANGED exported
        /\ UNCHANGED <<store, report, row, sync, whole, together, used>>

\* stoppedDueToInactivity
Stop ==
    /\ Spend
    /\ \E r \in DOMAIN requests :
        requests[r].live /\ requests' = [requests EXCEPT ![r].live = FALSE]
    /\ UNCHANGED <<store, report, exported, row, sync, whole, together>>

-----------------------------------------------------------------------------
(* A sync                                                                  *)

Begin(s) ==
    /\ sync[s].at = "idle" /\ used.syncs < MaxSyncs
    /\ used' = [used EXCEPT !.syncs = @ + 1]
    /\ sync' = [sync EXCEPT ![s] = IF store = "PLAY_CONSOLE"
                                   THEN [Idle EXCEPT !.at = "read", !.days = exported]
                                   ELSE [Idle EXCEPT !.at = "list"]]
    /\ UNCHANGED <<store, report, exported, requests, row, whole, together>>

\* mutant: a request under which nothing has been published is passed over
Useful == {r \in Live : requests[r].days # {}}

\* Those a sync may read.
Usable == Live

\* resolveAnalyticsRequest: the first request that is live, or none is.
List(s) ==
    /\ sync[s].at = "list"
    /\ sync' = [sync EXCEPT ![s] = IF Usable = {} THEN [Idle EXCEPT !.at = "register"]
                                   ELSE [Idle EXCEPT !.at = "find", !.request = Min(Usable)]]
    /\ together' = (together \/ (Usable = {} /\ \E t \in Sync : sync[t].at = "register"))
    /\ UNCHANGED <<store, report, exported, requests, row, whole, used>>

\* Apple has nothing to read yet.
Register(s) ==
    /\ sync[s].at = "register"
    /\ requests' = Append(requests, [live |-> TRUE, days |-> {}])
    /\ sync' = [sync EXCEPT ![s] = Idle]
    /\ UNCHANGED <<store, report, exported, row, whole, together, used>>

\* findReport and findInstances
Find(s) ==
    /\ sync[s].at = "find"
    /\ sync' = [sync EXCEPT ![s] = [sync[s] EXCEPT !.at = "read",
                                                  !.days = requests[sync[s].request].days]]
    /\ UNCHANGED <<store, report, exported, requests, row, whole, together, used>>

\* Whatever fails before an instance is read leaves the sync without these rows.
Fail(s) ==
    /\ sync[s].at \in {"list", "register", "find"} /\ Spend
    /\ sync' = [sync EXCEPT ![s] = Idle]
    /\ UNCHANGED <<store, report, exported, requests, row, whole, together>>

\* readInstance: segments that cannot be had are passed over, and so is an instance; a
\* line stands for a segment.  Play's file is had whole.
Read(s) ==
    /\ sync[s].at = "read" /\ sync[s].days # {}
    /\ LET d == Min(sync[s].days) IN
       \E had \in SUBSET DOMAIN report[d] :
        LET all == had = DOMAIN report[d] IN
        /\ IF all THEN UNCHANGED used ELSE store = "APP_STORE_CONNECT" /\ Spend
        /\ sync' = [sync EXCEPT ![s] = [sync[s] EXCEPT
                        !.days = @ \ {d},
                        !.got = @ \union {[day |-> d, at |-> l] : l \in had},
                        !.full = IF all THEN @ \union {d} ELSE @]]
    /\ UNCHANGED <<store, report, exported, requests, row, whole, together>>

\* writeMetrics
Write(s) ==
    /\ sync[s].at = "read" /\ sync[s].days = {}
    /\ row' = Written(sync[s].got)
    /\ whole' = whole \union sync[s].full
    /\ sync' = [sync EXCEPT ![s] = Idle]
    /\ UNCHANGED <<store, report, exported, requests, together, used>>

\* A batch that fails leaves those before it written; a line stands for a batch.
WriteFails(s) ==
    /\ sync[s].at = "read" /\ sync[s].days = {} /\ Spend
    /\ \E h \in sync[s].got :
        row' = Written({g \in sync[s].got : g.day < h.day \/ (g.day = h.day /\ g.at < h.at)})
    /\ sync' = [sync EXCEPT ![s] = Idle]
    /\ UNCHANGED <<store, report, exported, requests, whole, together>>

Next ==
    \/ Publish \/ Stop
    \/ \E s \in Sync : Begin(s) \/ List(s) \/ Register(s) \/ Find(s) \/ Fail(s) \/ Read(s)
                       \/ Write(s) \/ WriteFails(s)

Spec == Init /\ [][Next]_vars

-----------------------------------------------------------------------------
(* metrics.funnel                                                          *)

Funnel(b) == MapThenSumSet(LAMBDA d : row[d][b], Day)

-----------------------------------------------------------------------------
(* Properties                                                              *)

\* However often a day is synced, in part or whole, what is shown of it is what the store
\* counted and not a multiple; a day that was read whole shows every bucket the store
\* counted; and a second live request is registered at Apple only by syncs that both found
\* none.
FunnelTrue ==
    /\ \A d \in Day, b \in Bucket :
        /\ row[d][b] # 0 => \E l \in Counted(d, b) : row[d][b] = report[d][l].units
        /\ d \in whole /\ Counted(d, b) # {} => row[d][b] # 0
    /\ Cardinality(Live) <= 1 \/ together

\* A bucket adds up: once every day has been read whole, it shows as many installs as the
\* store counted under the names that are put in it.
AddsUp ==
    whole = Day =>
        \A b \in Bucket :
            Funnel(b) = MapThenSumSet(LAMBDA d :
                            MapThenSumSet(LAMBDA l : report[d][l].units, Counted(d, b)), Day)
=============================================================================
