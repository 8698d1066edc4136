---------------------------- MODULE OrganicInstalls ----------------------------
(***************************************************************************)
(* Derived organic installs of one app: syncs write the rows the stores    *)
(* and ad networks report (src/server/jobs/handlers/connection.ts), and    *)
(* derivations over windows of days read them and write theirs, statement  *)
(* by statement (src/server/metrics/derive.ts).                            *)
(***************************************************************************)
EXTENDS Integers, FiniteSets, FiniteSetsExt

CONSTANTS
    Days,      \* 1 .. Days: the dates looked at, the last one today
    Tiers,     \* SOURCE_PRECEDENCE.INSTALLS, the source closest to the money first
    Totals,    \* what a source may report for a day
    Spent,     \* and the ad networks
    Windows,   \* the days a derivation may be asked for: 7, 30, 90
    Jobs,      \* the derivations that may run side by side
    MaxWrites, \* bound: rows written or restated
    MaxRuns    \* bound: derivations begun

ASSUME OrganicAssumption ==
    /\ Days \in Nat \ {0} /\ Totals \union Spent \subseteq Nat /\ Windows \subseteq 1 .. Days
    /\ {MaxWrites, MaxRuns} \subseteq Nat

VARIABLES
    installs, \* installs[s][d]: the INSTALLS row of source s
    paid,     \* paid[d]: the PAID_INSTALLS rows of all campaigns
    organic,  \* organic[d]: the DERIVED row
    job,      \* job[j]: what the derivation has read and has left to do
    stale,    \* ghost: something was written since the last derivation over all days that ran
              \* undisturbed by other writes
    used

vars == <<installs, paid, organic, job, stale, used>>

Dates == 1 .. Days
Sources == {Tiers[i] : i \in DOMAIN Tiers}
NoRow == -1
NoRows == [d \in Dates |-> NoRow]
Idle == [phase |-> "idle"]
Dated(rows) == {d \in Dates : rows[d] # NoRow}

Init ==
    /\ installs = [s \in Sources |-> NoRows] /\ paid = NoRows /\ organic = NoRows
    /\ job = [j \in Jobs |-> Idle]
    /\ stale = TRUE
    /\ used = [writes |-> 0, runs |-> 0]

-----------------------------------------------------------------------------
(* writeMetrics: batches of a sync may end between any two rows            *)

Disturbed == [j \in Jobs |-> IF job[j] = Idle THEN Idle ELSE [job[j] EXCEPT !.clean = FALSE]]

Written ==
    /\ used.writes < MaxWrites /\ used' = [used EXCEPT !.writes = @ + 1]
    /\ stale' = TRUE
    /\ job' = Disturbed

WriteInstalls(s, d, v) ==
    /\ Written
    /\ installs' = [installs EXCEPT ![s][d] = v]
    /\ UNCHANGED <<paid, organic>>

WritePaid(d, v) ==
    /\ Written
    /\ paid' = [paid EXCEPT ![d] = v]
    /\ UNCHANGED <<installs, organic>>

-----------------------------------------------------------------------------
(* deriveOrganicInstalls                                                   *)

\* dateRange(days)
Window(days) == Days - days + 1 .. Days

Within(rows, window) == [d \in Dates |-> IF d \in window THEN rows[d] ELSE NoRow]

Begin(j, days) ==
    /\ job[j] = Idle
    /\ used.runs < MaxRuns /\ used' = [used EXCEPT !.runs = @ + 1]
    /\ stale' = TRUE
    /\ job' = [Disturbed EXCEPT ![j] =
                  [phase |-> "read", window |-> Window(days), todo |-> {}, got |-> {},
                   clean |-> \A i \in Jobs : job[i] = Idle,
                   installs |-> [s \in Sources |-> NoRows], paid |-> NoRows]]
    /\ UNCHANGED <<installs, paid, organic>>

\* Promise.all: the two queries run in either order.
ReadInstalls(j) ==
    /\ job[j].phase = "read" /\ "installs" \notin job[j].got
    /\ job' = [job EXCEPT ![j].got = @ \union {"installs"},
                          ![j].installs = [s \in Sources |-> Within(installs[s], job[j].window)]]
    /\ UNCHANGED <<installs, paid, organic, stale, used>>

ReadPaid(j) ==
    /\ job[j].phase = "read" /\ "paid" \notin job[j].got
    /\ job' = [job EXCEPT ![j].got = @ \union {"paid"},
                          ![j].paid = Within(paid, job[j].window)]
    /\ UNCHANGED <<installs, paid, organic, stale, used>>

\* mutant: every source counts
PreferredAll(rows) ==
    [d \in Dates |-> IF \A s \in Sources : rows[s][d] = NoRow THEN NoRow
                     ELSE SumSet({rows[s][d] : s \in Sources} \ {NoRow})]

\* preferAuthoritativeSource: the first source with any row in the window, for all of it.
Preferred(rows) ==
    LET heard == {i \in DOMAIN Tiers : Dated(rows[Tiers[i]]) # {}}
        best == {Tiers[i] : i \in {k \in heard : \A n \in heard : k <= n}}
    IN  [d \in Dates |-> IF best = {} THEN NoRow ELSE rows[CHOOSE s \in best : TRUE][d]]

\* mutant: every day of the window is known to the ad platforms
SpanWindow(rows) == IF Dated(rows) = {} THEN {} ELSE Dates

\* A gap inside the reported span is a day without paid installs; outside nothing is known.
Span(rows) == {d \in Dates : \E first, last \in Dated(rows) : first <= d /\ d <= last}

Organic(total, spent) == Max({0, total - (IF spent = NoRow THEN 0 ELSE spent)})

\* The dates in the span that have a total.
Derivable(rows, spent) == Dated(Preferred(rows)) \intersect Span(spent)

Ends(j) ==
    /\ job' = [job EXCEPT ![j] = Idle]
    /\ stale' = ~(job[j].clean /\ job[j].window = Dates)

HasRead(j) == job[j].phase = "read" /\ job[j].got = {"installs", "paid"}

\* Without paid data nothing is done.
Decline(j) ==
    /\ HasRead(j) /\ Dated(job[j].paid) = {}
    /\ Ends(j)
    /\ UNCHANGED <<installs, paid, organic, used>>

Decide(j) ==
    /\ HasRead(j) /\ Dated(job[j].paid) # {}
    /\ job' = [job EXCEPT ![j].phase = "write",
                          ![j].todo = Derivable(job[j].installs, job[j].paid)]
    /\ UNCHANGED <<installs, paid, organic, stale, used>>

Upsert(j, d) ==
    /\ job[j].phase = "write" /\ d \in job[j].todo
    /\ organic' = [organic EXCEPT ![d] = Organic(Preferred(job[j].installs)[d], job[j].paid[d])]
    /\ job' = [job EXCEPT ![j].todo = @ \ {d}]
    /\ UNCHANGED <<installs, paid, stale, used>>

\* mutant: rows not recomputed are left alone
DroppedNone(j) == {}

\* What the deleteMany drops: rows in the window that were not just recomputed.
Dropped(j) == job[j].window \ Derivable(job[j].installs, job[j].paid)

DropStale(j) ==
    /\ job[j].phase = "write" /\ job[j].todo = {}
    /\ organic' = [d \in Dates |-> IF d \in Dropped(j) THEN NoRow ELSE organic[d]]
    /\ Ends(j)
    /\ UNCHANGED <<installs, paid, used>>

\* The worker dies; the job, run again, begins anew.
Crash(j) ==
    /\ job[j] # Idle
    /\ stale' = TRUE
    /\ job' = [job EXCEPT ![j] = Idle]
    /\ UNCHANGED <<installs, paid, organic, used>>

Next ==
    \/ \E s \in Sources, d \in Dates, v \in Totals : WriteInstalls(s, d, v)
    \/ \E d \in Dates, v \in Spent : WritePaid(d, v)
    \/ \E j \in Jobs :
        \/ \E days \in Windows : Begin(j, days)
        \/ ReadInstalls(j) \/ ReadPaid(j) \/ Decline(j) \/ Decide(j)
        \/ (\E d \in Dates : Upsert(j, d)) \/ DropStale(j) \/ Crash(j)

Spec == Init /\ [][Next]_vars

-----------------------------------------------------------------------------
(* Properties                                                              *)

\* Organic installs are only claimed for days the ad platforms report on and a store
\* or SDK has counted, whatever runs side by side.
OnlyKnownDays ==
    \A d \in Dates : organic[d] # NoRow =>
        /\ \E before, after \in Dated(paid) : before <= d /\ d <= after
        /\ \E s \in Sources : installs[s][d] # NoRow

\* The row a day should have: total of the best source minus paid, floored, over the
\* whole span.
Expected(d) ==
    LET best == {i \in DOMAIN Tiers : \E e \in Dates : installs[Tiers[i]][e] # NoRow}
        total == IF best = {} THEN NoRow ELSE installs[Tiers[Min(best)]][d]
        known == \E e, f \in Dates : e <= d /\ d <= f /\ NoRow \notin {paid[e], paid[f]}
    IN  IF total = NoRow \/ ~known THEN NoRow
        ELSE IF paid[d] = NoRow THEN total
        ELSE IF paid[d] > total THEN 0 ELSE total - paid[d]

UpToDate == ~stale /\ \A j \in Jobs : job[j] = Idle

\* After a derivation over all days that nothing disturbed, the derived rows are the ones
\* defined, whatever earlier ones left behind.
Settled == UpToDate => \A d \in Dates : organic[d] = Expected(d)
=============================================================================
