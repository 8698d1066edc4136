----------------------------- MODULE QueueSchedule -----------------------------
(***************************************************************************)
(* One periodic job of one connection or app over the hours of some days:  *)
(* the hourly schedule.tick adds it under a deterministic id               *)
(* (src/server/jobs/handlers/schedule.ts, src/server/jobs/queues.ts), and  *)
(* members ask for it by hand.  BullMQ ignores an add whose id it still    *)
(* knows, finished jobs included; it forgets them by the removeOnComplete  *)
(* and removeOnFail of the job that finishes next, whatever its name.      *)
(***************************************************************************)
EXTENDS Integers, Functions

CONSTANTS
    Attempts,      \* DEFAULT_OPTIONS.attempts
    OtherJobs,     \* how many jobs of other ids may complete in half an hour
    MaxHours,      \* bound: the hours looked at
    MaxTroubles    \* bound: attempts of the job that fail, ticks that fail after they have
                   \* added the job, requests by hand, times the worker is stopped

VARIABLES
    period,   \* of the job: 6 a connection.sync, 12 an app.listing, 24 an app.ranks
    now,      \* hours, from some 17:00
    phase,    \* of the hour: its tick, the jobs it added, its halves, over
    up,       \* a worker runs
    record,   \* what Redis knows under the schedule's id
    newer,    \* jobs completed since that one did
    fresh,    \* jobs of fresh ids that wait
    lastRun,  \* ghost: the hour the work was last done, Never at first
    slotRuns, \* ghost: how often the scheduled job did it in this hour
    unheard,  \* ghost: a request after which no run has begun
    used

vars == <<period, now, phase, up, record, newer, fresh, lastRun, slotRuns, unheard, used>>

Never == -1
Forgotten == [st |-> "none", at |-> 0, made |-> 0]
Spend(b) == SumFunction(used) < MaxTroubles /\ used' = [used EXCEPT ![b] = @ + 1]

Init ==
    /\ period \in {6, 12, 24}
    /\ now = 0 /\ phase = "tick" /\ up = TRUE
    /\ record = Forgotten /\ newer = 0 /\ fresh = 0
    /\ lastRun = Never /\ slotRuns = 0 /\ unheard = FALSE
    /\ used = [b \in {"faults", "tickFaults", "presses", "outages"} |-> 0]

-----------------------------------------------------------------------------
(* The queue                                                               *)

Known == record.st # "none"

\* Queue.add under the schedule's id.
Added == IF Known THEN record ELSE [st |-> "waiting", at |-> 0, made |-> 0]

\* mutant: the tick keeps as many as every other job
TickKeepsAll == 1000

\* removeOnComplete.count of schedule.tick, of alerts.evaluate, and the default; and
\* the ages in hours after which a completed and a failed job is forgotten.
TickKeeps == 24
AlertsKeep == 48
DefaultKeeps == 1000
CompletedAge == 24
FailedAge == 7 * 24

\* What is left of the record when n more jobs have completed, the last of which
\* keeps so many.  The age may have passed once its hour has.
Left(r, n, keeps) ==
    IF r.st = "completed" /\ (newer + n >= keeps \/ now - r.at > CompletedAge)
        THEN {Forgotten}
    ELSE IF r.st = "completed" /\ now - r.at = CompletedAge THEN {r, Forgotten} ELSE {r}

Capped(n) == IF n > AlertsKeep THEN AlertsKeep ELSE n

\* n other jobs complete; they count once this one has.
Completed(n, keeps) ==
    /\ record' \in Left(record, n, keeps)
    /\ newer' = IF record'.st = "completed" THEN Capped(newer + n) ELSE 0

-----------------------------------------------------------------------------
(* scheduleTick                                                            *)

\* hashToRange spreads the slots over the period; this job has the one at 02:00.
Due == (now + 17) % period = 2

Tick ==
    /\ up /\ phase = "tick"
    /\ phase' = "added"
    /\ record' = IF Due THEN Added ELSE record
    /\ UNCHANGED <<period, now, up, newer, fresh, lastRun, slotRuns, unheard, used>>

\* A later add of the same tick fails; the tick is attempted again.
TickFails ==
    /\ phase = "added"
    /\ Spend("tickFaults")
    /\ phase' = "tick"
    /\ UNCHANGED <<period, now, up, record, newer, fresh, lastRun, slotRuns, unheard>>

TickDone ==
    /\ phase = "added"
    /\ phase' = "first"
    /\ Completed(1, TickKeeps)
    /\ UNCHANGED <<period, now, up, fresh, lastRun, slotRuns, unheard, used>>

\* Half an hour passes: alerts.evaluate completes, and n other jobs before it.
AlertsDone(n) ==
    /\ up /\ phase \in {"first", "second"}
    /\ phase' = IF phase = "first" THEN "second" ELSE "over"
    /\ Completed(n + 1, AlertsKeep)
    /\ UNCHANGED <<period, now, up, fresh, lastRun, slotRuns, unheard, used>>

-----------------------------------------------------------------------------
(* The job                                                                 *)

Begin ==
    /\ up /\ record.st = "waiting"
    /\ record' = [record EXCEPT !.st = "active"]
    /\ unheard' = FALSE
    /\ UNCHANGED <<period, now, phase, up, newer, fresh, lastRun, slotRuns, used>>

Succeed ==
    /\ record.st = "active"
    /\ record' = [record EXCEPT !.st = "completed", !.at = now]
    /\ newer' = 0
    /\ lastRun' = now
    /\ slotRuns' = slotRuns + 1
    /\ UNCHANGED <<period, now, phase, up, fresh, unheard, used>>

Retried(made) == made < Attempts

Fail ==
    /\ record.st = "active"
    /\ Spend("faults")
    /\ LET made == record.made + 1 IN
       record' = [st |-> IF Retried(made) THEN "waiting" ELSE "failed", at |-> now, made |-> made]
    /\ UNCHANGED <<period, now, phase, up, newer, fresh, lastRun, slotRuns, unheard>>

\* Some job fails for good: failed jobs of the age are forgotten.
OtherFails ==
    /\ record.st = "failed" /\ now - record.at > FailedAge
    /\ record' = Forgotten
    /\ UNCHANGED <<period, now, phase, up, newer, fresh, lastRun, slotRuns, unheard, used>>

\* mutant: `connection.sync-${id}`
PressedIdPlain == FALSE

\* `connection.sync-${id}-${Date.now()}`, likewise app.listing; ranks are asked for under
\* the schedule's id.
PressedIdFresh == period # 24

\* A procedure enqueues it by hand and answers { queued: true }.
Press ==
    /\ Spend("presses")
    /\ unheard' = TRUE
    /\ IF PressedIdFresh THEN fresh' = fresh + 1 /\ UNCHANGED record
                         ELSE record' = Added /\ UNCHANGED fresh
    /\ UNCHANGED <<period, now, phase, up, newer, lastRun, slotRuns>>

PressedRun ==
    /\ up /\ fresh > 0
    /\ fresh' = fresh - 1
    /\ Completed(1, DefaultKeeps)
    /\ lastRun' = now
    /\ unheard' = FALSE
    /\ UNCHANGED <<period, now, phase, up, slotRuns, used>>

-----------------------------------------------------------------------------
(* The worker and the clock                                                *)

\* It drains what it has begun.  The tick of a missed hour runs when it is back.
Stop ==
    /\ up /\ phase = "over" /\ record.st # "active" /\ Spend("outages")
    /\ up' = FALSE
    /\ UNCHANGED <<period, now, phase, record, newer, fresh, lastRun, slotRuns, unheard>>

Start ==
    /\ ~up
    /\ up' = TRUE
    /\ UNCHANGED <<period, now, phase, record, newer, fresh, lastRun, slotRuns, unheard, used>>

\* Assumed: a running worker does what waits within the hour, its retries included.
\* The clock runs on until a job that failed for good may be forgotten.
Hour ==
    /\ now < MaxHours \/ (record.st = "failed" /\ now - record.at <= FailedAge)
    /\ up => phase = "over" /\ record.st \notin {"waiting", "active"} /\ fresh = 0
    /\ now' = now + 1 /\ phase' = "tick" /\ slotRuns' = 0
    /\ UNCHANGED <<period, up, record, newer, fresh, lastRun, unheard, used>>

Next ==
    \/ Tick \/ TickFails \/ TickDone \/ (\E n \in OtherJobs : AlertsDone(n))
    \/ Begin \/ Succeed \/ Fail \/ OtherFails \/ Press \/ PressedRun
    \/ Stop \/ Start \/ Hour

Spec == Init /\ [][Next]_vars

-----------------------------------------------------------------------------
(* Properties                                                              *)

\* HANDOVER.md: 6-hourly, 12-hourly, daily.  Unless a worker was stopped or an attempt was
\* the last to fail, the work is done every 12 or 24 hours: a job of that age is forgotten
\* when its id is added again.  The one of six hours ago may not be, nor may ranks asked for
\* in the nine hours before their slot.
Gap == IF period = 6 THEN 12 ELSE IF period = 24 /\ used["presses"] > 0 THEN 33 ELSE period

KeptUp ==
    /\ lastRun # Never /\ used["outages"] = 0 /\ used["faults"] < Attempts
        => now - lastRun <= Gap
    /\ slotRuns <= IF PressedIdFresh THEN 1 ELSE 1 + used["presses"]

\* Who was told that the job is queued sees it run, while a worker is up.  A request under
\* the schedule's id may be ignored: its work is not older than that then, unless a worker
\* was stopped or an attempt was the last to fail.
PressHeard ==
    [][now' > now /\ up /\ unheard
        => /\ ~PressedIdFresh
           /\ used["outages"] = 0 /\ used["faults"] < Attempts => now - lastRun <= Gap]_vars

\* src/server/api/routers/keyword.ts:133: "Rank the new terms now rather than waiting for
\* tomorrow's pass": what is asked for by hand waits or has a run of its own ahead, even
\* when the scheduled job of the day is done.
RanksNow == unheard /\ record.st \in {"completed", "failed"} => fresh > 0
=============================================================================
