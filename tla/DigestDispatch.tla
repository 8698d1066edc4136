---------------------------- MODULE DigestDispatch ----------------------------
(***************************************************************************)
(* One enabled digest with a channel, over the hours of some days:         *)
(* dispatchDueDigests decides each hour whether it is due and queues a job *)
(* named after the hour, sendDigest delivers it and stamps lastSentAt      *)
(* (src/server/jobs/handlers/digest.ts), and a member may send it at once  *)
(* (src/server/api/routers/digest.ts).                                     *)
(* Times are truncated to the hour: an elapsed time of n whole hours may   *)
(* really be anything between n - 1 and n + 1.                             *)
(***************************************************************************)
EXTENDS Integers, Sequences, FiniteSets, Functions

CONSTANTS
    SendHour,    \* sendHourUtc
    CronTicks,   \* the cron route ticks too, also while no worker runs
    Attempts,    \* DEFAULT_OPTIONS.attempts
    DailyHours,  \* bound: the hours looked at, from a Monday 00:00, for a daily digest
    WeeklyHours, \* and for a weekly one
    DailyTroubles, \* bound: deliveries all channels of which fail, sendNow requests, times the
                   \* worker is stopped, times it dies between delivering and recording
    WeeklyTroubles \* the same for a weekly digest

VARIABLES
    cadence,  \* Digest.cadence: it is not edited here
    now,      \* hours since that Monday
    up,       \* a worker is running
    ticked,   \* the hour's tick: no, yes, or missed by a worker started late
    lastSent, \* Digest.lastSentAt, Never at first
    decided,  \* a dispatch found the digest due and is about to queue it
    known,    \* the job ids Redis knows: the hours they are named after
    jobs,     \* the jobs that wait or run: their hour and the attempts made
    sends,    \* ghost: the deliveries made: by hand, by a job in its hour, or by a late one
    stamping, \* whose lastSentAt is about to be written: the hour of a job, or Never: by hand
    used

vars == <<cadence, now, up, ticked, lastSent, decided, known, jobs, sends, stamping, used>>

Never == -1
Weekly == cadence = "WEEKLY"
MaxHours == IF Weekly THEN WeeklyHours ELSE DailyHours
Day(t) == t \div 24
Days == IF Weekly THEN 7 ELSE 1
MinimumGap == IF Weekly THEN 6 * 24 ELSE 20
Spend(b) ==
    /\ SumFunction(used) < IF Weekly THEN WeeklyTroubles ELSE DailyTroubles
    /\ used' = [used EXCEPT ![b] = @ + 1]

Init ==
    /\ cadence \in {"DAILY", "WEEKLY"}
    /\ now = 0 /\ up = TRUE /\ ticked = "no"
    /\ lastSent = Never /\ decided = FALSE
    /\ known = {} /\ jobs = {} /\ sends = <<>> /\ stamping = {}
    /\ used = [b \in {"faults", "manual", "outages", "crashes"} |-> 0]

-----------------------------------------------------------------------------
(* dispatchDueDigests                                                      *)

\* mutant: the gap is taken in days, rounded up
TooSoonDay(elapsed) == {elapsed < Days * 24 + 1}

\* The values `now - lastSentAt < minimumGapMs` may have.
TooSoon(elapsed) ==
    IF elapsed < MinimumGap THEN {TRUE} ELSE IF elapsed = MinimumGap THEN BOOLEAN ELSE {FALSE}

Due == IF lastSent = Never THEN ~Weekly \/ Day(now) % 7 = 0
                           ELSE FALSE \in TooSoon(now - lastSent)

MayPass == lastSent # Never /\ TRUE \in TooSoon(now - lastSent)

\* A tick of the worker or of the cron route, in the digest's hour or not.
Dispatch ==
    /\ up \/ CronTicks
    /\ ~decided
    /\ ticked' = "yes"
    /\ \/ now % 24 = SendHour /\ Due /\ decided' = TRUE
       \/ (now % 24 # SendHour \/ ~Due \/ MayPass) /\ ticked # "yes" /\ UNCHANGED decided
    /\ UNCHANGED <<cadence, now, up, lastSent, known, jobs, sends, stamping, used>>

\* mutant: the id has the time in it
JobIdFresh == Cardinality(known)

\* mutant: the id does not have the hour in it
JobIdPlain == 0

\* `digest.send-${id}-${yyyy-mm-ddThh}`, in whole hours.
JobId == now

\* Adding under a known id changes nothing.
Enqueue ==
    /\ decided
    /\ decided' = FALSE
    /\ known' = known \union {JobId}
    /\ jobs' = IF JobId \in known THEN jobs ELSE jobs \union {[hour |-> JobId, made |-> 0]}
    /\ UNCHANGED <<cadence, now, up, ticked, lastSent, sends, stamping, used>>

-----------------------------------------------------------------------------
(* sendDigest and sendNow                                                  *)

\* deliverReport gets it through on some channel; the job is not asked again whether
\* the digest is still due.
Deliver(j) ==
    /\ up /\ stamping \subseteq {Never}
    /\ jobs' = jobs \ {j}
    /\ sends' = Append(sends, [at |-> now, by |-> IF now = j.hour THEN "job" ELSE "late"])
    /\ stamping' = stamping \union {j.hour}
    /\ UNCHANGED <<cadence, now, up, ticked, lastSent, decided, known, used>>

\* Every channel fails: lastError, and the job has another attempt or not.
DeliverFails(j) ==
    /\ up /\ stamping \subseteq {Never}
    /\ Spend("faults")
    /\ jobs' = IF j.made + 1 < Attempts THEN (jobs \ {j}) \union {[j EXCEPT !.made = @ + 1]}
                                        ELSE jobs \ {j}
    /\ UNCHANGED <<cadence, now, up, ticked, lastSent, decided, known, sends, stamping>>

SendNow ==
    /\ Never \notin stamping
    /\ Spend("manual")
    /\ sends' = Append(sends, [at |-> now, by |-> "hand"])
    /\ stamping' = stamping \union {Never}
    /\ UNCHANGED <<cadence, now, up, ticked, lastSent, decided, known, jobs>>

Stamped == now

Stamp(h) ==
    /\ h \in stamping
    /\ lastSent' = Stamped
    /\ stamping' = stamping \ {h}
    /\ UNCHANGED <<cadence, now, up, ticked, decided, known, jobs, sends, used>>

\* The worker dies after the delivery; the stalled job is run again.
CrashUnstamped(h) ==
    /\ h \in stamping \ {Never}
    /\ Spend("crashes")
    /\ stamping' = stamping \ {h}
    /\ jobs' = jobs \union {[hour |-> h, made |-> 0]}
    /\ UNCHANGED <<cadence, now, up, ticked, lastSent, decided, known, sends>>

-----------------------------------------------------------------------------
(* The worker and the clock                                                *)

Stop ==
    /\ up /\ stamping = {} /\ Spend("outages")
    /\ up' = FALSE
    /\ UNCHANGED <<cadence, now, ticked, lastSent, decided, known, jobs, sends, stamping>>

Start ==
    /\ ~up
    /\ up' = TRUE
    /\ ticked' = IF ticked = "yes" THEN "yes" ELSE "missed"
    /\ UNCHANGED <<cadence, now, lastSent, decided, known, jobs, sends, stamping, used>>

\* Assumed: what can run does so within the hour - the tick at its start, a job with
\* its 30 s and 60 s of backoff soon after.
Hour ==
    /\ now < MaxHours
    /\ (up \/ CronTicks) => ticked # "no"
    /\ up => jobs = {}
    /\ ~decided /\ stamping = {}
    /\ now' = now + 1
    /\ ticked' = "no"
    /\ UNCHANGED <<cadence, up, lastSent, decided, known, jobs, sends, stamping, used>>

Next ==
    \/ Dispatch \/ Enqueue
    \/ \E j \in jobs : Deliver(j) \/ DeliverFails(j)
    \/ SendNow \/ \E h \in stamping : Stamp(h) \/ CrashUnstamped(h)
    \/ Stop \/ Start \/ Hour

Spec == Init /\ [][Next]_vars

-----------------------------------------------------------------------------
(* Properties                                                              *)

\* A job is known until it ends, its attempts are limited, and lastSentAt is a time
\* at which something was sent.
TypeOK ==
    /\ now \in 0 .. MaxHours
    /\ jobs \subseteq [hour : known, made : 0 .. Attempts - 1]
    /\ stamping \subseteq known \union {Never}
    /\ lastSent = Never \/ \E i \in DOMAIN sends : sends[i].at = lastSent

\* A worker restarted within the hour does not send twice: jobs that run in their hour send
\* at least the minimum gap apart, unless a worker died before it could stamp.  (Jobs the
\* cron route queued while no worker ran all run when one is back.)
OncePerPeriod ==
    \A i, k \in DOMAIN sends :
        i < k /\ sends[i].by = "job" /\ sends[k].by = "job" =>
            sends[k].at - sends[i].at >= MinimumGap \/ used["crashes"] > 0

\* The dates a delivery reports on: dateRange(days), today included.
Reported(d) == \E i \in DOMAIN sends : Day(sends[i].at) \in d .. d + Days - 1

\* No period is skipped: between the first and the last delivery every day is reported
\* on, unless deliveries failed for good, a worker was stopped, or a daily one was sent by hand.
NoDaySkipped ==
    sends # <<>> /\ used["outages"] = 0 /\ used["faults"] < Attempts /\ (used["manual"] = 0 \/ Weekly)
        => \A d \in Day(sends[1].at) .. Day(sends[Len(sends)].at) : Reported(d)

\* Each period is reported, and only once.
OneEachPeriod == OncePerPeriod /\ NoDaySkipped

\* A digest arrives whether or not anything happened: when its hour ends, with a
\* worker up and the tick made, it has gone out within its minimum gap.
Arrives ==
    [][now' > now /\ now % 24 = SendHour /\ up /\ ticked = "yes" /\ used["faults"] = 0
         /\ (Weekly => sends # <<>>)
       => sends # <<>> /\ now - sends[Len(sends)].at <= MinimumGap]_vars
=============================================================================
