----------------------------- MODULE MCBackground -----------------------------
(***************************************************************************)
(* Five components behind the pages, which share no state, checked in one  *)
(* run: a behaviour is one of a digest, of a periodic job, of the          *)
(* read-through cache, of a rate limit or of a host's slot, and leaves the *)
(* others as they begin.                                                   *)
(***************************************************************************)
EXTENDS HostThrottle

CONSTANTS
    SendHour, CronTicks, Attempts, DailyHours, WeeklyHours, DailyTroubles, WeeklyTroubles,
    OtherJobs, QueueHours, QueueTroubles,
    Process, Key, Reader, Ttl, MaxSize, Slow, CacheTroubles,
    Client, Limit, Window, MaxCount, LimitTroubles

VARIABLES
    component, \* the one that takes the steps
    cadence, now, up, ticked, lastSent, decided, known, jobs, sends, stamping, used,
    period, hour, phase, worker, record, newer, fresh, lastRun, slotRuns, unheard, spent,
    memory, redis, flight, inflight, reader, oldest, lost,
    count, left, client, told, age, recent, over, failed

digestVars == <<cadence, now, up, ticked, lastSent, decided, known, jobs, sends, stamping, used>>
queueVars == <<period, hour, phase, worker, record, newer, fresh, lastRun, slotRuns, unheard, spent>>
cacheVars == <<memory, redis, flight, inflight, reader, oldest, lost>>
limitVars == <<count, left, client, told, age, recent, over, failed>>

D == INSTANCE DigestDispatch
Q == INSTANCE QueueSchedule
        WITH MaxHours <- QueueHours, MaxTroubles <- QueueTroubles,
             now <- hour, up <- worker, used <- spent
C == INSTANCE FastCache
        WITH Caller <- Reader, MaxTroubles <- CacheTroubles, caller <- reader, used <- lost
R == INSTANCE RateWindow
        WITH Caller <- Client, MaxTroubles <- LimitTroubles, caller <- client, used <- failed

\* At rest the digest and the job are of one kind.
BackgroundInit ==
    /\ component \in {"digest", "queue", "cache", "limit", "host"}
    /\ Init /\ D!Init /\ Q!Init /\ C!Init /\ R!Init
    /\ component = "digest" \/ cadence = "DAILY"
    /\ component = "queue" \/ period = 24

BackgroundNext ==
    /\ UNCHANGED component
    /\ \/ component = "digest" /\ D!Next
            /\ UNCHANGED <<vars, queueVars, cacheVars, limitVars>>
       \/ component = "queue" /\ Q!Next
            /\ UNCHANGED <<vars, digestVars, cacheVars, limitVars>>
       \/ component = "cache" /\ C!Next
            /\ UNCHANGED <<vars, digestVars, queueVars, limitVars>>
       \/ component = "limit" /\ R!Next
            /\ UNCHANGED <<vars, digestVars, queueVars, cacheVars>>
       \/ component = "host" /\ Next
            /\ UNCHANGED <<digestVars, queueVars, cacheVars, limitVars>>

others == <<digestVars, queueVars, cacheVars, limitVars>>

BackgroundSpec == BackgroundInit /\ [][BackgroundNext]_<<component, vars, others>>

\* A digest is sent once a period, or again for a reason the code has, and skips no day
\* without cause.
OneEachPeriod == D!OneEachPeriod

\* A digest that was due has gone out when its hour ends.
Arrives == D!Arrives

\* A periodic job is done every 12 or 24 hours, after a request 33, and once an hour.
KeptUp == Q!KeptUp

\* A request to run it by hand is heard.
PressHeard == Q!PressHeard

\* A value is served for less than twice its ttl, and callers share loads.
CacheKeeps == C!CacheKeeps

\* A window lets its limit through and ends when it said it would.
WindowHolds == R!WindowHolds
==============================================================================
