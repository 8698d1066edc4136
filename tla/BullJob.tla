------------------------------- MODULE BullJob -------------------------------
(***************************************************************************)
(* One BullMQ job, as the queue of src/server/jobs/queues.ts uses it:      *)
(* `attempts: 3`, a deterministic job id, and the library's stalled-job    *)
(* check.  The library is not in the repository; what is modelled is the   *)
(* contract the handlers rely on.  A delayed retry counts as waiting.      *)
(***************************************************************************)
EXTENDS Naturals

CONSTANTS
    Worker,      \* handler executions that can run at the same time
    NoWorker,
    Attempts,    \* DEFAULT_OPTIONS.attempts
    StallLimit   \* BullMQ's maxStalledCount: a job may stall this often

ASSUME BullAssumption ==
    /\ NoWorker \notin Worker
    /\ Attempts \in Nat \ {0}
    /\ StallLimit \in Nat

Job == [state : {"none", "waiting", "active", "completed", "failed"},
        made : Nat, stalls : Nat, owner : Worker \union {NoWorker}]

NoJob == [state |-> "none", made |-> 0, stalls |-> 0, owner |-> NoWorker]

\* Queue.add under an id: a no-op while a job with that id is still recorded.
Added(job) == IF job.state = "none" THEN [NoJob EXCEPT !.state = "waiting"] ELSE job

\* A worker takes the job and its lock.
Taken(job, w) == [job EXCEPT !.state = "active", !.owner = w]

\* The handler resolved; an execution that lost its lock reports to nobody.
Resolved(job, w) ==
    IF job.owner = w THEN [job EXCEPT !.state = "completed", !.owner = NoWorker] ELSE job

\* The handler threw: another attempt, or the job is failed for good.
Rejected(job, w) ==
    IF job.owner # w THEN job
    ELSE [job EXCEPT !.state = IF job.made + 1 < Attempts THEN "waiting" ELSE "failed",
                     !.made = @ + 1, !.owner = NoWorker]

\* The lock expired: back to waiting, or failed once it stalled too often.
Stalled(job) ==
    [job EXCEPT !.state = IF job.stalls < StallLimit THEN "waiting" ELSE "failed",
                !.stalls = @ + 1, !.owner = NoWorker]
=============================================================================
