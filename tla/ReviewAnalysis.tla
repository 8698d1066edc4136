---------------------------- MODULE ReviewAnalysis ----------------------------
(***************************************************************************)
(* How one review comes by its sentiment.  Every sync that writes the      *)
(* review while it is not analyzed queues review.classify                  *)
(* (src/server/jobs/handlers/connection.ts) under an id of its own, and    *)
(* the job asks the model, or goes by the stars                            *)
(* (src/server/jobs/handlers/insights.ts).                                 *)
(***************************************************************************)
EXTENDS BullJob

CONSTANTS
    None,
    MaxSyncs,    \* bound: syncs that bring the review
    MaxChanges,  \* bound: times the budget runs out or is renewed, a key is set or removed
    MaxTroubles  \* bound: calls and writes that fail, workers that die, locks that expire

VARIABLES
    sentiment,  \* of the review and who gave it: None (analyzedAt is null), model or stars
    queueing,   \* a sync has written the review and is about to queue the job
    configured, \* the worker has an AI key
    budget,     \* the workspace has tokens left
    job,        \* review.classify-<id>
    exec,       \* exec[w]: where an execution stands, and the sentiment it is to write
    paid,       \* ghost: answers the model gave
    odd,        \* ghost: the model's sentiment was replaced by the stars'; the job stalled; it
                \* left the review as it was for want of a key
    used

vars == <<sentiment, queueing, configured, budget, job, exec, paid, odd, used>>

Idle == [at |-> "idle", says |-> None]
Spend == used.troubles < MaxTroubles /\ used' = [used EXCEPT !.troubles = @ + 1]

Init ==
    /\ sentiment = None /\ queueing = FALSE
    /\ configured \in BOOLEAN /\ budget \in BOOLEAN
    /\ job = NoJob
    /\ exec = [w \in Worker |-> Idle]
    /\ paid = 0
    /\ odd = [replaced |-> FALSE, stalled |-> FALSE, skipped |-> FALSE]
    /\ used = [syncs |-> 0, changes |-> 0, troubles |-> 0]

\* writeReviews
Upsert ==
    /\ used.syncs < MaxSyncs /\ used' = [used EXCEPT !.syncs = @ + 1]
    /\ ~queueing
    /\ queueing' = (sentiment = None)
    /\ UNCHANGED <<sentiment, configured, budget, job, exec, paid, odd>>

\* A job that is known under the id, also one that has ended, is left alone.
AddedOnce == Added(job)

Enqueue ==
    /\ queueing
    /\ queueing' = FALSE
    /\ job' = AddedOnce
    /\ odd' = [odd EXCEPT !.skipped = @ /\ job.state # "none"]
    /\ UNCHANGED <<sentiment, configured, budget, exec, paid, used>>

\* removeOnComplete and removeOnFail, or Redis is emptied.
Forget ==
    /\ job.state \in {"completed", "failed"}
    /\ job' = NoJob
    /\ UNCHANGED <<sentiment, queueing, configured, budget, exec, paid, odd, used>>

\* A month begins or its budget is spent; a worker is started anew with a key or without.
Change ==
    /\ used.changes < MaxChanges /\ used' = [used EXCEPT !.changes = @ + 1]
    /\ \/ budget' = ~budget /\ UNCHANGED configured
       \/ configured' = ~configured /\ (\A w \in Worker : exec[w] = Idle) /\ UNCHANGED budget
    /\ UNCHANGED <<sentiment, queueing, job, exec, paid, odd>>

-----------------------------------------------------------------------------
(* classifyReviewJob                                                       *)

Ends(w) == job' = Resolved(job, w) /\ exec' = [exec EXCEPT ![w] = Idle]
Throws(w) == job' = Rejected(job, w) /\ exec' = [exec EXCEPT ![w] = Idle]

\* mutant: a review that has its sentiment is analyzed all the same
AnyReview == FALSE

\* review.analyzedAt
Analyzed == sentiment # None

\* Without a key the job is done, and the review stays as it is.
Begin(w) ==
    /\ job.state = "waiting" /\ exec[w] = Idle
    /\ IF ~configured \/ Analyzed
       THEN /\ job' = Resolved(Taken(job, w), w)
            /\ odd' = [odd EXCEPT !.skipped = @ \/ ~Analyzed]
            /\ UNCHANGED exec
       ELSE /\ job' = Taken(job, w)
            /\ exec' = [exec EXCEPT ![w] = [at |-> "ask", says |-> None]]
            /\ UNCHANGED odd
    /\ UNCHANGED <<sentiment, queueing, configured, budget, paid, used>>

\* classifyReview: the model answers, or the budget is spent and the stars must do.
Ask(w) ==
    /\ exec[w].at = "ask"
    /\ exec' = [exec EXCEPT ![w] = [at |-> "write",
                                    says |-> IF budget THEN "model" ELSE "stars"]]
    /\ paid' = IF budget THEN paid + 1 ELSE paid
    /\ UNCHANGED <<sentiment, queueing, configured, budget, job, odd, used>>

\* Any other error is the job's.
AskFails(w) ==
    /\ exec[w].at = "ask" /\ budget /\ Spend
    /\ Throws(w)
    /\ UNCHANGED <<sentiment, queueing, configured, budget, paid, odd>>

Write(w) ==
    /\ exec[w].at = "write"
    /\ sentiment' = exec[w].says
    /\ odd' = [odd EXCEPT !.replaced = @ \/ (sentiment = "model" /\ sentiment' = "stars")]
    /\ Ends(w)
    /\ UNCHANGED <<queueing, configured, budget, paid, used>>

WriteFails(w) ==
    /\ exec[w].at = "write" /\ Spend
    /\ Throws(w)
    /\ UNCHANGED <<sentiment, queueing, configured, budget, paid, odd>>

\* The worker dies, and its job with it until the lock expires; or the lock expires under
\* an execution that goes on.
Stall ==
    /\ job.state = "active"
    /\ Spend
    /\ \/ UNCHANGED exec
       \/ exec' = [exec EXCEPT ![job.owner] = Idle]
    /\ job' = Stalled(job)
    /\ odd' = [odd EXCEPT !.stalled = TRUE]
    /\ UNCHANGED <<sentiment, queueing, configured, budget, paid>>

Next ==
    \/ Upsert \/ Enqueue \/ Forget \/ Change \/ Stall
    \/ \E w \in Worker : Begin(w) \/ Ask(w) \/ AskFails(w) \/ Write(w) \/ WriteFails(w)

Spec == Init /\ [][Next]_vars

-----------------------------------------------------------------------------
(* Properties                                                              *)

\* However often a review is synced while it waits, the model is paid for it once, and once
\* more for each call, write or worker that failed; a job that is done has left a sentiment,
\* unless it ran without a key; and what the model said gives way to the stars only when
\* the job was taken for stalled and ran twice at once.
AnalyzedOnce ==
    /\ paid <= 1 + used.troubles
    /\ job.state = "completed" => sentiment # None \/ odd.skipped
    /\ odd.replaced => odd.stalled
=============================================================================
