----------------------------- MODULE PushCampaign -----------------------------
(***************************************************************************)
(* One push campaign: push.send (src/server/api/routers/push.ts) creates   *)
(* it with one delivery per app and queues a job; handlePushSend           *)
(* (src/server/jobs/handlers/push.ts) calls each app's Firebase project,   *)
(* records every outcome and settles the campaign.  The handler's awaits   *)
(* are the step boundaries, so a second execution of a stalled job, a key  *)
(* upload or a crash can fall between any two of them.                     *)
(***************************************************************************)
EXTENDS Integers, FiniteSets, Functions, BullJob

CONSTANTS
    App,         \* the apps the campaign targets
    NoApp,
    MaxFaults,   \* bound: calls Firebase refuses or that never reach it
    MaxLost,     \* bound: accepted messages whose response is lost
    MaxCrashes,  \* bound: worker processes that die
    MaxBlocked,  \* bound: locks lost by an execution that goes on running
    MaxUploads,  \* bound: service accounts uploaded or removed
    MaxUnqueued, \* bound: requests that find Redis unreachable
    MaxTroubles  \* bound: all of these together

ASSUME PushAssumption ==
    /\ NoApp \notin App
    /\ {MaxFaults, MaxLost, MaxCrashes, MaxBlocked, MaxUploads, MaxUnqueued,
        MaxTroubles} \subseteq Nat

VARIABLES
    request,     \* the push.send request: idle, about to enqueue, or done
    campaign,    \* PushCampaign.status, NONE before it is created
    delivery,    \* delivery[a]: PushDelivery.status
    credential,  \* credential[a]: status of the app's PushCredential, NONE without one
    job,         \* the campaign's push.send job
    exec,        \* exec[w]: an execution of handlePushSend
    accepted,    \* accepted[a]: ghost, how often Firebase took the notification
    used         \* how much of each bound is spent

vars == <<request, campaign, delivery, credential, job, exec, accepted, used>>

DeliveryStatus == {"PENDING", "SENT", "FAILED", "SKIPPED"}
Verdicts == {"SENT", "PARTIAL", "FAILED"}
KeyStatus == {"NONE", "UNVERIFIED", "ACTIVE", "INVALID"}
Pc == {"idle", "load", "mark", "loop", "sent", "refused", "invalidate",
       "tally", "settle", "throw", "return"}

\* An execution that is not running: the deliveries it still has to send, the
\* credentials it loaded with them, the app in hand and what came back for it.
Idle == [pc |-> "idle", todo |-> {}, keys |-> <<>>, app |-> NoApp, result |-> "none"]

Bounds == {"faults", "lost", "crashes", "blocked", "uploads", "unqueued"}
Limit == [b \in Bounds |->
            CASE b = "faults" -> MaxFaults [] b = "lost" -> MaxLost [] b = "crashes" -> MaxCrashes
              [] b = "blocked" -> MaxBlocked [] b = "uploads" -> MaxUploads
              [] b = "unqueued" -> MaxUnqueued]
Spend(b) ==
    /\ used[b] < Limit[b] /\ SumFunction(used) < MaxTroubles
    /\ used' = [used EXCEPT ![b] = @ + 1]

Init ==
    /\ request = "idle"
    /\ campaign = "NONE"
    /\ delivery = [a \in App |-> "PENDING"]
    /\ credential \in [App -> {"NONE", "ACTIVE"}]
    /\ job = NoJob
    /\ exec = [w \in Worker |-> Idle]
    /\ accepted = [a \in App |-> 0]
    /\ used = [b \in Bounds |-> 0]

-----------------------------------------------------------------------------
(* Requests                                                                *)

\* push.send up to the create: one delivery per app, SKIPPED where the app has no
\* working key; refused when no app has one.
Compose ==
    /\ request = "idle"
    /\ request' = "enqueue"
    /\ \E a \in App : credential[a] = "ACTIVE"
    /\ campaign' = "QUEUED"
    /\ delivery' = [a \in App |-> IF credential[a] = "ACTIVE" THEN "PENDING"
                                                                    ELSE "SKIPPED"]
    /\ UNCHANGED <<credential, job, exec, accepted, used>>

\* push.send's enqueue.
Enqueue ==
    /\ request = "enqueue"
    /\ request' = "done"
    /\ job' = Added(job)
    /\ UNCHANGED <<campaign, delivery, credential, exec, accepted, used>>

\* enqueue throws QueueUnavailableError: the campaign stays QUEUED without a job.
EnqueueFails ==
    /\ request = "enqueue"
    /\ Spend("unqueued")
    /\ request' = "done"
    /\ UNCHANGED <<campaign, delivery, credential, job, exec, accepted>>

\* saveCredential (the uploaded key minted a token, or it did not).
SaveCredential(a) ==
    /\ Spend("uploads")
    /\ \E s \in {"ACTIVE", "INVALID"} :
         credential' = [credential EXCEPT ![a] = s]
    /\ UNCHANGED <<request, campaign, delivery, job, exec, accepted>>

\* removeCredential.
RemoveCredential(a) ==
    /\ credential[a] # "NONE"
    /\ Spend("uploads")
    /\ credential' = [credential EXCEPT ![a] = "NONE"]
    /\ UNCHANGED <<request, campaign, delivery, job, exec, accepted>>

-----------------------------------------------------------------------------
(* The queue                                                               *)

Take(w) ==
    /\ job.state = "waiting"
    /\ exec[w].pc = "idle"
    /\ job' = Taken(job, w)
    /\ exec' = [exec EXCEPT ![w] = [Idle EXCEPT !.pc = "load"]]
    /\ UNCHANGED <<request, campaign, delivery, credential, accepted, used>>

\* The process dies; its job stays active until the lock expires.
Crash(w) ==
    /\ exec[w].pc # "idle"
    /\ Spend("crashes")
    /\ exec' = [exec EXCEPT ![w] = Idle]
    /\ UNCHANGED <<request, campaign, delivery, credential, job, accepted>>

Orphaned == job.state = "active" /\ exec[job.owner].pc = "idle"

\* The stalled-job check finds the lock of a dead process expired ...
Reclaim ==
    /\ Orphaned
    /\ job' = Stalled(job)
    /\ UNCHANGED <<request, campaign, delivery, credential, exec, accepted, used>>

\* ... or that of a process too busy to renew it, whose handler goes on.
LoseLock ==
    /\ job.state = "active" /\ ~Orphaned
    /\ Spend("blocked")
    /\ job' = Stalled(job)
    /\ UNCHANGED <<request, campaign, delivery, credential, exec, accepted>>

-----------------------------------------------------------------------------
(* handlePushSend                                                          *)

At(w, pc) == exec[w].pc = pc
Goto(w, pc) == exec' = [exec EXCEPT ![w].pc = pc]

\* mutant: the deliveries are loaded without `where: { status: "PENDING" }`
PendingNone(status) == status # "SKIPPED"

\* The deliveries a run loads.
ToSend(status) == status = "PENDING"

\* findUnique with the PENDING deliveries and their apps' credentials.
Load(w) ==
    LET todo == {a \in App : ToSend(delivery[a])} IN
    /\ At(w, "load")
    /\ exec' = [exec EXCEPT ![w].todo = todo, ![w].keys = credential,
                            ![w].pc = IF todo = {} THEN "tally" ELSE "mark"]
    /\ UNCHANGED <<request, campaign, delivery, credential, job, accepted, used>>

Mark(w) ==
    /\ At(w, "mark")
    /\ campaign' = "SENDING"
    /\ Goto(w, "loop")
    /\ UNCHANGED <<request, delivery, credential, job, accepted, used>>

\* The loop reaches app a: no working key in the loaded snapshot.
Skip(w, a) ==
    /\ At(w, "loop") /\ a \in exec[w].todo
    /\ exec[w].keys[a] # "ACTIVE"
    /\ delivery' = [delivery EXCEPT ![a] = "SKIPPED"]
    /\ exec' = [exec EXCEPT ![w].todo = @ \ {a}]
    /\ UNCHANGED <<request, campaign, credential, job, accepted, used>>

\* The stored key no longer decrypts (ENCRYPTION_KEY was rotated).
Undecryptable(w, a) ==
    /\ At(w, "loop") /\ a \in exec[w].todo
    /\ exec[w].keys[a] = "ACTIVE"
    /\ Spend("faults")
    /\ delivery' = [delivery EXCEPT ![a] = "FAILED"]
    /\ exec' = [exec EXCEPT ![w].todo = @ \ {a}]
    /\ UNCHANGED <<request, campaign, credential, job, accepted>>

\* sendMessage is under way for app a with the key of the snapshot.
Sending(w, a) ==
    /\ At(w, "loop") /\ a \in exec[w].todo
    /\ exec[w].keys[a] = "ACTIVE"

\* What the handler holds of app a when sendMessage has come back.
Answer(w, a, pc, result) ==
    exec' = [exec EXCEPT ![w].todo = @ \ {a}, ![w].app = a, ![w].pc = pc, ![w].result = result]

Accept(w, a) ==
    /\ Sending(w, a)
    /\ accepted' = [accepted EXCEPT ![a] = @ + 1]
    /\ Answer(w, a, "sent", "ok")
    /\ UNCHANGED <<request, campaign, delivery, credential, job, used>>

\* Firebase refuses: for now, for a malformed or misaddressed message, or the key
\* ("auth", which is also the answer when the token exchange failed for any reason).
Refuse(w, a) ==
    /\ Sending(w, a)
    /\ Spend("faults")
    /\ \E result \in {"retryable", "other", "auth"} : Answer(w, a, "refused", result)
    /\ UNCHANGED <<request, campaign, delivery, credential, job, accepted>>

\* The fetch itself rejects: sendMessage does not catch it, nor does the handler.
Unreachable(w, a) ==
    /\ Sending(w, a)
    /\ Spend("faults")
    /\ Answer(w, a, "throw", "none")
    /\ UNCHANGED <<request, campaign, delivery, credential, job, accepted>>

LostResponse(w, a) ==
    /\ Sending(w, a)
    /\ Spend("lost")
    /\ accepted' = [accepted EXCEPT ![a] = @ + 1]
    /\ Answer(w, a, "throw", "none")
    /\ UNCHANGED <<request, campaign, delivery, credential, job>>

RecordSent(w) ==
    /\ At(w, "sent")
    /\ delivery' = [delivery EXCEPT ![exec[w].app] = "SENT"]
    /\ Goto(w, "loop")
    /\ UNCHANGED <<request, campaign, credential, job, accepted, used>>

\* A retryable failure stays PENDING for the job's own retry.
RefusedStatus(result) == IF result = "retryable" THEN "PENDING" ELSE "FAILED"

\* mutant: a retryable refusal is logged and the loop goes on
AfterSwallowed(result) == IF result = "auth" THEN "invalidate" ELSE "loop"

\* A retryable refusal rejects the whole job, a refused key is flagged.
After(result) ==
    CASE result = "auth"      -> "invalidate"
      [] result = "retryable" -> "throw"
      [] OTHER                -> "loop"

RecordRefused(w) ==
    LET result == exec[w].result IN
    /\ At(w, "refused")
    /\ delivery' = [delivery EXCEPT ![exec[w].app] = RefusedStatus(result)]
    /\ Goto(w, After(result))
    /\ UNCHANGED <<request, campaign, credential, job, accepted, used>>

\* updateMany by app id: it flags whichever key the app has by now.
Invalidate(w) ==
    LET a == exec[w].app IN
    /\ At(w, "invalidate")
    /\ credential' = IF credential[a] = "NONE" THEN credential
                     ELSE [credential EXCEPT ![a] = "INVALID"]
    /\ Goto(w, "loop")
    /\ UNCHANGED <<request, campaign, delivery, job, accepted, used>>

LoopDone(w) ==
    /\ At(w, "loop") /\ exec[w].todo = {}
    /\ Goto(w, "tally")
    /\ UNCHANGED <<request, campaign, delivery, credential, job, accepted, used>>

Throw(w) ==
    /\ At(w, "throw")
    /\ job' = Rejected(job, w)
    /\ exec' = [exec EXCEPT ![w] = Idle]
    /\ UNCHANGED <<request, campaign, delivery, credential, accepted, used>>

-----------------------------------------------------------------------------
(* finalize                                                                *)

HasStatus(s, d) == {a \in App : d[a] = s}

\* mutant: skipped apps are not held against the campaign
VerdictForgiving(d) ==
    IF HasStatus("SENT", d) = {} THEN "FAILED"
    ELSE IF HasStatus("FAILED", d) # {} THEN "PARTIAL" ELSE "SENT"

Verdict(d) ==
    IF HasStatus("SENT", d) = {} THEN "FAILED"
    ELSE IF HasStatus("SENT", d) = App THEN "SENT" ELSE "PARTIAL"

\* finalize's findMany: nothing to settle while a delivery is pending.
Tally(w) ==
    /\ At(w, "tally")
    /\ exec' = IF HasStatus("PENDING", delivery) # {}
               THEN [exec EXCEPT ![w].pc = "return"]
               ELSE [exec EXCEPT ![w].pc = "settle", ![w].result = Verdict(delivery)]
    /\ UNCHANGED <<request, campaign, delivery, credential, job, accepted, used>>

Settle(w) ==
    /\ At(w, "settle")
    /\ campaign' = exec[w].result
    /\ Goto(w, "return")
    /\ UNCHANGED <<request, delivery, credential, job, accepted, used>>

Return(w) ==
    /\ At(w, "return")
    /\ job' = Resolved(job, w)
    /\ exec' = [exec EXCEPT ![w] = Idle]
    /\ UNCHANGED <<request, campaign, delivery, credential, accepted, used>>

-----------------------------------------------------------------------------

\* The handler's own progress, whatever Firebase answers.
Progress(w) ==
    \/ Load(w) \/ Mark(w) \/ LoopDone(w)
    \/ RecordSent(w) \/ RecordRefused(w) \/ Invalidate(w)
    \/ Tally(w) \/ Settle(w) \/ Throw(w) \/ Return(w)
    \/ \E a \in App : Skip(w, a) \/ Accept(w, a)

Trouble(w) ==
    \E a \in App : \/ Undecryptable(w, a)
                   \/ Refuse(w, a)
                   \/ Unreachable(w, a)
                   \/ LostResponse(w, a)

Next ==
    \/ Compose
    \/ Enqueue
    \/ EnqueueFails
    \/ \E a \in App : SaveCredential(a) \/ RemoveCredential(a)
    \/ \E w \in Worker : Take(w) \/ Crash(w) \/ Progress(w) \/ Trouble(w)
    \/ Reclaim
    \/ LoseLock

Spec == Init /\ [][Next]_vars

\* A request that has created the campaign goes on to queue it (or to fail); a worker process
\* is kept running, takes what waits, and its handlers run to their end; the
\* stalled-job check is a timer.  Troubles, crashes and uploads just may happen.
Fairness ==
    /\ WF_vars(Enqueue \/ EnqueueFails) /\ WF_vars(Reclaim)
    /\ \A w \in Worker : WF_vars(Take(w)) /\ WF_vars(Progress(w))

FairSpec == Spec /\ Fairness

-----------------------------------------------------------------------------
(* Properties                                                              *)

\* An execution knows its keys once it has loaded, the app it has an answer for and the
\* verdict it settles with.
Exec ==
    {e \in [pc : Pc, todo : SUBSET App, keys : [App -> KeyStatus] \union {<<>>},
            app : App \union {NoApp},
            result : {"none", "ok", "retryable", "other", "auth"} \union Verdicts] :
        /\ e.pc \notin {"idle", "load"} => e.keys \in [App -> KeyStatus]
        /\ e.pc \in {"sent", "refused", "invalidate"} => e.app \in App
        /\ e.pc = "settle" => e.result \in Verdicts}

TypeOK ==
    /\ request \in {"idle", "enqueue", "done"}
    /\ campaign \in {"NONE", "QUEUED", "SENDING"} \union Verdicts
    /\ delivery \in [App -> DeliveryStatus]
    /\ credential \in [App -> KeyStatus]
    /\ job \in Job
    /\ exec \in [Worker -> Exec]
    /\ accepted \in [App -> Nat]
    /\ used \in [Bounds -> Nat]

\* No app's users get a notification again without an interruption: a crash, a lost
\* lock or a lost response.  Retries and refusals alone never repeat one.
DuplicatesBounded ==
    \A a \in App : accepted[a] <= 1 + used["crashes"] + used["blocked"] + used["lost"]

InHand(a) == \E w \in Worker : At(w, "sent") /\ exec[w].app = a

\* What the campaign page says of an app is what Firebase did: SENT only if it took
\* the notification, and if it took one the row says so (or is about to), unless the
\* handler was interrupted before it could write it down.
DeliveryTruthful ==
    \A a \in App :
        /\ (delivery[a] = "SENT" \/ InHand(a)) => accepted[a] > 0
        /\ accepted[a] > 0 => \/ delivery[a] = "SENT" \/ InHand(a)
                              \/ used["crashes"] + used["blocked"] + used["lost"] > 0

\* One notification for each app, and a page that says so.
OnceAndTruthful == DuplicatesBounded /\ DeliveryTruthful

\* Until an execution outlives its lock, the deliveries and the campaign move as the
\* ledger says, whatever crashes and is retried: each delivery is decided once, and
\* the verdict is settled once, after the last of them, and agrees with all of them.
Ledger == INSTANCE CampaignLedger WITH disputed <- used["blocked"] > 0
ImplementsLedger == Ledger!Spec

\* A campaign whose job was queued reaches a verdict, with fewer failing calls than
\* attempts; unless the job stalls so often that the queue gives it up, or a second
\* execution finds pending what the first, without its lock, cannot hand back.
CampaignSettles ==
    (campaign = "QUEUED" /\ job.state # "none")
        ~> (campaign \in Verdicts \/ job.stalls > StallLimit \/ used["blocked"] > 0)
=============================================================================
