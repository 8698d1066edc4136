-------------------------- MODULE PushCampaignProofs --------------------------
(***************************************************************************)
(* For every set of apps and of workers, and every bound: what a campaign  *)
(* hears of is what its page says, how often at most, and that the ledger  *)
(* is kept until an execution outlives its lock.                           *)
(*                                                                         *)
(* The count of notifications is not inductive.  Two things may yet add to *)
(* it: an execution that lost the lock and goes on (a stray), and the job, *)
(* in its owner's hands or in a later attempt's.  A delivery that a stray  *)
(* hands back as PENDING moves what the stray might have added over to the *)
(* job, so the sum of the three is what never grows without a reason.      *)
(***************************************************************************)
EXTENDS PushCampaign, FiniteSetTheorems, TLAPS

Running(w) == exec[w].pc # "idle"
Undisputed == used["blocked"] = 0

\* The interruptions so far.
Broken == used["crashes"] + used["blocked"] + used["lost"]

\* What follows what: nothing runs before the job, nor the job before the campaign; a
\* job that is not active has no owner.
Order ==
    /\ (campaign = "NONE" <=> request = "idle")
    /\ campaign = "NONE" => /\ job.state = "none" /\ Undisputed
                            /\ \A a \in App : accepted[a] = 0
    /\ campaign # "NONE" => App # {}
    /\ job.state = "none" => \A w \in Worker : ~Running(w)
    /\ job.state # "active" => job.owner = NoWorker

\* What an execution holds: the app in hand is no longer one of those to come, and
\* Firebase took what it holds an acknowledgement of.
Hands ==
    \A w \in Worker :
        /\ exec[w].pc \in {"sent", "refused"} => exec[w].app \notin exec[w].todo
        /\ exec[w].pc = "sent" => accepted[exec[w].app] > 0

SentIsAccepted == \A a \in App : delivery[a] = "SENT" => accepted[a] > 0

\* As long as no lock was lost: only the job's owner runs, ...
Alone ==
    Undisputed => \A w \in Worker : Running(w) => job.state = "active" /\ job.owner = w

\* ... what it has in hand or to come is pending and the campaign is being sent, and a
\* campaign is settled with the verdict of deliveries none of which is pending.
Book ==
    Undisputed =>
        /\ campaign = "QUEUED" => HasStatus("PENDING", delivery) # {}
        /\ campaign \in Verdicts => /\ HasStatus("PENDING", delivery) = {}
                                    /\ campaign = Verdict(delivery)
        /\ \A w \in Worker :
            /\ exec[w].pc \in {"mark", "loop", "sent", "refused", "invalidate"}
                   => exec[w].todo \subseteq HasStatus("PENDING", delivery)
            /\ exec[w].pc = "mark" => exec[w].todo # {}
            /\ exec[w].pc \in {"loop", "sent", "refused", "invalidate"} => campaign = "SENDING"
            /\ exec[w].pc \in {"sent", "refused"} => delivery[exec[w].app] = "PENDING"
            /\ exec[w].pc = "settle" => /\ HasStatus("PENDING", delivery) = {}
                                        /\ exec[w].result = Verdict(delivery)

\* Without an interruption, what Firebase took is written down or about to be.
Told ==
    Broken = 0 => \A a \in App : accepted[a] > 0 => delivery[a] = "SENT" \/ InHand(a)

\* The execution may still have app a take a notification, or give it back to be sent.
HasAhead(w, a) ==
    \/ a \in exec[w].todo /\ exec[w].pc \notin {"idle", "throw"}
    \/ exec[w].pc = "refused" /\ exec[w].result = "retryable" /\ exec[w].app = a

Strays(a) ==
    {w \in Worker : job.owner # w /\ (exec[w].pc = "load" \/ HasAhead(w, a))}

\* The job's owner, or a later attempt, may have app a take a notification.
Due(a) ==
    \/ \E w \in Worker : job.owner = w /\ HasAhead(w, a)
    \/ /\ delivery[a] = "PENDING"
       /\ ~\E w \in Worker : job.owner = w /\ At(w, "sent") /\ exec[w].app = a

Account(a) == accepted[a] + Cardinality(Strays(a)) + (IF Due(a) THEN 1 ELSE 0)

Accounted == \A a \in App : IsFiniteSet(Strays(a)) /\ Account(a) <= 1 + Broken

IInv == Order /\ Hands /\ SentIsAccepted /\ Alone /\ Book /\ Told /\ Accounted

-----------------------------------------------------------------------------
(* Types                                                                   *)

\* Every action but the uploads leaves the counters of the bounds as they were, or
\* raises one of them by one.
LEMMA SpendCounts ==
    ASSUME NEW b \in Bounds, used \in [Bounds -> Nat], Spend(b)
    PROVE  /\ used' \in [Bounds -> Nat]
           /\ used'[b] = used[b] + 1
           /\ \A c \in Bounds \ {b} : used'[c] = used[c]
BY DEF Spend

\* A verdict is one of the three.
LEMMA VerdictType == \A d : Verdict(d) \in Verdicts
BY DEF Verdict, Verdicts

\* The job stays a job whatever the queue does with it.
LEMMA JobType ==
    ASSUME job \in Job
    PROVE  /\ Added(job) \in Job
           /\ Stalled(job) \in Job
           /\ \A w \in Worker : /\ Taken(job, w) \in Job
                               /\ Resolved(job, w) \in Job
                               /\ Rejected(job, w) \in Job
<1> USE DEF Job
<1>1. Added(job) \in Job
  BY DEF NoJob, Added
<1>2. Stalled(job) \in Job
  <2> DEFINE state == IF job.stalls < StallLimit THEN "waiting" ELSE "failed"
             stalls == job.stalls + 1
  <2>1. state \in {"waiting", "failed"} /\ stalls \in Nat
    OBVIOUS
  <2>2. Stalled(job) = [job EXCEPT !.state = state, !.stalls = stalls, !.owner = NoWorker]
    BY DEF Stalled
  <2> HIDE DEF state, stalls
  <2> QED
    BY <2>1, <2>2
<1>3. ASSUME NEW w \in Worker
      PROVE  Taken(job, w) \in Job /\ Resolved(job, w) \in Job
  BY DEF Taken, Resolved
<1>4. ASSUME NEW w \in Worker
      PROVE  Rejected(job, w) \in Job
  <2> DEFINE state == IF job.made + 1 < Attempts THEN "waiting" ELSE "failed"
             made == job.made + 1
  <2>1. state \in {"waiting", "failed"} /\ made \in Nat
    OBVIOUS
  <2>2. Rejected(job, w) = IF job.owner # w THEN job
                           ELSE [job EXCEPT !.state = state, !.made = made, !.owner = NoWorker]
    BY DEF Rejected
  <2> HIDE DEF state, made
  <2> QED
    BY <2>1, <2>2
<1> QED
  BY <1>1, <1>2, <1>3, <1>4

\* A worker without an execution is idle.
LEMMA IdleType == Idle \in Exec
BY DEF Idle, Exec, Pc

\* An execution moves on: it keeps what it knows.
LEMMA GotoType ==
    ASSUME NEW w \in Worker, exec \in [Worker -> Exec], NEW pc \in Pc, Goto(w, pc),
           pc \notin {"idle", "load"} => exec[w].keys \in [App -> KeyStatus],
           pc \in {"sent", "refused", "invalidate"} => exec[w].app \in App,
           pc # "settle"
    PROVE  exec' \in [Worker -> Exec]
<1> DEFINE e == [exec[w] EXCEPT !.pc = pc]
<1>1. e \in Exec
  BY DEF Exec
<1>2. exec' = [exec EXCEPT ![w] = e]
  BY DEF Goto
<1> QED
  BY <1>1, <1>2

\* An execution gets its answer for an app.
LEMMA AnswerType ==
    ASSUME NEW w \in Worker, exec \in [Worker -> Exec], NEW a \in App, Sending(w, a),
           NEW pc \in {"sent", "refused", "throw"},
           NEW result \in {"none", "ok", "retryable", "other", "auth"},
           Answer(w, a, pc, result)
    PROVE  exec' \in [Worker -> Exec]
<1> DEFINE e == [exec[w] EXCEPT !.todo = @ \ {a}, !.app = a, !.pc = pc, !.result = result]
<1>1. e \in Exec
  BY DEF Exec, Sending, At, Pc
<1>2. exec' = [exec EXCEPT ![w] = e]
  BY DEF Answer
<1> QED
  BY <1>1, <1>2

\* Init and every step keep the types.
LEMMA InitTypeOK == Init => TypeOK
BY IdleType DEF Init, TypeOK, NoJob, Job, KeyStatus, DeliveryStatus, Bounds

\* Every step keeps the types.
LEMMA NextTypeOK ==
    ASSUME TypeOK, [Next]_vars
    PROVE  TypeOK'
<1> USE DEF TypeOK
<1>1. CASE Compose
  BY <1>1 DEF Compose, DeliveryStatus
<1>2. CASE Enqueue
  BY <1>2, JobType DEF Enqueue
<1>3. CASE EnqueueFails
  BY <1>3, SpendCounts DEF EnqueueFails, Bounds
<1>4. ASSUME NEW a \in App, SaveCredential(a)
      PROVE  TypeOK'
  BY <1>4, SpendCounts DEF SaveCredential, Bounds, KeyStatus
<1>5. ASSUME NEW a \in App, RemoveCredential(a)
      PROVE  TypeOK'
  BY <1>5, SpendCounts DEF RemoveCredential, Bounds, KeyStatus
<1>6. ASSUME NEW w \in Worker, Take(w)
      PROVE  TypeOK'
  <2>1. [Idle EXCEPT !.pc = "load"] \in Exec
    BY DEF Idle, Exec, Pc
  <2> QED BY <1>6, <2>1, JobType DEF Take
<1>7. ASSUME NEW w \in Worker, Crash(w)
      PROVE  TypeOK'
  BY <1>7, IdleType, SpendCounts DEF Crash, Bounds
<1>8. CASE Reclaim
  BY <1>8, JobType DEF Reclaim
<1>9. CASE LoseLock
  BY <1>9, JobType, SpendCounts DEF LoseLock, Bounds
<1>10. ASSUME NEW w \in Worker, Load(w)
       PROVE  TypeOK'
  <2> DEFINE todo == {a \in App : ToSend(delivery[a])}
             pc == IF todo = {} THEN "tally" ELSE "mark"
             e == [exec[w] EXCEPT !.todo = todo, !.keys = credential, !.pc = pc]
  <2>1. e \in Exec
    <3>1. todo \in SUBSET App /\ pc \in {"tally", "mark"} /\ exec[w] \in Exec
      OBVIOUS
    <3> HIDE DEF todo, pc
    <3> QED
      BY <3>1 DEF Exec, Pc
  <2>2. exec' = [exec EXCEPT ![w] = e]
    BY <1>10 DEF Load
  <2> HIDE DEF e
  <2> QED
    BY <1>10, <2>1, <2>2 DEF Load
<1>11. ASSUME NEW w \in Worker, Mark(w) \/ LoopDone(w)
       PROVE  TypeOK'
  <2>1. exec' \in [Worker -> Exec]
    BY <1>11, GotoType DEF Mark, LoopDone, At, Exec, Pc
  <2> QED
    BY <1>11, <2>1 DEF Mark, LoopDone
<1>12. ASSUME NEW w \in Worker, RecordSent(w)
       PROVE  TypeOK'
  <2>1. exec' \in [Worker -> Exec]
    BY <1>12, GotoType DEF RecordSent, At, Exec, Pc
  <2> QED
    BY <1>12, <2>1 DEF RecordSent, DeliveryStatus
<1>13. ASSUME NEW w \in Worker, RecordRefused(w)
       PROVE  TypeOK'
  <2>1. After(exec[w].result) \in {"invalidate", "throw", "loop"}
    BY DEF After
  <2>2. exec' \in [Worker -> Exec]
    BY <1>13, <2>1, GotoType DEF RecordRefused, At, Exec, Pc
  <2> QED
    BY <1>13, <2>2 DEF RecordRefused, RefusedStatus, DeliveryStatus
<1>14. ASSUME NEW w \in Worker, Invalidate(w)
       PROVE  TypeOK'
  <2>1. exec' \in [Worker -> Exec]
    BY <1>14, GotoType DEF Invalidate, At, Exec, Pc
  <2> QED
    BY <1>14, <2>1 DEF Invalidate, KeyStatus
<1>15. ASSUME NEW w \in Worker, Tally(w)
       PROVE  TypeOK'
  <2> DEFINE e == IF HasStatus("PENDING", delivery) # {}
                  THEN [exec[w] EXCEPT !.pc = "return"]
                  ELSE [exec[w] EXCEPT !.pc = "settle", !.result = Verdict(delivery)]
  <2>1. e \in Exec
    BY <1>15, VerdictType DEF Tally, At, Exec, Pc
  <2>2. exec' = [exec EXCEPT ![w] = e]
    BY <1>15 DEF Tally
  <2> QED
    BY <1>15, <2>1, <2>2 DEF Tally
<1>16. ASSUME NEW w \in Worker, Settle(w)
       PROVE  TypeOK'
  <2>1. exec' \in [Worker -> Exec]
    BY <1>16, GotoType DEF Settle, At, Exec, Pc
  <2> QED
    BY <1>16, <2>1 DEF Settle, At, Exec
<1>17. ASSUME NEW w \in Worker, Throw(w) \/ Return(w)
       PROVE  TypeOK'
  BY <1>17, JobType, IdleType DEF Throw, Return
<1>18. ASSUME NEW w \in Worker, NEW a \in App, Skip(w, a) \/ Undecryptable(w, a)
       PROVE  TypeOK'
  <2> DEFINE e == [exec[w] EXCEPT !.todo = @ \ {a}]
  <2>1. e \in Exec
    BY DEF Exec
  <2>2. exec' = [exec EXCEPT ![w] = e]
    BY <1>18 DEF Skip, Undecryptable
  <2> QED
    BY <1>18, <2>1, <2>2, SpendCounts DEF Skip, Undecryptable, DeliveryStatus, Bounds
<1>19. ASSUME NEW w \in Worker, NEW a \in App,
              Accept(w, a) \/ LostResponse(w, a) \/ Refuse(w, a) \/ Unreachable(w, a)
       PROVE  TypeOK'
  <2>1. exec' \in [Worker -> Exec]
    BY <1>19, AnswerType DEF Accept, LostResponse, Refuse, Unreachable
  <2> QED
    BY <1>19, <2>1, SpendCounts DEF Accept, LostResponse, Refuse, Unreachable, Bounds
<1>20. CASE UNCHANGED vars
  BY <1>20 DEF vars
<1> QED
  BY <1>1, <1>2, <1>3, <1>4, <1>5, <1>6, <1>7, <1>8, <1>9, <1>10, <1>11, <1>12, <1>13, <1>14,
     <1>15, <1>16, <1>17, <1>18, <1>19, <1>20 DEF Next, Progress, Trouble

\* The types hold in every state, for every set of apps and workers and every bound.
THEOREM TypeCorrect == Spec => []TypeOK
BY InitTypeOK, NextTypeOK, PTL DEF Spec

-----------------------------------------------------------------------------
(* The inductive invariant, part by part                                   *)

\* What any step of a running execution does: it is one execution's step, the campaign is
\* not created or taken back by it, and the job is left or reported to.
LEMMA HandlerStep ==
    ASSUME TypeOK, NEW w \in Worker, Progress(w) \/ Trouble(w)
    PROVE  /\ request' = request
           /\ Running(w)
           /\ exec' \in [Worker -> Exec]
           /\ \A u \in Worker \ {w} : exec'[u] = exec[u]
           /\ campaign' \in {campaign, "SENDING"} \union Verdicts
           /\ job' = job \/ (exec'[w] = Idle /\ job' \in {Rejected(job, w), Resolved(job, w)})
           /\ used'["blocked"] = used["blocked"] /\ used'["crashes"] = used["crashes"]
           /\ used'["lost"] >= used["lost"]
<1>1. exec' \in [Worker -> Exec]
  BY NextTypeOK DEF Next, TypeOK
<1>2. Running(w) /\ request' = request
  BY DEF Progress, Trouble, Running, At, Sending, Load, Mark, LoopDone, RecordSent, RecordRefused,
     Invalidate, Tally, Settle, Throw, Return, Skip, Accept, Undecryptable, Refuse, Unreachable,
     LostResponse
<1>3. \A u \in Worker \ {w} : exec'[u] = exec[u]
  BY DEF TypeOK, Progress, Trouble, Goto, Answer, Load, Mark, LoopDone, RecordSent, RecordRefused,
     Invalidate, Tally, Settle, Throw, Return, Skip, Accept, Undecryptable, Refuse, Unreachable,
     LostResponse
<1>4. campaign' \in {campaign, "SENDING"} \union Verdicts
  <2>1. CASE Settle(w)
    BY <2>1 DEF TypeOK, Exec, At, Settle
  <2>2. CASE ~Settle(w)
    BY <2>2 DEF Progress, Trouble, Load, Mark, LoopDone, RecordSent, RecordRefused, Invalidate,
       Tally, Throw, Return, Skip, Accept, Undecryptable, Refuse, Unreachable, LostResponse
  <2> QED
    BY <2>1, <2>2
<1>5. job' = job \/ (exec'[w] = Idle /\ job' \in {Rejected(job, w), Resolved(job, w)})
  <2>1. CASE Throw(w) \/ Return(w)
    BY <2>1 DEF TypeOK, Throw, Return
  <2>2. CASE ~(Throw(w) \/ Return(w))
    <3>1. job' = job
      BY <2>2 DEF Progress, Trouble, Load, Mark, LoopDone, RecordSent, RecordRefused, Invalidate,
       Tally, Settle, Skip, Accept, Undecryptable, Refuse, Unreachable, LostResponse
    <3> QED
      BY <3>1
  <2> QED
    BY <2>1, <2>2
<1>6. /\ used'["blocked"] = used["blocked"] /\ used'["crashes"] = used["crashes"]
      /\ used'["lost"] >= used["lost"]
  <2>1. CASE Progress(w)
    <3>1. used' = used
      BY <2>1 DEF Progress, Load, Mark, LoopDone, RecordSent, RecordRefused, Invalidate, Tally,
         Settle, Throw, Return, Skip, Accept
    <3> QED
      BY <3>1 DEF TypeOK, Bounds
  <2>2. CASE Trouble(w)
    BY <2>2, SpendCounts DEF TypeOK, Bounds, Trouble, Undecryptable, Refuse, Unreachable,
       LostResponse
  <2> QED
    BY <2>1, <2>2
<1> QED
  BY <1>1, <1>2, <1>3, <1>4, <1>5, <1>6

\* Every step keeps campaign, request, job and executions in their order.
LEMMA NextOrder ==
    ASSUME TypeOK, Order, [Next]_vars
    PROVE  Order'
<1> USE DEF TypeOK, Order, Running, Undisputed
<1>1. CASE Compose
  BY <1>1 DEF Compose
<1>2. CASE Enqueue \/ EnqueueFails
  BY <1>2, SpendCounts DEF Enqueue, EnqueueFails, Bounds, Added, NoJob
<1>3. CASE \E a \in App : SaveCredential(a) \/ RemoveCredential(a)
  BY <1>3, SpendCounts DEF SaveCredential, RemoveCredential, Bounds
<1>4. CASE Reclaim \/ LoseLock
  BY <1>4 DEF Reclaim, LoseLock, Orphaned, Stalled, Job
<1>5. ASSUME NEW w \in Worker, Take(w)
      PROVE  Order'
  BY <1>5, BullAssumption DEF Take, Taken, Job
<1>6. ASSUME NEW w \in Worker, Crash(w)
      PROVE  Order'
  BY <1>6 DEF Crash
<1>7. ASSUME NEW w \in Worker, Progress(w) \/ Trouble(w)
      PROVE  Order'
  <2>1. job.state # "none" /\ campaign # "NONE" /\ campaign' # "NONE"
    BY <1>7, HandlerStep DEF Verdicts
  <2>2. job'.state # "none" /\ (job'.state # "active" => job'.owner = NoWorker)
    BY <1>7, <2>1, HandlerStep DEF Rejected, Resolved, Job
  <2> QED
    BY <1>7, <2>1, <2>2, HandlerStep
<1>8. CASE UNCHANGED vars
  BY <1>8 DEF vars
<1> QED
  BY <1>1, <1>2, <1>3, <1>4, <1>5, <1>6, <1>7, <1>8 DEF Next

\* An execution that moves on is at its next step and holds what it held.
LEMMA GotoFields ==
    ASSUME NEW w \in Worker, exec \in [Worker -> Exec], NEW pc, Goto(w, pc)
    PROVE  /\ exec'[w].pc = pc
           /\ exec'[w].todo = exec[w].todo
           /\ exec'[w].app = exec[w].app
           /\ exec'[w].result = exec[w].result
           /\ \A u \in Worker \ {w} : exec'[u] = exec[u]
<1> DEFINE e == [exec[w] EXCEPT !.pc = pc]
<1>1. exec'[w] = e /\ \A u \in Worker \ {w} : exec'[u] = exec[u]
  BY DEF Goto
<1>2. /\ e.pc = pc /\ e.todo = exec[w].todo /\ e.app = exec[w].app
      /\ e.result = exec[w].result
  BY DEF Exec
<1> HIDE DEF e
<1> QED
  BY <1>1, <1>2

\* An execution that gets its answer has the app in hand, with it.
LEMMA AnswerFields ==
    ASSUME NEW w \in Worker, exec \in [Worker -> Exec], NEW a, NEW pc, NEW result,
           Answer(w, a, pc, result)
    PROVE  /\ exec'[w].pc = pc
           /\ exec'[w].todo = exec[w].todo \ {a}
           /\ exec'[w].app = a
           /\ exec'[w].result = result
           /\ \A u \in Worker \ {w} : exec'[u] = exec[u]
<1> DEFINE e == [exec[w] EXCEPT !.todo = @ \ {a}, !.app = a, !.pc = pc, !.result = result]
<1>1. exec'[w] = e /\ \A u \in Worker \ {w} : exec'[u] = exec[u]
  BY DEF Answer
<1>2. e.pc = pc /\ e.todo = exec[w].todo \ {a} /\ e.app = a /\ e.result = result
  BY DEF Exec
<1> HIDE DEF e
<1> QED
  BY <1>1, <1>2

\* An execution that passes an app over does not come back to it.
LEMMA PassedFields ==
    ASSUME NEW w \in Worker, exec \in [Worker -> Exec], NEW a,
           Skip(w, a) \/ Undecryptable(w, a)
    PROVE  /\ exec'[w].pc = "loop"
           /\ exec'[w].todo = exec[w].todo \ {a}
           /\ \A u \in Worker \ {w} : exec'[u] = exec[u]
<1> DEFINE e == [exec[w] EXCEPT !.todo = @ \ {a}]
<1>1. exec'[w] = e /\ \A u \in Worker \ {w} : exec'[u] = exec[u]
  BY DEF Skip, Undecryptable
<1>2. e.pc = exec[w].pc /\ e.todo = exec[w].todo \ {a} /\ exec[w].pc = "loop"
  BY DEF Exec, Skip, Undecryptable, At
<1> HIDE DEF e
<1> QED
  BY <1>1, <1>2

\* An execution that has loaded holds the pending deliveries.
LEMMA LoadFields ==
    ASSUME NEW w \in Worker, exec \in [Worker -> Exec], Load(w)
    PROVE  /\ exec'[w].todo = HasStatus("PENDING", delivery)
           /\ exec'[w].pc = IF exec'[w].todo = {} THEN "tally" ELSE "mark"
           /\ \A u \in Worker \ {w} : exec'[u] = exec[u]
<1> DEFINE todo == {a \in App : ToSend(delivery[a])}
           pc == IF todo = {} THEN "tally" ELSE "mark"
           e == [exec[w] EXCEPT !.todo = todo, !.keys = credential, !.pc = pc]
<1>1. exec'[w] = e /\ \A u \in Worker \ {w} : exec'[u] = exec[u]
  BY DEF Load
<1>2. e.pc = pc /\ e.todo = todo
  <2> HIDE DEF pc, todo
  <2> QED
    BY DEF Exec
<1>3. todo = HasStatus("PENDING", delivery)
  BY DEF ToSend, HasStatus
<1> HIDE DEF e
<1> QED
  BY <1>1, <1>2, <1>3

\* finalize settles with the verdict of deliveries none of which is pending, or returns.
LEMMA TallyFields ==
    ASSUME NEW w \in Worker, exec \in [Worker -> Exec], Tally(w)
    PROVE  /\ exec'[w].todo = exec[w].todo
           /\ \/ exec'[w].pc = "return"
              \/ /\ exec'[w].pc = "settle" /\ HasStatus("PENDING", delivery) = {}
                 /\ exec'[w].result = Verdict(delivery)
           /\ \A u \in Worker \ {w} : exec'[u] = exec[u]
<1>1. CASE HasStatus("PENDING", delivery) # {}
  <2>1. Goto(w, "return")
    BY <1>1 DEF Tally, Goto
  <2> QED
    BY <2>1, GotoFields
<1>2. CASE HasStatus("PENDING", delivery) = {}
  <2> DEFINE e == [exec[w] EXCEPT !.pc = "settle", !.result = Verdict(delivery)]
  <2>1. exec'[w] = e /\ \A u \in Worker \ {w} : exec'[u] = exec[u]
    BY <1>2 DEF Tally
  <2>2. e.pc = "settle" /\ e.todo = exec[w].todo /\ e.result = Verdict(delivery)
    BY DEF Exec
  <2> HIDE DEF e
  <2> QED
    BY <1>2, <2>1, <2>2
<1> QED
  BY <1>1, <1>2

\* Every step leaves the app in hand apart from those to come, and acknowledged only if accepted.
LEMMA NextHands ==
    ASSUME TypeOK, Order, Hands, [Next]_vars
    PROVE  Hands'
<1> USE DEF TypeOK, Hands
<1>1. CASE Compose \/ Enqueue \/ EnqueueFails \/ Reclaim \/ LoseLock
  BY <1>1 DEF Compose, Enqueue, EnqueueFails, Reclaim, LoseLock
<1>2. CASE \E a \in App : SaveCredential(a) \/ RemoveCredential(a)
  BY <1>2 DEF SaveCredential, RemoveCredential
<1>3. ASSUME NEW w \in Worker, Take(w) \/ Crash(w) \/ Throw(w) \/ Return(w)
      PROVE  Hands'
  BY <1>3 DEF Take, Crash, Throw, Return, Idle
<1>4. ASSUME NEW w \in Worker,
             \/ Load(w) \/ Mark(w) \/ LoopDone(w) \/ RecordSent(w) \/ RecordRefused(w)
             \/ Invalidate(w) \/ Tally(w) \/ Settle(w)
      PROVE  Hands'
  <2>1. accepted' = accepted /\ \A u \in Worker \ {w} : exec'[u] = exec[u]
    BY <1>4 DEF Load, Mark, LoopDone, RecordSent, RecordRefused, Invalidate, Tally, Settle, Goto
  <2>2. exec'[w].pc \notin {"sent", "refused"}
    <3>1. CASE Load(w) \/ Tally(w)
      BY <3>1, LoadFields, TallyFields
    <3>2. CASE ~(Load(w) \/ Tally(w))
      BY <1>4, <3>2, GotoFields
         DEF Mark, LoopDone, RecordSent, RecordRefused, Invalidate, Settle, After
    <3> QED
      BY <3>1, <3>2
  <2> QED
    BY <2>1, <2>2
<1>5. ASSUME NEW w \in Worker, NEW a \in App, Skip(w, a) \/ Undecryptable(w, a)
      PROVE  Hands'
  <2>1. accepted' = accepted
    BY <1>5 DEF Skip, Undecryptable
  <2> QED
    BY <1>5, <2>1, PassedFields
<1>6. ASSUME NEW w \in Worker, NEW a \in App,
             Accept(w, a) \/ LostResponse(w, a) \/ Refuse(w, a) \/ Unreachable(w, a)
      PROVE  Hands'
  <2>1. /\ \A u \in Worker \ {w} : exec'[u] = exec[u]
        /\ exec'[w].app = a /\ exec'[w].todo = exec[w].todo \ {a}
        /\ exec'[w].pc = "sent" => Accept(w, a)
    BY <1>6, AnswerFields DEF Accept, LostResponse, Refuse, Unreachable
  <2>2. \A b \in App : accepted'[b] >= accepted[b] /\ accepted'[b] \in Nat
    BY <1>6 DEF Accept, LostResponse, Refuse, Unreachable
  <2>3. Accept(w, a) => accepted'[a] > 0
    BY DEF Accept
  <2>4. \A u \in Worker : exec[u].pc \in {"sent", "refused"} => exec[u].app \in App
    BY DEF Exec
  <2> QED
    BY <2>1, <2>2, <2>3, <2>4
<1>7. CASE UNCHANGED vars
  BY <1>7 DEF vars
<1> QED
  BY <1>1, <1>2, <1>3, <1>4, <1>5, <1>6, <1>7 DEF Next, Progress, Trouble

\* Every step marks only what the gateway accepted.
LEMMA NextSentIsAccepted ==
    ASSUME TypeOK, Order, Hands, SentIsAccepted, [Next]_vars
    PROVE  SentIsAccepted'
<1> USE DEF TypeOK, SentIsAccepted
<1>1. \A a \in App : accepted[a] > 0 => accepted'[a] > 0
  <2>1. CASE \E w \in Worker, a \in App : Accept(w, a) \/ LostResponse(w, a)
    BY <2>1 DEF Accept, LostResponse
  <2>2. CASE ~\E w \in Worker, a \in App : Accept(w, a) \/ LostResponse(w, a)
    <3>1. accepted' = accepted
      BY <2>2 DEF Next, vars, Progress, Trouble, Compose, Enqueue, EnqueueFails, SaveCredential,
         RemoveCredential, Take, Crash, Reclaim, LoseLock, Load, Mark, LoopDone, RecordSent,
         RecordRefused, Invalidate, Tally, Settle, Throw, Return, Skip, Undecryptable, Refuse,
         Unreachable
    <3> QED
      BY <3>1
  <2> QED
    BY <2>1, <2>2
<1> DEFINE Written ==
      \A a \in App : delivery'[a] = "SENT" =>
          delivery[a] = "SENT" \/ \E w \in Worker : exec[w].pc = "sent" /\ exec[w].app = a
<1>2. Written
  <2>1. CASE Compose
    BY <2>1 DEF Compose
  <2>2. ASSUME NEW w \in Worker,
               RecordSent(w) \/ RecordRefused(w)
        PROVE  Written
    BY <2>2 DEF RecordSent, RecordRefused, RefusedStatus, At
  <2>3. ASSUME NEW w \in Worker, NEW a \in App, Skip(w, a) \/ Undecryptable(w, a)
        PROVE  Written
    BY <2>3 DEF Skip, Undecryptable
  <2>4. CASE delivery' = delivery
    BY <2>4
  <2> QED
    BY <2>1, <2>2, <2>3, <2>4 DEF Next, vars, Progress, Trouble, Enqueue, EnqueueFails,
       SaveCredential, RemoveCredential, Take, Crash, Reclaim, LoseLock, Load, Mark, LoopDone,
       Invalidate, Tally, Settle, Throw, Return, Accept, Refuse, Unreachable, LostResponse
<1> QED
  BY <1>1, <1>2 DEF Hands

\* Without a lost lock, every step leaves only the owner of the job running.
LEMMA NextAlone ==
    ASSUME TypeOK, Order, Alone, [Next]_vars
    PROVE  Alone'
<1> USE DEF TypeOK, Order, Alone, Running, Undisputed
<1>1. CASE Compose
  BY <1>1 DEF Compose
<1>2. CASE Enqueue \/ EnqueueFails
  BY <1>2, SpendCounts DEF Enqueue, EnqueueFails, Bounds, Added
<1>3. CASE \E a \in App : SaveCredential(a) \/ RemoveCredential(a)
  BY <1>3, SpendCounts DEF SaveCredential, RemoveCredential, Bounds
<1>4. CASE Reclaim
  BY <1>4, BullAssumption DEF Reclaim, Orphaned, Job
<1>5. CASE LoseLock
  BY <1>5, SpendCounts DEF LoseLock, Bounds
<1>6. ASSUME NEW w \in Worker, Take(w)
      PROVE  Alone'
  BY <1>6 DEF Take, Taken, Job
<1>7. ASSUME NEW w \in Worker, Crash(w)
      PROVE  Alone'
  BY <1>7, SpendCounts DEF Crash, Bounds, Idle
<1>8. ASSUME NEW w \in Worker, Progress(w) \/ Trouble(w)
      PROVE  Alone'
  <2>1. exec'[w] = Idle => exec'[w].pc = "idle"
    BY DEF Idle
  <2> QED
    BY <1>8, <2>1, HandlerStep
<1>9. CASE UNCHANGED vars
  BY <1>9 DEF vars
<1> QED
  BY <1>1, <1>2, <1>3, <1>4, <1>5, <1>6, <1>7, <1>8, <1>9 DEF Next

\* Whether an app's delivery is to be decided is known from what an execution holds.
LEMMA NextBook ==
    ASSUME TypeOK, Order, Hands, Alone, Book, [Next]_vars
    PROVE  Book'
<1> USE DEF TypeOK
<1> DEFINE Held(w) ==
      /\ exec[w].pc \in {"mark", "loop", "sent", "refused", "invalidate"}
             => exec[w].todo \subseteq HasStatus("PENDING", delivery)
      /\ exec[w].pc = "mark" => exec[w].todo # {}
      /\ exec[w].pc \in {"loop", "sent", "refused", "invalidate"} => campaign = "SENDING"
      /\ exec[w].pc \in {"sent", "refused"} => delivery[exec[w].app] = "PENDING"
      /\ exec[w].pc = "settle" => /\ HasStatus("PENDING", delivery) = {}
                                  /\ exec[w].result = Verdict(delivery)
    Settled ==
      /\ campaign = "QUEUED" => HasStatus("PENDING", delivery) # {}
      /\ campaign \in Verdicts => /\ HasStatus("PENDING", delivery) = {}
                                  /\ campaign = Verdict(delivery)
<1> SUFFICES ASSUME Undisputed'
             PROVE  Settled' /\ \A w \in Worker : Held(w)'
  BY DEF Book
<1>1. Undisputed
  <2>1. CASE \E w \in Worker : Progress(w) \/ Trouble(w)
    BY <2>1, HandlerStep DEF Undisputed
  <2>2. CASE ~\E w \in Worker : Progress(w) \/ Trouble(w)
    BY <2>2, SpendCounts DEF Undisputed, Next, vars, Bounds, Compose, Enqueue, EnqueueFails,
       SaveCredential, RemoveCredential, Take, Crash, Reclaim, LoseLock
  <2> QED
    BY <2>1, <2>2
<1>2. Settled /\ \A w \in Worker : Held(w)
  BY <1>1 DEF Book
<1>3. \A u, w \in Worker : Running(u) /\ Running(w) => u = w
  BY <1>1 DEF Alone
<1>4. CASE Compose
  <2>1. \A w \in Worker : ~Running(w)
    BY <1>4 DEF Compose, Order
  <2>2. Settled'
    BY <1>4 DEF Compose, HasStatus, Verdicts
  <2> QED
    BY <1>4, <2>1, <2>2 DEF Compose, Running
<1>5. CASE UNCHANGED <<campaign, delivery, exec>>
  BY <1>2, <1>5 DEF HasStatus, Verdict
<1>6. ASSUME NEW w \in Worker, Take(w) \/ Crash(w) \/ Throw(w) \/ Return(w)
      PROVE  Settled' /\ \A u \in Worker : Held(u)'
  <2>1. UNCHANGED <<campaign, delivery>> /\ exec'[w].pc \in {"idle", "load"}
        /\ \A u \in Worker \ {w} : exec'[u] = exec[u]
    BY <1>6 DEF Take, Crash, Throw, Return, Idle
  <2> QED
    BY <1>2, <2>1 DEF HasStatus, Verdict
<1>7. ASSUME NEW w \in Worker, Running(w)
      PROVE  \A u \in Worker \ {w} : exec'[u] = exec[u] => Held(u)'
  BY <1>3, <1>7 DEF Running
<1>8. ASSUME NEW w \in Worker, Load(w) \/ LoopDone(w) \/ Invalidate(w) \/ Tally(w)
      PROVE  Settled' /\ \A u \in Worker : Held(u)'
  <2>1. UNCHANGED <<campaign, delivery>> /\ Running(w)
    BY <1>8 DEF Load, LoopDone, Invalidate, Tally, At, Running
  <2>2. \A u \in Worker \ {w} : exec'[u] = exec[u]
    BY <1>8, LoadFields, GotoFields, TallyFields DEF LoopDone, Invalidate
  <2>3. Held(w)'
    <3>1. CASE Load(w)
      BY <2>1, <3>1, LoadFields DEF HasStatus
    <3>2. CASE LoopDone(w)
      BY <3>2, GotoFields DEF LoopDone
    <3>3. CASE Invalidate(w)
      BY <1>2, <2>1, <3>3, GotoFields DEF Invalidate, At, HasStatus
    <3>4. CASE Tally(w)
      BY <2>1, <3>4, TallyFields DEF HasStatus, Verdict
    <3> QED
      BY <1>8, <3>1, <3>2, <3>3, <3>4
  <2> QED
    BY <1>2, <1>7, <2>1, <2>2, <2>3 DEF HasStatus, Verdict
<1>9. ASSUME NEW w \in Worker, Mark(w)
      PROVE  Settled' /\ \A u \in Worker : Held(u)'
  <2>1. /\ delivery' = delivery /\ campaign' = "SENDING" /\ Running(w)
        /\ exec[w].pc = "mark" /\ exec'[w].pc = "loop" /\ exec'[w].todo = exec[w].todo
        /\ \A u \in Worker \ {w} : exec'[u] = exec[u]
    BY <1>9, GotoFields DEF Mark, At, Running
  <2>2. Held(w)' /\ Settled'
    BY <1>2, <2>1 DEF HasStatus, Verdicts
  <2> QED
    BY <1>7, <2>1, <2>2
<1>10. ASSUME NEW w \in Worker, NEW a \in App, NEW s \in DeliveryStatus,
              delivery' = [delivery EXCEPT ![a] = s], campaign' = campaign,
              exec[w].pc \in {"loop", "sent", "refused"},
              exec'[w].pc \in {"loop", "invalidate", "throw"},
              exec'[w].todo = exec[w].todo \ {a},
              \A u \in Worker \ {w} : exec'[u] = exec[u]
       PROVE  Settled' /\ \A u \in Worker : Held(u)'
  <2>1. campaign' = "SENDING" /\ Running(w)
    BY <1>2, <1>10 DEF Running
  <2>2. exec'[w].todo \subseteq HasStatus("PENDING", delivery)'
    BY <1>2, <1>10 DEF HasStatus
  <2>3. Held(w)' /\ Settled'
    BY <1>10, <2>1, <2>2 DEF Verdicts
  <2> QED
    BY <1>7, <1>10, <2>1, <2>3
<1>11. ASSUME NEW w \in Worker, RecordSent(w) \/ RecordRefused(w)
       PROVE  Settled' /\ \A u \in Worker : Held(u)'
  <2> DEFINE a == exec[w].app
             s == IF RecordSent(w) THEN "SENT" ELSE RefusedStatus(exec[w].result)
  <2>1. a \in App /\ a \notin exec[w].todo
    BY <1>11 DEF Hands, RecordSent, RecordRefused, At, Exec
  <2>2. /\ delivery' = [delivery EXCEPT ![a] = s] /\ s \in DeliveryStatus
        /\ campaign' = campaign /\ exec[w].pc \in {"sent", "refused"}
    BY <1>11 DEF RecordSent, RecordRefused, At, RefusedStatus, DeliveryStatus
  <2>3. /\ exec'[w].pc \in {"loop", "invalidate", "throw"} /\ exec'[w].todo = exec[w].todo
        /\ \A u \in Worker \ {w} : exec'[u] = exec[u]
    BY <1>11, GotoFields DEF RecordSent, RecordRefused, After
  <2> HIDE DEF s
  <2> QED
    BY <1>10, <2>1, <2>2, <2>3
<1>12. ASSUME NEW w \in Worker, NEW a \in App, Skip(w, a) \/ Undecryptable(w, a)
       PROVE  Settled' /\ \A u \in Worker : Held(u)'
  <2> DEFINE s == IF Skip(w, a) THEN "SKIPPED" ELSE "FAILED"
  <2>1. /\ delivery' = [delivery EXCEPT ![a] = s] /\ s \in DeliveryStatus
        /\ campaign' = campaign /\ exec[w].pc = "loop"
    BY <1>12 DEF Skip, Undecryptable, At, DeliveryStatus
  <2> HIDE DEF s
  <2> QED
    BY <1>10, <1>12, <2>1, PassedFields
<1>13. ASSUME NEW w \in Worker, NEW a \in App,
              Accept(w, a) \/ LostResponse(w, a) \/ Refuse(w, a) \/ Unreachable(w, a)
       PROVE  Settled' /\ \A u \in Worker : Held(u)'
  <2>1. /\ UNCHANGED <<campaign, delivery>> /\ exec[w].pc = "loop" /\ a \in exec[w].todo
        /\ exec'[w].pc \in {"sent", "refused", "throw"}
        /\ exec'[w].todo = exec[w].todo \ {a} /\ exec'[w].app = a
        /\ \A u \in Worker \ {w} : exec'[u] = exec[u]
    BY <1>13, AnswerFields DEF Accept, LostResponse, Refuse, Unreachable, Sending, At
  <2>2. Held(w)' /\ Running(w)
    BY <1>2, <2>1 DEF HasStatus, Running
  <2> QED
    BY <1>2, <1>7, <2>1, <2>2 DEF HasStatus, Verdict
<1>14. ASSUME NEW w \in Worker, Settle(w)
       PROVE  Settled' /\ \A u \in Worker : Held(u)'
  <2>1. /\ delivery' = delivery /\ campaign' = exec[w].result /\ Running(w)
        /\ exec[w].pc = "settle" /\ exec'[w].pc = "return"
        /\ \A u \in Worker \ {w} : exec'[u] = exec[u]
    BY <1>14, GotoFields DEF Settle, At, Running
  <2>2. campaign' = Verdict(delivery) /\ HasStatus("PENDING", delivery) = {}
    BY <1>2, <2>1
  <2>3. Settled'
    BY <2>1, <2>2, VerdictType DEF HasStatus, Verdict, Verdicts
  <2> QED
    BY <1>7, <2>1, <2>3
<1> QED
  <2>1. CASE Enqueue \/ EnqueueFails \/ Reclaim \/ LoseLock \/ UNCHANGED vars
    BY <1>5, <2>1 DEF Enqueue, EnqueueFails, Reclaim, LoseLock, vars
  <2>2. CASE \E a \in App : SaveCredential(a) \/ RemoveCredential(a)
    BY <1>5, <2>2 DEF SaveCredential, RemoveCredential
  <2> QED
    BY <1>4, <1>6, <1>8, <1>9, <1>11, <1>12, <1>13, <1>14, <2>1, <2>2 DEF Next, Progress, Trouble

\* Interruptions are counted: a crash, a lost lock and a lost response one each.
LEMMA BrokenGrows ==
    ASSUME TypeOK, [Next]_vars
    PROVE  /\ Broken \in Nat /\ Broken' \in Nat /\ Broken' >= Broken
           /\ LoseLock => Broken' = Broken + 1
           /\ \A w \in Worker : Crash(w) => Broken' = Broken + 1
           /\ \A w \in Worker, a \in App : LostResponse(w, a) => Broken' = Broken + 1
<1> USE DEF TypeOK, Bounds, Broken
<1>1. ASSUME NEW b \in Bounds, Spend(b)
      PROVE  /\ Broken \in Nat /\ Broken' \in Nat /\ Broken' >= Broken
             /\ b \in {"crashes", "blocked", "lost"} => Broken' = Broken + 1
  BY <1>1, SpendCounts
<1>2. CASE used' = used
  BY <1>2 DEF LoseLock, Crash, LostResponse, Spend
<1>3. CASE \E b \in Bounds : Spend(b)
  BY <1>1, <1>3 DEF LoseLock, Crash, LostResponse
<1>4. used' = used \/ \E b \in Bounds : Spend(b)
  BY DEF Next, vars, Progress, Trouble, Compose, Enqueue, EnqueueFails, SaveCredential,
     RemoveCredential, Take, Crash, Reclaim, LoseLock, Load, Mark, LoopDone, RecordSent,
     RecordRefused, Invalidate, Tally, Settle, Throw, Return, Skip, Accept, Undecryptable,
     Refuse, Unreachable, LostResponse
<1> QED
  BY <1>2, <1>3, <1>4

\* Without an interruption, every step writes down what Firebase took, or is about to.
LEMMA NextTold ==
    ASSUME TypeOK, Order, Alone, Book, Told, [Next]_vars
    PROVE  Told'
<1> USE DEF TypeOK
<1> SUFFICES ASSUME Broken' = 0
             PROVE  \A a \in App : accepted'[a] > 0 => delivery'[a] = "SENT" \/ InHand(a)'
  BY DEF Told
<1>1. Broken = 0 /\ Undisputed
  BY BrokenGrows DEF Broken, Undisputed, Bounds
<1>2. \A a \in App : accepted[a] > 0 => delivery[a] = "SENT" \/ InHand(a)
  BY <1>1 DEF Told
<1>3. ASSUME NEW w \in Worker, exec[w].pc \in {"loop", "refused"},
             NEW a \in App, delivery[a] = "PENDING"
      PROVE  accepted[a] = 0
  BY <1>1, <1>2, <1>3 DEF Alone, Running, InHand, At
<1>4. ASSUME UNCHANGED <<delivery, accepted>>,
             \A u \in Worker : exec[u].pc = "sent" => exec'[u] = exec[u]
      PROVE  Told'
  BY <1>2, <1>4 DEF Told, InHand, At
<1>5. CASE Compose
  BY <1>5 DEF Compose, Order
<1>6. CASE Enqueue \/ EnqueueFails \/ Reclaim \/ LoseLock \/ UNCHANGED vars
  BY <1>4, <1>6 DEF Enqueue, EnqueueFails, Reclaim, LoseLock, vars, Told
<1>7. CASE \E a \in App : SaveCredential(a) \/ RemoveCredential(a)
  BY <1>4, <1>7 DEF SaveCredential, RemoveCredential, Told
<1>8. ASSUME NEW w \in Worker,
             \/ Take(w) \/ Load(w) \/ Mark(w) \/ LoopDone(w) \/ Invalidate(w) \/ Tally(w)
             \/ Settle(w) \/ Throw(w) \/ Return(w)
      PROVE  Told'
  <2>1. UNCHANGED <<delivery, accepted>> /\ exec[w].pc # "sent"
    BY <1>8 DEF Take, Load, Mark, LoopDone, Invalidate, Tally, Settle, Throw, Return, At
  <2>2. \A u \in Worker \ {w} : exec'[u] = exec[u]
    BY <1>8, LoadFields, GotoFields, TallyFields
       DEF Take, Mark, LoopDone, Invalidate, Settle, Throw, Return
  <2> QED
    BY <1>4, <2>1, <2>2
<1>9. ASSUME NEW w \in Worker, Crash(w)
      PROVE  FALSE
  BY <1>1, <1>9, BrokenGrows
<1>10. ASSUME NEW w \in Worker, RecordSent(w)
       PROVE  Told'
  <2>1. /\ accepted' = accepted /\ delivery' = [delivery EXCEPT ![exec[w].app] = "SENT"]
        /\ \A u \in Worker \ {w} : exec'[u] = exec[u]
    BY <1>10, GotoFields DEF RecordSent
  <2> QED
    BY <1>2, <2>1 DEF Told, InHand, At
<1>11. ASSUME NEW w \in Worker, exec[w].pc \in {"loop", "refused"},
              NEW a \in App, delivery[a] = "PENDING", NEW s,
              delivery' = [delivery EXCEPT ![a] = s], accepted' = accepted,
              \A u \in Worker \ {w} : exec'[u] = exec[u]
       PROVE  Told'
  BY <1>2, <1>3, <1>11 DEF Told, InHand, At
<1>12. ASSUME NEW w \in Worker, RecordRefused(w)
       PROVE  Told'
  <2>1. exec[w].app \in App /\ delivery[exec[w].app] = "PENDING" /\ exec[w].pc = "refused"
    BY <1>1, <1>12 DEF Book, RecordRefused, At, Exec
  <2> QED
    BY <1>11, <1>12, <2>1, GotoFields DEF RecordRefused
<1>13. ASSUME NEW w \in Worker, NEW a \in App, Skip(w, a) \/ Undecryptable(w, a)
       PROVE  Told'
  <2>1. delivery[a] = "PENDING" /\ exec[w].pc = "loop"
    BY <1>1, <1>13 DEF Book, Skip, Undecryptable, At, HasStatus
  <2> QED
    BY <1>11, <1>13, <2>1, PassedFields DEF Skip, Undecryptable
<1>14. ASSUME NEW w \in Worker, NEW a \in App, Accept(w, a)
       PROVE  Told'
  <2>1. /\ accepted' = [accepted EXCEPT ![a] = @ + 1] /\ delivery' = delivery
        /\ exec'[w].pc = "sent" /\ exec'[w].app = a /\ exec[w].pc = "loop"
        /\ \A u \in Worker \ {w} : exec'[u] = exec[u]
    BY <1>14, AnswerFields DEF Accept, Sending, At
  <2> QED
    BY <1>2, <2>1 DEF Told, InHand, At
<1>15. ASSUME NEW w \in Worker, NEW a \in App, Refuse(w, a) \/ Unreachable(w, a)
       PROVE  Told'
  <2>1. /\ UNCHANGED <<delivery, accepted>> /\ exec[w].pc = "loop"
        /\ \A u \in Worker \ {w} : exec'[u] = exec[u]
    BY <1>15, AnswerFields DEF Refuse, Unreachable, Sending, At
  <2> QED
    BY <1>4, <2>1
<1>16. ASSUME NEW w \in Worker, NEW a \in App, LostResponse(w, a)
       PROVE  FALSE
  BY <1>1, <1>16, BrokenGrows
<1> QED
  BY <1>5, <1>6, <1>7, <1>8, <1>9, <1>10, <1>12, <1>13, <1>14, <1>15, <1>16
     DEF Next, Progress, Trouble, Told

-----------------------------------------------------------------------------
(* How often a notification can be taken                                   *)

\* A set that loses, keeps or gains one element, counted.
LEMMA CountStep ==
    ASSUME NEW S, IsFiniteSet(S), NEW T, NEW w
    PROVE  /\ Cardinality(S) \in Nat
           /\ T \subseteq S \union {w} => IsFiniteSet(T) /\ Cardinality(T) \in Nat
                                        /\ Cardinality(T) <= Cardinality(S) + 1
           /\ T \subseteq S => Cardinality(T) <= Cardinality(S)
           /\ w \in S /\ T \subseteq S \ {w} => Cardinality(T) <= Cardinality(S) - 1
<1>1. Cardinality(S) \in Nat
  BY FS_CardinalityType
<1>2. T \subseteq S \union {w} => IsFiniteSet(T) /\ Cardinality(T) \in Nat
                                /\ Cardinality(T) <= Cardinality(S) + 1
  <2>1. IsFiniteSet(S \union {w}) /\ Cardinality(S \union {w}) <= Cardinality(S) + 1
    BY <1>1, FS_AddElement
  <2>2. ASSUME T \subseteq S \union {w}
        PROVE  IsFiniteSet(T) /\ Cardinality(T) <= Cardinality(S \union {w})
    BY <2>1, <2>2, FS_Subset
  <2>3. ASSUME IsFiniteSet(T)
        PROVE  Cardinality(T) \in Nat
    BY <2>3, FS_CardinalityType
  <2>4. Cardinality(S \union {w}) \in Nat
    BY <2>1, FS_CardinalityType
  <2> QED
    BY <1>1, <2>1, <2>2, <2>3, <2>4
<1>3. T \subseteq S => Cardinality(T) <= Cardinality(S)
  BY FS_Subset
<1>4. w \in S /\ T \subseteq S \ {w} => Cardinality(T) <= Cardinality(S) - 1
  <2> SUFFICES ASSUME w \in S, T \subseteq S \ {w}
               PROVE  Cardinality(T) <= Cardinality(S) - 1
    OBVIOUS
  <2>1. IsFiniteSet(S \ {w}) /\ Cardinality(S \ {w}) = Cardinality(S) - 1
    BY FS_RemoveElement
  <2>2. Cardinality(T) <= Cardinality(S \ {w})
    BY <2>1, FS_Subset
  <2> QED
    BY <2>1, <2>2
<1> QED
  BY <1>1, <1>2, <1>3, <1>4

\* The ways the account of an app is kept: as it was, paid for by an interruption, or
\* moved from a stray or from the job to what was taken.
LEMMA AccountKept ==
    ASSUME TypeOK, Accounted, [Next]_vars, NEW b \in App, NEW w,
           accepted' \in [App -> Nat],
           \/ /\ Strays(b)' \subseteq Strays(b) /\ (Due(b)' => Due(b))
              /\ \/ accepted'[b] = accepted[b]
                 \/ accepted'[b] = accepted[b] + 1 /\ Broken' = Broken + 1
           \/ /\ Strays(b)' \subseteq Strays(b)
              /\ accepted'[b] = accepted[b] /\ Broken' = Broken + 1
           \/ /\ Strays(b)' \subseteq Strays(b) \union {w} /\ (Due(b)' => Due(b))
              /\ accepted'[b] = accepted[b] /\ Broken' = Broken + 1
           \/ /\ w \in Strays(b) /\ Strays(b)' \subseteq Strays(b) \ {w}
              /\ \/ accepted'[b] = accepted[b]
                 \/ accepted'[b] = accepted[b] + 1 /\ (Due(b)' => Due(b))
           \/ /\ Strays(b)' \subseteq Strays(b) /\ Due(b) /\ ~Due(b)'
              /\ accepted'[b] = accepted[b] + 1
    PROVE  IsFiniteSet(Strays(b))' /\ (Account(b) <= 1 + Broken)'
<1> DEFINE S == Strays(b)
           T == Strays(b)'
           due == IF Due(b) THEN 1 ELSE 0
           next == IF Due(b)' THEN 1 ELSE 0
<1>1. IsFiniteSet(S) /\ accepted[b] + Cardinality(S) + due <= 1 + Broken
  BY DEF Accounted, Account
<1>2. /\ Cardinality(S) \in Nat
      /\ T \subseteq S \union {w} => IsFiniteSet(T) /\ Cardinality(T) \in Nat
                                   /\ Cardinality(T) <= Cardinality(S) + 1
      /\ T \subseteq S => Cardinality(T) <= Cardinality(S)
      /\ w \in S /\ T \subseteq S \ {w} => Cardinality(T) <= Cardinality(S) - 1
  BY <1>1, CountStep
<1>3. /\ accepted[b] \in Nat /\ accepted'[b] \in Nat
      /\ Broken \in Nat /\ Broken' \in Nat /\ Broken' >= Broken
  BY BrokenGrows DEF TypeOK
<1>4. /\ due \in {0, 1} /\ next \in {0, 1} /\ (due = 1 <=> Due(b)) /\ (next = 1 <=> Due(b)')
  OBVIOUS
<1>5. IsFiniteSet(T)
  BY <1>2
<1> HIDE DEF S, T, due, next
<1>6. accepted'[b] + Cardinality(T) + next <= 1 + Broken'
  BY <1>1, <1>2, <1>3, <1>4 DEF S, T
<1> QED
  BY <1>5, <1>6 DEF T, next, Account

\* A step of an execution that leaves the job as it is cannot make an app due that was
\* not, nor the execution a stray that was none, unless it makes a delivery pending.
LEMMA QuietStep ==
    ASSUME NEW b \in App, NEW w \in Worker, job' = job,
           \A u \in Worker \ {w} : exec'[u] = exec[u],
           exec'[w].pc # "load",
           HasAhead(w, b)' => HasAhead(w, b) \/ (exec[w].pc = "load" /\ delivery[b] = "PENDING"),
           delivery'[b] = "PENDING" => /\ delivery[b] = "PENDING"
                                       /\ ~(exec[w].pc = "sent" /\ exec[w].app = b)
    PROVE  Strays(b)' \subseteq Strays(b) /\ (Due(b)' => Due(b))
<1>1. \A u \in Worker \ {w} : HasAhead(u, b)' <=> HasAhead(u, b)
  BY DEF HasAhead
<1>2. Strays(b)' \subseteq Strays(b)
  BY <1>1 DEF Strays
<1>3. Due(b)' => Due(b)
  <2>1. CASE \E u \in Worker : job.owner = u /\ HasAhead(u, b)'
    BY <1>1, <2>1 DEF Due, At
  <2>2. CASE /\ delivery'[b] = "PENDING"
             /\ ~\E u \in Worker : job.owner = u /\ exec'[u].pc = "sent" /\ exec'[u].app = b
    BY <2>2 DEF Due, At
  <2> QED
    BY <2>1, <2>2 DEF Due, At
<1> QED
  BY <1>2, <1>3

\* Every step keeps the account of who may still hear a campaign.
LEMMA NextAccounted ==
    ASSUME TypeOK, Order, Hands, Accounted, [Next]_vars
    PROVE  Accounted'
<1> USE DEF TypeOK
<1> DEFINE Kept(b) == IsFiniteSet(Strays(b)) /\ Account(b) <= 1 + Broken
<1> SUFFICES ASSUME NEW b \in App
             PROVE  Kept(b)'
  BY DEF Accounted
<1>1. accepted' \in [App -> Nat]
  BY NextTypeOK
<1>2. CASE Compose
  <2>1. accepted'[b] = 0 /\ Strays(b)' = {}
    BY <1>2 DEF Compose, Order, Running, Strays, HasAhead
  <2>2. IsFiniteSet({}) /\ Cardinality({}) = 0
    BY FS_EmptySet
  <2>3. Account(b)' \in {0, 1}
    BY <2>1, <2>2 DEF Account
  <2> QED
    BY <2>1, <2>2, <2>3, BrokenGrows
<1>3. ASSUME UNCHANGED <<delivery, job, exec, accepted>>
      PROVE  Kept(b)'
  <2>1. Strays(b)' = Strays(b) /\ (Due(b)' <=> Due(b))
    BY <1>3 DEF Strays, Due, HasAhead, At
  <2> QED
    BY <1>1, <1>3, <2>1, AccountKept
<1>4. CASE Enqueue
  <2>1. Strays(b)' \subseteq Strays(b) /\ (Due(b)' => Due(b))
    BY <1>4, BullAssumption DEF Enqueue, Added, NoJob, Order, Running, Strays, Due, HasAhead, At
  <2> QED
    BY <1>1, <1>4, <2>1, AccountKept DEF Enqueue
<1>5. ASSUME NEW w \in Worker, Take(w)
      PROVE  Kept(b)'
  <2>1. /\ accepted' = accepted /\ delivery' = delivery /\ job'.owner = w
        /\ job.owner = NoWorker /\ exec'[w].pc = "load" /\ exec'[w].todo = {}
        /\ \A u \in Worker \ {w} : exec'[u] = exec[u]
    BY <1>5 DEF Take, Taken, Job, Idle, Order
  <2>2. Strays(b)' \subseteq Strays(b) /\ (Due(b)' => Due(b))
    BY <2>1, BullAssumption DEF Strays, Due, HasAhead, At
  <2> QED
    BY <1>1, <2>1, <2>2, AccountKept
<1>6. CASE Reclaim
  <2>1. /\ accepted' = accepted /\ delivery' = delivery /\ exec' = exec
        /\ job'.owner = NoWorker /\ exec[job.owner].pc = "idle"
    BY <1>6 DEF Reclaim, Orphaned, Stalled, Job
  <2>2. Strays(b)' \subseteq Strays(b) /\ (Due(b)' => Due(b))
    BY <2>1, BullAssumption DEF Strays, Due, HasAhead, At
  <2> QED
    BY <1>1, <2>1, <2>2, AccountKept
<1>7. CASE LoseLock
  <2>1. /\ accepted' = accepted /\ delivery' = delivery /\ exec' = exec
        /\ job'.owner = NoWorker
    BY <1>7 DEF LoseLock, Stalled, Job
  <2> DEFINE w == job.owner
  <2>2. Strays(b)' \subseteq Strays(b) \union {w}
    BY <2>1, BullAssumption DEF Strays, HasAhead
  <2>3. CASE w \notin Strays(b)'
    BY <1>1, <1>7, <2>1, <2>2, <2>3, AccountKept, BrokenGrows
  <2>4. CASE w \in Strays(b)'
    <3>1. w \in Worker /\ (exec[w].pc = "load" \/ HasAhead(w, b))
      BY <2>1, <2>4 DEF Strays, HasAhead
    <3>2. Due(b)' => Due(b)
      BY <2>1, <3>1, BullAssumption DEF Due, At
    <3> QED
      BY <1>1, <1>7, <2>1, <2>2, <3>2, AccountKept, BrokenGrows
  <2> QED
    BY <2>3, <2>4
<1>8. ASSUME NEW w \in Worker, Crash(w)
      PROVE  Kept(b)'
  <2>1. /\ accepted' = accepted /\ job' = job /\ exec'[w].pc = "idle"
        /\ \A u \in Worker \ {w} : exec'[u] = exec[u]
    BY <1>8 DEF Crash, Idle
  <2>2. Strays(b)' \subseteq Strays(b)
    BY <2>1 DEF Strays, HasAhead
  <2> QED
    BY <1>1, <1>8, <2>1, <2>2, AccountKept, BrokenGrows
<1>9. ASSUME NEW w \in Worker, Throw(w) \/ Return(w)
      PROVE  Kept(b)'
  <2>1. /\ accepted' = accepted /\ delivery' = delivery /\ exec'[w].pc = "idle"
        /\ exec[w].pc \in {"throw", "return"}
        /\ job'.owner = IF job.owner = w THEN NoWorker ELSE job.owner
        /\ \A u \in Worker \ {w} : exec'[u] = exec[u]
    <3>1. job' \in {Rejected(job, w), Resolved(job, w)}
      BY <1>9 DEF Throw, Return
    <3>2. job'.owner = IF job.owner = w THEN NoWorker ELSE job.owner
      BY <3>1 DEF Rejected, Resolved, Job
    <3> QED
      BY <1>9, <3>2 DEF Throw, Return, Idle, At
  <2>2. Strays(b)' \subseteq Strays(b) /\ (Due(b)' => Due(b))
    BY <2>1, BullAssumption DEF Strays, Due, HasAhead, At
  <2> QED
    BY <1>1, <2>1, <2>2, AccountKept
<1>10. ASSUME NEW w \in Worker, job' = job, accepted'[b] = accepted[b],
              \A u \in Worker \ {w} : exec'[u] = exec[u],
              exec'[w].pc # "load",
              HasAhead(w, b)' => HasAhead(w, b) \/ (exec[w].pc = "load" /\ delivery[b] = "PENDING"),
              delivery'[b] = "PENDING" => /\ delivery[b] = "PENDING"
                                          /\ ~(exec[w].pc = "sent" /\ exec[w].app = b)
       PROVE  Kept(b)'
  BY <1>1, <1>10, QuietStep, AccountKept
<1>11. ASSUME NEW w \in Worker, Load(w)
       PROVE  Kept(b)'
  <2>1. /\ UNCHANGED <<accepted, delivery, job>> /\ exec[w].pc = "load"
        /\ exec'[w].pc \in {"tally", "mark"} /\ (b \in exec'[w].todo => delivery[b] = "PENDING")
        /\ \A u \in Worker \ {w} : exec'[u] = exec[u]
    <3>1. UNCHANGED <<accepted, delivery, job>> /\ exec[w].pc = "load"
      BY <1>11 DEF Load, At
    <3>2. exec'[w].todo = HasStatus("PENDING", delivery)
          /\ exec'[w].pc = (IF exec'[w].todo = {} THEN "tally" ELSE "mark")
          /\ \A u \in Worker \ {w} : exec'[u] = exec[u]
      BY <1>11, LoadFields
    <3> QED
      BY <3>1, <3>2 DEF HasStatus
  <2> QED
    BY <1>10, <2>1 DEF HasAhead
<1>12. ASSUME NEW w \in Worker,
              Mark(w) \/ LoopDone(w) \/ Invalidate(w) \/ Tally(w) \/ Settle(w)
       PROVE  Kept(b)'
  <2>1. /\ UNCHANGED <<accepted, delivery, job>>
        /\ exec[w].pc \in {"mark", "loop", "invalidate", "tally", "settle"}
    BY <1>12 DEF Mark, LoopDone, Invalidate, Tally, Settle, At
  <2>2. /\ exec'[w].pc \in {"loop", "tally", "settle", "return"} /\ exec'[w].todo = exec[w].todo
        /\ \A u \in Worker \ {w} : exec'[u] = exec[u]
    BY <1>12, GotoFields, TallyFields DEF Mark, LoopDone, Invalidate, Settle
  <2> QED
    BY <1>10, <2>1, <2>2 DEF HasAhead
<1>13. ASSUME NEW w \in Worker, RecordSent(w)
       PROVE  Kept(b)'
  <2>1. /\ UNCHANGED <<accepted, job>> /\ exec[w].pc = "sent"
        /\ delivery' = [delivery EXCEPT ![exec[w].app] = "SENT"]
        /\ exec'[w].pc = "loop" /\ exec'[w].todo = exec[w].todo
        /\ \A u \in Worker \ {w} : exec'[u] = exec[u]
    BY <1>13, GotoFields DEF RecordSent, At
  <2> QED
    BY <1>10, <2>1 DEF HasAhead
<1>14. ASSUME NEW w \in Worker, RecordRefused(w)
       PROVE  Kept(b)'
  <2> DEFINE a == exec[w].app
             result == exec[w].result
  <2>1. /\ UNCHANGED <<accepted, job>> /\ exec[w].pc = "refused" /\ a \notin exec[w].todo
        /\ delivery' = [delivery EXCEPT ![a] = RefusedStatus(result)]
        /\ exec'[w].pc = After(result) /\ exec'[w].todo = exec[w].todo
        /\ \A u \in Worker \ {w} : exec'[u] = exec[u]
    BY <1>14, GotoFields DEF RecordRefused, At, Hands
  <2>2. CASE a = b /\ result = "retryable"
    <3>1. ~HasAhead(w, b)' /\ HasAhead(w, b) /\ exec'[w].pc = "throw"
      BY <2>1, <2>2 DEF HasAhead, After
    <3>2. CASE job.owner = w
      <4>1. Due(b) /\ Strays(b)' \subseteq Strays(b)
        BY <2>1, <3>1, <3>2 DEF Due, Strays, HasAhead
      <4> QED
        BY <1>1, <2>1, <4>1, AccountKept
    <3>3. CASE job.owner # w
      <4>1. w \in Strays(b) /\ Strays(b)' \subseteq Strays(b) \ {w}
        BY <2>1, <3>1, <3>3 DEF Strays, HasAhead
      <4> QED
        BY <1>1, <2>1, <4>1, AccountKept
    <3> QED
      BY <3>2, <3>3
  <2>3. CASE ~(a = b /\ result = "retryable")
    <3>1. delivery'[b] = "PENDING" => delivery[b] = "PENDING"
      BY <2>1, <2>3 DEF RefusedStatus
    <3>2. exec'[w].pc \in {"invalidate", "throw", "loop"}
      BY <2>1 DEF After
    <3> QED
      BY <1>10, <2>1, <3>1, <3>2 DEF HasAhead
  <2> QED
    BY <2>2, <2>3
<1>15. ASSUME NEW w \in Worker, NEW a \in App, Skip(w, a) \/ Undecryptable(w, a)
       PROVE  Kept(b)'
  <2>1. /\ UNCHANGED <<accepted, job>> /\ exec[w].pc = "loop"
        /\ delivery'[b] = "PENDING" => delivery[b] = "PENDING"
    BY <1>15 DEF Skip, Undecryptable, At
  <2> QED
    BY <1>10, <1>15, <2>1, PassedFields DEF HasAhead
<1>16. ASSUME NEW w \in Worker, NEW a \in App,
              Accept(w, a) \/ LostResponse(w, a) \/ Refuse(w, a) \/ Unreachable(w, a)
       PROVE  Kept(b)'
  <2>1. /\ UNCHANGED <<delivery, job>> /\ exec[w].pc = "loop" /\ a \in exec[w].todo
        /\ exec'[w].pc \in {"sent", "refused", "throw"} /\ exec'[w].app = a
        /\ exec'[w].todo = exec[w].todo \ {a}
        /\ \A u \in Worker \ {w} : exec'[u] = exec[u]
    BY <1>16, AnswerFields DEF Accept, LostResponse, Refuse, Unreachable, Sending, At
  <2>2. /\ b # a => accepted'[b] = accepted[b]
        /\ Refuse(w, a) \/ Unreachable(w, a) => accepted' = accepted
        /\ Accept(w, a) \/ LostResponse(w, a) => accepted'[a] = accepted[a] + 1
    BY <1>16 DEF Accept, LostResponse, Refuse, Unreachable
  <2>3. HasAhead(w, a) /\ (HasAhead(w, b)' => HasAhead(w, b))
    BY <2>1 DEF HasAhead
  <2>4. CASE b # a \/ Refuse(w, a) \/ Unreachable(w, a)
    BY <1>10, <2>1, <2>2, <2>3, <2>4
  <2>5. CASE b = a /\ LostResponse(w, a)
    <3>1. Strays(b)' \subseteq Strays(b) /\ (Due(b)' => Due(b))
      BY <2>1, <2>3, QuietStep
    <3> QED
      BY <1>1, <2>2, <2>5, <3>1, AccountKept, BrokenGrows
  <2>6. CASE b = a /\ Accept(w, a)
    <3>1. ~HasAhead(w, b)' /\ exec'[w].pc = "sent"
      BY <2>1, <2>6, AnswerFields DEF HasAhead, Accept
    <3>2. Strays(b)' \subseteq Strays(b) /\ (Due(b)' => Due(b))
      BY <2>1, <2>3, QuietStep
    <3>3. CASE job.owner = w
      <4>1. Due(b) /\ ~Due(b)'
        BY <2>1, <2>3, <2>6, <3>1, <3>3 DEF Due, At
      <4> QED
        BY <1>1, <2>2, <2>6, <3>2, <4>1, AccountKept
    <3>4. CASE job.owner # w
      <4>1. w \in Strays(b) /\ Strays(b)' \subseteq Strays(b) \ {w}
        BY <2>1, <2>3, <2>6, <3>1, <3>2, <3>4 DEF Strays
      <4> QED
        BY <1>1, <2>2, <2>6, <3>2, <4>1, AccountKept
    <3> QED
      BY <3>3, <3>4
  <2> QED
    BY <1>16, <2>4, <2>5, <2>6
<1> QED
  <2>1. CASE EnqueueFails \/ UNCHANGED vars
    BY <1>3, <2>1 DEF EnqueueFails, vars
  <2>2. CASE \E a \in App : SaveCredential(a) \/ RemoveCredential(a)
    BY <1>3, <2>2 DEF SaveCredential, RemoveCredential
  <2> QED
    BY <1>2, <1>4, <1>5, <1>6, <1>7, <1>8, <1>9, <1>11, <1>12, <1>13, <1>14, <1>15, <1>16,
       <2>1, <2>2 DEF Next, Progress, Trouble

-----------------------------------------------------------------------------
(* The theorems                                                            *)

\* A campaign starts with the invariant.
LEMMA InitInv == Init => IInv
<1> SUFFICES ASSUME Init
             PROVE  IInv
  OBVIOUS
<1> USE DEF Init
<1>1. Order /\ Hands /\ SentIsAccepted /\ Alone /\ Told
  BY DEF Order, Hands, SentIsAccepted, Alone, Told, Running, Undisputed, Bounds, NoJob, Idle
<1>2. Book
  BY DEF Book, Idle, Verdicts
<1>3. Accounted
  <2> SUFFICES ASSUME NEW a \in App
               PROVE  IsFiniteSet(Strays(a)) /\ Account(a) <= 1 + Broken
    BY DEF Accounted
  <2>1. Strays(a) = {} /\ accepted[a] = 0 /\ Broken = 0
    BY DEF Strays, HasAhead, Idle, Broken, Bounds
  <2>2. IsFiniteSet({}) /\ Cardinality({}) = 0
    BY FS_EmptySet
  <2> QED
    BY <2>1, <2>2 DEF Account
<1> QED
  BY <1>1, <1>2, <1>3 DEF IInv

\* The parts of the invariant are kept together.
LEMMA NextInv ==
    ASSUME TypeOK, IInv, [Next]_vars
    PROVE  IInv'
BY NextOrder, NextHands, NextSentIsAccepted, NextAlone, NextBook, NextTold, NextAccounted DEF IInv

\* The types and the invariant hold in every state.
THEOREM Invariance == Spec => [](TypeOK /\ IInv)
BY InitTypeOK, InitInv, NextTypeOK, NextInv, PTL DEF Spec

\* The users of an app hear of the campaign once, or once more for each crash, lost lock
\* or lost response; its row says SENT only if Firebase took the notification, and as long
\* as nothing was interrupted it says so (or is about to) if Firebase did: whatever is
\* refused, retried, reordered between executions or decided on a stale load.
THEOREM HeardOnce == Spec => []OnceAndTruthful
<1>1. TypeOK /\ IInv => OnceAndTruthful
  <2> SUFFICES ASSUME TypeOK, IInv
               PROVE  OnceAndTruthful
    OBVIOUS
  <2>1. DuplicatesBounded
    <3> SUFFICES ASSUME NEW a \in App
                 PROVE  accepted[a] <= 1 + Broken
      BY DEF DuplicatesBounded, Broken, TypeOK, Bounds
    <3>1. IsFiniteSet(Strays(a)) /\ Account(a) <= 1 + Broken
      BY DEF IInv, Accounted
    <3>2. Cardinality(Strays(a)) \in Nat
      BY <3>1, FS_CardinalityType
    <3>3. Broken \in Nat /\ accepted[a] \in Nat
      BY DEF Broken, TypeOK, Bounds
    <3> QED
      BY <3>1, <3>2, <3>3 DEF Account
  <2>2. ASSUME NEW a \in App
        PROVE  /\ (delivery[a] = "SENT" \/ InHand(a)) => accepted[a] > 0
               /\ accepted[a] > 0 => delivery[a] = "SENT" \/ InHand(a) \/ Broken > 0
    <3>1. (delivery[a] = "SENT" \/ InHand(a)) => accepted[a] > 0
      BY DEF IInv, Hands, SentIsAccepted, InHand, At
    <3>2. Broken \in Nat
      BY DEF Broken, TypeOK, Bounds
    <3> QED
      BY <3>1, <3>2 DEF IInv, Told
  <2> QED
    BY <2>1, <2>2 DEF OnceAndTruthful, DeliveryTruthful, Broken
<1> QED
  BY <1>1, Invariance, PTL

-----------------------------------------------------------------------------
(* The ledger                                                              *)

\* A campaign starts where its ledger does.
LEMMA LedgerInit == Init => Ledger!Init
BY DEF Init, Ledger!Init, Bounds

\* Both ways of adding the deliveries up agree.
LEMMA VerdictIsSum ==
    ASSUME App # {}
    PROVE  Verdict(delivery) = Ledger!Sum(delivery)
BY DEF Verdict, Ledger!Sum, HasStatus

\* A step of the campaign is a step of the ledger, or none of its business.
LEMMA LedgerStep ==
    ASSUME TypeOK, IInv, [Next]_vars
    PROVE  [Ledger!Next]_(Ledger!vars)
<1> USE DEF TypeOK
<1> DEFINE disputed == used["blocked"] > 0
<1>1. used["blocked"] \in Nat /\ (~disputed <=> Undisputed)
  BY DEF Bounds, Undisputed
<1>2. ASSUME UNCHANGED <<campaign, delivery>>
      PROVE  [Ledger!Next]_(Ledger!vars)
  <2>1. disputed => disputed'
    BY SpendCounts, HandlerStep DEF Next, vars, Bounds, Compose, Enqueue, EnqueueFails,
       SaveCredential, RemoveCredential, Take, Crash, Reclaim, LoseLock
  <2>2. disputed' = disputed \/ disputed' = TRUE
    BY <2>1
  <2> QED
    BY <1>2, <2>2 DEF Ledger!Next, Ledger!vars, Ledger!Dispute
<1>3. CASE Compose
  <2> DEFINE unready == {a \in App : credential[a] # "ACTIVE"}
  <2>1. /\ campaign = "NONE" /\ campaign' = "QUEUED" /\ disputed' = disputed
        /\ unready \in SUBSET App /\ unready # App
        /\ delivery' = [a \in App |-> IF a \in unready THEN "SKIPPED" ELSE "PENDING"]
    BY <1>3 DEF Compose, IInv, Order
  <2> QED
    BY <2>1 DEF Ledger!Next, Ledger!Compose
<1>4. ASSUME NEW w \in Worker, Progress(w) \/ Trouble(w)
      PROVE  /\ disputed' = disputed /\ campaign # "NONE"
             /\ exec[w].pc \in {"loop", "sent", "refused"} /\ ~disputed => campaign = "SENDING"
  BY <1>1, <1>4, HandlerStep DEF IInv, Order, Book
<1>5. ASSUME NEW w \in Worker, Mark(w)
      PROVE  [Ledger!Next]_(Ledger!vars)
  <2>1. /\ campaign' = "SENDING" /\ delivery' = delivery
        /\ disputed' = disputed /\ campaign # "NONE"
    BY <1>4, <1>5 DEF Mark, Progress
  <2>2. CASE disputed
    BY <2>1, <2>2 DEF Ledger!Next, Ledger!Redo
  <2>3. CASE ~disputed
    <3>1. exec[w].todo # {} /\ exec[w].todo \subseteq HasStatus("PENDING", delivery)
      BY <1>1, <1>5, <2>3 DEF Mark, At, IInv, Book
    <3>2. campaign \in {"QUEUED", "SENDING"}
      BY <1>1, <2>1, <2>3, <3>1 DEF IInv, Book
    <3> QED
      BY <2>1, <3>2 DEF Ledger!Next, Ledger!Begin, Ledger!vars
  <2> QED
    BY <2>2, <2>3
<1>6. ASSUME NEW w \in Worker, Settle(w)
      PROVE  [Ledger!Next]_(Ledger!vars)
  <2>1. /\ campaign' = exec[w].result /\ campaign' \in Verdicts /\ delivery' = delivery
        /\ disputed' = disputed /\ campaign # "NONE"
    BY <1>4, <1>6 DEF Settle, Progress, At, Exec
  <2>2. CASE disputed
    BY <2>1, <2>2 DEF Ledger!Next, Ledger!Redo, Verdicts
  <2>3. CASE ~disputed
    <3>1. /\ HasStatus("PENDING", delivery) = {} /\ campaign' = Verdict(delivery)
          /\ campaign # "QUEUED" /\ (campaign \in Verdicts => campaign = Verdict(delivery))
      BY <1>1, <1>6, <2>1, <2>3 DEF Settle, At, IInv, Book
    <3>2. campaign' = Ledger!Sum(delivery) /\ \A a \in App : delivery[a] # "PENDING"
      BY <2>1, <3>1, VerdictIsSum DEF IInv, Order, HasStatus
    <3>3. campaign = "SENDING" \/ campaign' = campaign
      BY <2>1, <3>1
    <3> QED
      BY <2>1, <3>2, <3>3 DEF Ledger!Next, Ledger!Close, Ledger!vars
  <2> QED
    BY <2>2, <2>3
<1>7. ASSUME NEW a \in App, NEW s \in DeliveryStatus,
             delivery' = [delivery EXCEPT ![a] = s], campaign' = campaign,
             disputed' = disputed, campaign # "NONE",
             ~disputed => campaign = "SENDING" /\ delivery[a] = "PENDING"
      PROVE  [Ledger!Next]_(Ledger!vars)
  <2>1. CASE disputed
    BY <1>7, <2>1 DEF Ledger!Next, Ledger!Redo, DeliveryStatus
  <2>2. CASE ~disputed /\ s = "PENDING"
    BY <1>7, <2>2 DEF Ledger!vars
  <2>3. CASE ~disputed /\ s # "PENDING"
    BY <1>7, <2>3 DEF Ledger!Next, Ledger!Decide, DeliveryStatus
  <2> QED
    BY <2>1, <2>2, <2>3
<1>8. ASSUME NEW w \in Worker, RecordSent(w) \/ RecordRefused(w)
      PROVE  [Ledger!Next]_(Ledger!vars)
  <2> DEFINE a == exec[w].app
             s == IF RecordSent(w) THEN "SENT" ELSE RefusedStatus(exec[w].result)
  <2>1. /\ delivery' = [delivery EXCEPT ![a] = s] /\ s \in DeliveryStatus /\ a \in App
        /\ campaign' = campaign /\ exec[w].pc \in {"sent", "refused"}
    BY <1>8 DEF RecordSent, RecordRefused, At, RefusedStatus, DeliveryStatus, Exec
  <2>2. ~disputed => campaign = "SENDING" /\ delivery[a] = "PENDING"
    BY <1>1, <2>1 DEF IInv, Book
  <2>3. disputed' = disputed /\ campaign # "NONE"
    BY <1>4, <1>8 DEF Progress
  <2> HIDE DEF s, disputed
  <2> QED
    BY <1>7, <2>1, <2>2, <2>3
<1>9. ASSUME NEW w \in Worker, NEW a \in App, Skip(w, a) \/ Undecryptable(w, a)
      PROVE  [Ledger!Next]_(Ledger!vars)
  <2> DEFINE s == IF Skip(w, a) THEN "SKIPPED" ELSE "FAILED"
  <2>1. /\ delivery' = [delivery EXCEPT ![a] = s] /\ s \in DeliveryStatus
        /\ campaign' = campaign /\ exec[w].pc = "loop" /\ a \in exec[w].todo
    BY <1>9 DEF Skip, Undecryptable, At, DeliveryStatus
  <2>2. ~disputed => campaign = "SENDING" /\ delivery[a] = "PENDING"
    BY <1>1, <2>1 DEF IInv, Book, HasStatus
  <2>3. disputed' = disputed /\ campaign # "NONE"
    BY <1>4, <1>9 DEF Progress, Trouble
  <2> HIDE DEF s, disputed
  <2> QED
    BY <1>7, <2>1, <2>2, <2>3
<1> QED
  <2>1. CASE UNCHANGED <<campaign, delivery>>
    BY <1>2, <2>1
  <2>2. CASE ~UNCHANGED <<campaign, delivery>>
    <3>1. \/ Compose
          \/ \E w \in Worker : Mark(w) \/ Settle(w) \/ RecordSent(w) \/ RecordRefused(w)
          \/ \E w \in Worker, a \in App : Skip(w, a) \/ Undecryptable(w, a)
      BY <2>2 DEF Next, vars, Progress, Trouble, Enqueue, EnqueueFails, SaveCredential,
         RemoveCredential, Take, Crash, Reclaim, LoseLock, Load, LoopDone, Invalidate, Tally,
         Throw, Return, Accept, Refuse, Unreachable, LostResponse
    <3> QED
      BY <1>3, <1>5, <1>6, <1>8, <1>9, <3>1
  <2> QED
    BY <2>1, <2>2

\* Until an execution outlives its lock, every delivery is decided once and the campaign
\* is settled once, after the last of them, with the verdict they add up to: the send job
\* implements the ledger, whatever crashes, is retried or is refused.
THEOREM Implements == Spec => ImplementsLedger
BY Invariance, LedgerInit, LedgerStep, PTL DEF Spec, ImplementsLedger, Ledger!Spec
===============================================================================
