----------------------------- MODULE AlertEvents -----------------------------
(***************************************************************************)
(* One alert rule that keeps triggering.  evaluateAlerts                   *)
(* (src/server/jobs/handlers/insights.ts) opens an event unless one is     *)
(* open and queues its delivery; deliverAlert (src/server/notify/index.ts) *)
(* tries every channel and records the outcome, as a job or, for a test or *)
(* a redelivery, inside the request.  The worker's schedule and the cron   *)
(* routes may evaluate at the same time.                                   *)
(***************************************************************************)
EXTENDS Integers, FiniteSets, Sequences, Functions, BullJob

CONSTANTS
    Evaluator,     \* evaluations that can overlap: the worker's job, the cron routes
    Channel,       \* the channels of the rule
    Api,           \* the request that delivers inline
    MaxEvents,     \* bound: triggered evaluations and test events
    MaxChanges,    \* bound: status changes by a member
    MaxTroubles    \* bound: reopened events, redeliveries, faults, lost answers, cuts, crashes

VARIABLES
    event,   \* the rule's AlertEvent rows in creation order
    eval,    \* eval[v]: a triggered evaluation of the rule
    job,     \* job[e]: the alert.deliver job of event e
    exec,    \* exec[x]: an execution of deliverAlert
    sent,    \* ghost: sent[e][c], how often channel c took event e
    used

vars == <<event, eval, job, exec, sent, used>>

Statuses == {"TRIGGERED", "ACKNOWLEDGED", "RESOLVED"}
Open == {"TRIGGERED", "ACKNOWLEDGED"}
Event == [status : Statuses, test : BOOLEAN, delivered : BOOLEAN, attempts : Nat,
          seen : Nat]
Eval == [pc : {"idle", "check", "create", "enqueue"}, event : Nat, seen : Nat]
NoEval == [pc |-> "idle", event |-> 0, seen |-> 0]
Exec == [pc : {"idle", "send", "return", "throw"}, event : Nat,
         todo : SUBSET Channel, ok : SUBSET Channel]
Idle == [pc |-> "idle", event |-> 0, todo |-> {}, ok |-> {}]
Events == 1 .. MaxEvents
Trouble == {"reopens", "redeliveries", "faults", "lost", "cuts", "crashes"}
Bounds == Trouble \union {"events", "changes"}
Spend(b) ==
    /\ CASE b = "events" -> used[b] < MaxEvents
         [] b = "changes" -> used[b] < MaxChanges
         [] OTHER -> SumFunctionOnSet(used, Trouble) < MaxTroubles
    /\ used' = [used EXCEPT ![b] = @ + 1]

Init ==
    /\ event = <<>>
    /\ eval = [v \in Evaluator |-> NoEval]
    /\ job = [e \in Events |-> NoJob]
    /\ exec = [x \in Worker \union {Api} |-> Idle]
    /\ sent = [e \in Events |-> [c \in Channel |-> 0]]
    /\ used = [b \in Bounds |-> 0]

-----------------------------------------------------------------------------
(* evaluateAlerts, once the rule has triggered                             *)

\* mutant: an acknowledged event no longer counts as open
BlockingTriggered == {"TRIGGERED"}

\* The statuses of an event that keeps the rule from firing again.
Blocking == Open

Trigger(v) ==
    /\ eval[v].pc = "idle"
    /\ Spend("events")
    /\ eval' = [eval EXCEPT ![v].pc = "check"]
    /\ UNCHANGED <<event, job, exec, sent>>

Check(v) ==
    /\ eval[v].pc = "check"
    /\ eval' = [eval EXCEPT ![v] =
                  IF \E e \in DOMAIN event : event[e].status \in Blocking
                  THEN NoEval ELSE [@ EXCEPT !.pc = "create", !.seen = Len(event)]]
    /\ UNCHANGED <<event, job, exec, sent, used>>

\* `seen` is a ghost: how many events there were when the evaluation looked.
Row(status, test, seen) ==
    [status |-> status, test |-> test, delivered |-> FALSE, attempts |-> 0, seen |-> seen]

Create(v) ==
    /\ eval[v].pc = "create"
    /\ event' = Append(event, Row("TRIGGERED", FALSE, eval[v].seen))
    /\ eval' = [eval EXCEPT ![v] = [pc |-> "enqueue", event |-> Len(event) + 1, seen |-> 0]]
    /\ UNCHANGED <<job, exec, sent, used>>

\* mutant: the job is keyed by the rule
JobKeyRule(e) == 1

\* jobKey: `alert.deliver-${eventId}`.
JobKey(e) == e

Enqueue(v) ==
    LET e == JobKey(eval[v].event) IN
    /\ eval[v].pc = "enqueue"
    /\ job' = [job EXCEPT ![e] = Added(@)]
    /\ eval' = [eval EXCEPT ![v] = NoEval]
    /\ UNCHANGED <<event, exec, sent, used>>

\* The enqueue throws, or the process dies: the event stays without a job.
EvaluationCut(v) ==
    /\ eval[v].pc # "idle"
    /\ Spend("cuts")
    /\ eval' = [eval EXCEPT ![v] = NoEval]
    /\ UNCHANGED <<event, job, exec, sent>>

-----------------------------------------------------------------------------
(* Members                                                                 *)

SetEventStatus(e, s) ==
    /\ e \in DOMAIN event
    /\ event[e].status # s
    /\ IF event[e].status \notin Open /\ s \in Open THEN Spend("reopens") ELSE Spend("changes")
    /\ event' = [event EXCEPT ![e].status = s]
    /\ UNCHANGED <<eval, job, exec, sent>>

Begun(e) == [Idle EXCEPT !.pc = "send", !.event = e, !.todo = Channel]

\* sendTest: an event of its own, delivered by the request.
SendTest ==
    /\ exec[Api].pc = "idle" /\ Channel # {}
    /\ Spend("events")
    /\ event' = Append(event, Row("RESOLVED", TRUE, Len(event)))
    /\ exec' = [exec EXCEPT ![Api] = Begun(Len(event) + 1)]
    /\ UNCHANGED <<eval, job, sent>>

Redeliver(e) ==
    /\ exec[Api].pc = "idle" /\ e \in DOMAIN event
    /\ Spend("redeliveries")
    /\ exec' = [exec EXCEPT ![Api] = Begun(e)]
    /\ UNCHANGED <<event, eval, job, sent>>

-----------------------------------------------------------------------------
(* deliverAlert                                                            *)

Take(w, e) ==
    /\ job[e].state = "waiting" /\ exec[w].pc = "idle"
    /\ job' = [job EXCEPT ![e] = Taken(@, w)]
    /\ exec' = [exec EXCEPT ![w] = Begun(e)]
    /\ UNCHANGED <<event, eval, sent, used>>

\* The channels are tried one after the other, in a fixed order.
Sending(x, c) ==
    /\ exec[x].pc = "send" /\ exec[x].todo # {}
    /\ c = CHOOSE d \in exec[x].todo : TRUE
Took(x, c) == sent' = [sent EXCEPT ![exec[x].event][c] = @ + 1]

Accept(x, c) ==
    /\ Sending(x, c)
    /\ Took(x, c)
    /\ exec' = [exec EXCEPT ![x].todo = @ \ {c}, ![x].ok = @ \union {c}]
    /\ UNCHANGED <<event, eval, job, used>>

\* The channel fails; its outcome is kept and the next one is tried.
Refuse(x, c) ==
    /\ Sending(x, c)
    /\ Spend("faults")
    /\ exec' = [exec EXCEPT ![x].todo = @ \ {c}]
    /\ UNCHANGED <<event, eval, job, sent>>

\* It took the alert, but the answer is lost: withRetry calls it again, or gives up.
Lose(x, c) ==
    /\ Sending(x, c)
    /\ Spend("lost")
    /\ Took(x, c)
    /\ \E again \in BOOLEAN :
         exec' = [exec EXCEPT ![x].todo = IF again THEN @ ELSE @ \ {c}]
    /\ UNCHANGED <<event, eval, job>>

\* mutant: every channel has to have taken it
DeliveredAll(e) == e.ok = Channel

Delivered(e) == e.ok # {} \/ Channel = {}

\* One update for all outcomes; a later, failed delivery clears deliveredAt.
Record(x) ==
    /\ exec[x].pc = "send" /\ exec[x].todo = {}
    /\ event' = [event EXCEPT ![exec[x].event].delivered = Delivered(exec[x]),
                              ![exec[x].event].attempts = @ + 1]
    /\ exec' = [exec EXCEPT ![x].pc = IF Delivered(exec[x]) THEN "return" ELSE "throw"]
    /\ UNCHANGED <<eval, job, sent, used>>

\* The handler resolves or throws; a request just reports that to its caller.
Answer(x) ==
    /\ exec[x].pc \in {"return", "throw"}
    /\ job' = [e \in Events |->
                 IF e # exec[x].event THEN job[e]
                 ELSE IF exec[x].pc = "return" THEN Resolved(job[e], x) ELSE Rejected(job[e], x)]
    /\ exec' = [exec EXCEPT ![x] = Idle]
    /\ UNCHANGED <<event, eval, sent, used>>

Crash(x) ==
    /\ exec[x].pc # "idle"
    /\ Spend("crashes")
    /\ exec' = [exec EXCEPT ![x] = Idle]
    /\ UNCHANGED <<event, eval, job, sent>>

Reclaim(e) ==
    /\ job[e].state = "active" /\ exec[job[e].owner].pc = "idle"
    /\ job' = [job EXCEPT ![e] = Stalled(@)]
    /\ UNCHANGED <<event, eval, exec, sent, used>>

-----------------------------------------------------------------------------

Evaluating(v) == Check(v) \/ Create(v) \/ Enqueue(v)
Delivering(x) == Record(x) \/ Answer(x) \/ \E c \in Channel : Accept(x, c)

Next ==
    \/ \E v \in Evaluator : Trigger(v) \/ Evaluating(v) \/ EvaluationCut(v)
    \/ \E e \in Events, s \in Statuses : SetEventStatus(e, s)
    \/ SendTest
    \/ \E e \in Events : Redeliver(e) \/ Reclaim(e) \/ \E w \in Worker : Take(w, e)
    \/ \E x \in Worker \union {Api} :
         \/ Delivering(x) \/ Crash(x)
         \/ \E c \in Channel : Refuse(x, c) \/ Lose(x, c)

Spec == Init /\ [][Next]_vars

\* Evaluations and handlers run on, the worker takes what waits (one job after the
\* other, so each in its turn), and the stalled-job check is a timer.
Fairness ==
    /\ \A v \in Evaluator : WF_vars(Evaluating(v))
    /\ \A x \in Worker \union {Api} : WF_vars(Delivering(x))
    /\ \A e \in Events : WF_vars(Reclaim(e)) /\ \A w \in Worker : SF_vars(Take(w, e))

FairSpec == Spec /\ Fairness

-----------------------------------------------------------------------------
(* Properties                                                              *)

\* Every execution is on an event that exists, every job too.
TypeOK ==
    /\ event \in Seq(Event) /\ Len(event) <= MaxEvents
    /\ eval \in [Evaluator -> Eval]
    /\ job \in [Events -> Job]
    /\ exec \in [Worker \union {Api} -> Exec]
    /\ sent \in [Events -> [Channel -> Nat]]
    /\ used \in [Bounds -> Nat]
    /\ \A v \in Evaluator : eval[v].pc = "enqueue" => eval[v].event \in DOMAIN event
    /\ \A e \in Events : job[e].state # "none" => e \in DOMAIN event
    /\ \A x \in Worker \union {Api} :
         /\ exec[x].ok \subseteq Channel \ exec[x].todo
         /\ exec[x].pc # "idle" => exec[x].event \in DOMAIN event

\* insights.ts promises one open event per rule at a time.  Unless a member opens one again,
\* two are open only if the evaluation of the later one looked before the earlier was made.
OneOpenEvent ==
    \A i, j \in DOMAIN event :
        i < j /\ {event[i].status, event[j].status} \subseteq Open /\ used["reopens"] = 0
            => event[j].seen < i

InHand(e) == \E x \in Worker \union {Api} : exec[x].pc # "idle" /\ exec[x].event = e
Heard(e) == \E c \in Channel : sent[e][c] > 0

\* schema.prisma: an alert that never reached anyone can be told from one that did.  No
\* event is recorded as delivered that nobody heard of (if there is anyone to hear of it),
\* and without a crash, a lost answer or a redelivery every one that was heard of is.
DeliveryTruthful ==
    \A e \in DOMAIN event :
        /\ event[e].delivered => Heard(e) \/ Channel = {}
        /\ Heard(e) /\ ~InHand(e) /\ used["crashes"] + used["lost"] + used["redeliveries"] = 0
              => event[e].delivered

\* No channel hears of an alert again without a crash, a lost answer or a request to
\* redeliver it: the job's retries are for alerts that reached nobody.
RepeatsExplained ==
    \A e \in DOMAIN event, c \in Channel :
        sent[e][c] <= 1 + used["crashes"] + used["lost"] + used["redeliveries"]

\* One open event, heard of once on each channel, and a record that says so.
AlertsTruthful == OneOpenEvent /\ DeliveryTruthful /\ RepeatsExplained

Fired(e) == e \in DOMAIN event /\ ~event[e].test
Tried(e) == (e \in DOMAIN event /\ event[e].attempts > 0) \/ job[e].state = "failed"

\* Unless an evaluation was cut short, every alert is tried on its channels.
EveryAlertTried == \A e \in Events : Fired(e) ~> Tried(e) \/ used["cuts"] > 0
=============================================================================
