-------------------------- MODULE AlertEventsProofs --------------------------
(***************************************************************************)
(* For every set of channels, workers and evaluations, and every bound:    *)
(* when two events of a rule may be open, how often a channel hears of     *)
(* one, and that its row says so.                                          *)
(*                                                                         *)
(* How often a channel heard is not inductive.  Its job may yet try it     *)
(* (Due), and so may the request that delivers inline (Inline); a crash, a *)
(* lost answer or a request to redeliver adds to what may come as much as  *)
(* it adds to the reasons, and without any of them the sum of the three    *)
(* never exceeds one.                                                      *)
(***************************************************************************)
EXTENDS MCDelivery, FiniteSetTheorems, SequenceTheorems, TLAPS

\* The bound is a number, and the request is none of the workers.
Apart == MaxEvents \in Nat /\ Api \notin AlertWorker \union {NoWorker}

Execution == AlertWorker \union {Api}
Runs(x, e) == handler[x].pc # "idle" /\ handler[x].event = e

\* The reasons there are for hearing of an alert again.
Broken == spent["crashes"] + spent["lost"] + spent["redeliveries"]

\* Evaluations that have not made their event yet.
Pending == {v \in Evaluator : eval[v].pc \in {"check", "create"}}

\* There are events for those that are to be made.
Counted ==
    /\ IsFiniteSet(Pending)
    /\ Len(event) + Cardinality(Pending) <= spent["events"]
    /\ spent["events"] <= MaxEvents

\* Tests have no job, an active job has an owner, and nobody has heard of an event that is to be made.
Linked ==
    /\ \A v \in Evaluator : eval[v].pc = "enqueue" => ~event[eval[v].event].test
    /\ \A e \in A!Events : /\ delivering[e].state # "none" => ~event[e].test
                           /\ delivering[e].state = "active" => delivering[e].owner \in AlertWorker
    /\ \A e \in A!Events \ DOMAIN event, c \in Channel : sent[e][c] = 0

\* A worker that delivers an event owns its job.
Owned ==
    \A w \in AlertWorker :
        handler[w].pc # "idle" => /\ delivering[handler[w].event].state = "active"
                                  /\ delivering[handler[w].event].owner = w

\* What an evaluation saw is closed, and stays closed unless a member opens it again.
Looked ==
    \A v \in Evaluator :
        eval[v].pc = "create" =>
            /\ eval[v].seen <= Len(event)
            /\ spent["reopens"] = 0 =>
                 \A i \in DOMAIN event : i <= eval[v].seen => event[i].status \notin A!Open

\* An acknowledgement is that of a channel that took the alert; an execution reports
\* that it reached somebody if it did.
Acked ==
    \A x \in Execution :
        handler[x].pc # "idle" =>
               /\ \A c \in handler[x].ok : sent[handler[x].event][c] > 0
               /\ handler[x].pc = "throw" => handler[x].ok = {}
               /\ handler[x].pc = "return" => handler[x].ok # {} \/ Channel = {}

\* The job of e, in this attempt or a later one, may have channel c take the alert.
Due(e, c) ==
    \/ delivering[e].state = "none" /\ ~event[e].test
    \/ delivering[e].state = "waiting"
    \/ /\ delivering[e].state = "active"
       /\ Runs(delivering[e].owner, e) =>
            \/ handler[delivering[e].owner].pc = "send" /\ c \in handler[delivering[e].owner].todo
            \/ handler[delivering[e].owner].pc # "return" /\ handler[delivering[e].owner].ok = {}

\* The request may have it take the alert.
Inline(e, c) == handler[Api].pc = "send" /\ handler[Api].event = e /\ c \in handler[Api].todo

Account(e, c) ==
    sent[e][c] + (IF Due(e, c) THEN 1 ELSE 0) + (IF Inline(e, c) THEN 1 ELSE 0)

Accounted == \A e \in DOMAIN event, c \in Channel : Account(e, c) <= 1 + Broken

\* A row says that the alert was delivered only if somebody heard; uninterrupted, what
\* was heard is written down or about to be, and only tests are delivered inline, once.
Told ==
    \A e \in DOMAIN event :
        /\ event[e].delivered => A!Heard(e) \/ Channel = {}
        /\ Broken = 0 =>
             /\ A!Heard(e) => \/ event[e].delivered
                              \/ \E x \in Execution :
                                   Runs(x, e) /\ handler[x].pc = "send" /\ handler[x].ok # {}
             /\ Runs(Api, e) => event[e].test
             /\ Runs(Api, e) /\ handler[Api].pc = "send" => ~event[e].delivered

IInv ==
    A!TypeOK /\ Counted /\ Linked /\ Owned /\ Looked /\ A!OneOpenEvent /\ Acked /\ Accounted /\ Told
-----------------------------------------------------------------------------
(* Types                                                                   *)

\* A step that a bound allows raises that counter by one and no other.
LEMMA SpendCounts ==
    ASSUME NEW b \in A!Bounds, spent \in [A!Bounds -> Nat], A!Spend(b)
    PROVE  /\ spent' \in [A!Bounds -> Nat]
           /\ spent'[b] = spent[b] + 1
           /\ \A c \in A!Bounds \ {b} : spent'[c] = spent[c]
           /\ b = "events" => spent[b] < MaxEvents
BY DEF A!Spend, A!Bounds, A!Trouble

\* What the queue makes of a job is a job.
LEMMA JobOps ==
    ASSUME NEW j \in A!Job, NEW w \in AlertWorker \union {Api}
    PROVE  /\ A!Added(j) \in A!Job /\ A!Stalled(j) \in A!Job
           /\ A!Resolved(j, w) \in A!Job /\ A!Rejected(j, w) \in A!Job
           /\ w \in AlertWorker => A!Taken(j, w) \in A!Job
           /\ A!Added(j).state = IF j.state = "none" THEN "waiting" ELSE j.state
           /\ j.state # "none" => A!Added(j) = j
           /\ A!Stalled(j).state \in {"waiting", "failed"}
           /\ A!Taken(j, w).state = "active" /\ A!Taken(j, w).owner = w
           /\ j.owner # w => A!Resolved(j, w) = j /\ A!Rejected(j, w) = j
           /\ j.owner = w => /\ A!Resolved(j, w).state = "completed"
                             /\ A!Rejected(j, w).state \in {"waiting", "failed"}
<1> USE DEF A!Job
<1>1. A!NoJob \in A!Job /\ [A!NoJob EXCEPT !.state = "waiting"] \in A!Job
      /\ [A!NoJob EXCEPT !.state = "waiting"].state = "waiting"
  BY DEF A!NoJob
<1>2. /\ A!Added(j) \in A!Job
      /\ A!Added(j).state = IF j.state = "none" THEN "waiting" ELSE j.state
      /\ j.state # "none" => A!Added(j) = j
  BY <1>1 DEF A!Added
<1>3. A!Stalled(j) \in A!Job /\ A!Stalled(j).state \in {"waiting", "failed"}
  <2> DEFINE state == IF j.stalls < StallLimit THEN "waiting" ELSE "failed"
             stalls == j.stalls + 1
  <2>1. state \in {"waiting", "failed"} /\ stalls \in Nat
    OBVIOUS
  <2>2. A!Stalled(j) = [j EXCEPT !.state = state, !.stalls = stalls, !.owner = NoWorker]
    BY DEF A!Stalled
  <2> HIDE DEF state, stalls
  <2> QED BY <2>1, <2>2
<1>4. /\ A!Resolved(j, w) \in A!Job
      /\ j.owner # w => A!Resolved(j, w) = j
      /\ j.owner = w => A!Resolved(j, w).state = "completed"
  BY DEF A!Resolved
<1>5. /\ A!Rejected(j, w) \in A!Job
      /\ j.owner # w => A!Rejected(j, w) = j
      /\ j.owner = w => A!Rejected(j, w).state \in {"waiting", "failed"}
  <2> DEFINE state == IF j.made + 1 < AlertAttempts THEN "waiting" ELSE "failed"
             made == j.made + 1
  <2>1. state \in {"waiting", "failed"} /\ made \in Nat
    OBVIOUS
  <2>2. A!Rejected(j, w) = IF j.owner # w THEN j
                           ELSE [j EXCEPT !.state = state, !.made = made, !.owner = NoWorker]
    BY DEF A!Rejected
  <2> HIDE DEF state, made
  <2> QED BY <2>1, <2>2
<1>6. /\ w \in AlertWorker => A!Taken(j, w) \in A!Job
      /\ A!Taken(j, w).state = "active" /\ A!Taken(j, w).owner = w
  BY DEF A!Taken
<1> QED BY <1>2, <1>3, <1>4, <1>5, <1>6

\* An execution that begins has all channels before it.
LEMMA BegunFields ==
    ASSUME NEW e \in Nat
    PROVE  /\ A!Begun(e) \in A!Exec
           /\ A!Begun(e).pc = "send" /\ A!Begun(e).event = e
           /\ A!Begun(e).todo = Channel /\ A!Begun(e).ok = {}
BY DEF A!Begun, A!Idle, A!Exec

\* What trying a channel leaves of an execution: the channel is tried, or to be tried
\* again, and acknowledged only if it took the alert.
LEMMA TryFields ==
    ASSUME A!TypeOK, NEW x \in Execution, NEW c \in Channel,
           A!Accept(x, c) \/ A!Refuse(x, c) \/ A!Lose(x, c)
    PROVE  /\ handler[x].pc = "send" /\ c \in handler[x].todo
           /\ handler[x].event \in DOMAIN event
           /\ handler' = [handler EXCEPT ![x] = handler'[x]]
           /\ handler'[x] \in A!Exec
           /\ handler'[x].pc = "send" /\ handler'[x].event = handler[x].event
           /\ handler'[x].todo \in {handler[x].todo, handler[x].todo \ {c}}
           /\ A!Accept(x, c) \/ A!Refuse(x, c) => handler'[x].todo = handler[x].todo \ {c}
           /\ handler'[x].ok = IF A!Accept(x, c) THEN handler[x].ok \union {c} ELSE handler[x].ok
           /\ UNCHANGED <<event, eval, delivering>>
           /\ A!Refuse(x, c) => sent' = sent /\ A!Spend("faults")
           /\ A!Accept(x, c) => spent' = spent
           /\ A!Lose(x, c) => A!Spend("lost")
           /\ ~A!Refuse(x, c) => A!Took(x, c)
<1>0. handler[x] \in A!Exec /\ handler \in [Execution -> A!Exec]
  BY DEF A!TypeOK, Execution
<1>1. /\ handler[x].pc = "send" /\ c \in handler[x].todo
      /\ handler[x].event \in DOMAIN event
      /\ UNCHANGED <<event, eval, delivering>>
  BY <1>0 DEF A!Accept, A!Refuse, A!Lose, A!Sending, A!TypeOK, Execution
<1>2. CASE A!Accept(x, c)
  <2> DEFINE r == [handler[x] EXCEPT !.todo = handler[x].todo \ {c}, !.ok = handler[x].ok \union {c}]
  <2>1. /\ r \in A!Exec /\ r.pc = handler[x].pc /\ r.event = handler[x].event
        /\ r.todo = handler[x].todo \ {c} /\ r.ok = handler[x].ok \union {c}
    BY <1>0 DEF A!Exec
  <2>2. handler' = [handler EXCEPT ![x] = r]
    BY <1>0, <1>2 DEF A!Accept, A!Exec
  <2>3. ~A!Refuse(x, c) /\ ~A!Lose(x, c)
    <3>1. handler'[x].ok # handler[x].ok \/ handler'[x].todo # handler[x].todo \ {c} \/ sent' # sent \/ spent' = spent
      BY <1>2 DEF A!Accept
    <3>2. A!Refuse(x, c) => FALSE
      <4>1. A!Spend("faults") => spent' # spent
        BY SpendCounts DEF A!TypeOK, A!Bounds, A!Trouble
      <4> QED BY <4>1, <1>2 DEF A!Refuse, A!Accept
    <3>3. A!Lose(x, c) => FALSE
      <4>1. A!Spend("lost") => spent' # spent
        BY SpendCounts DEF A!TypeOK, A!Bounds, A!Trouble
      <4> QED BY <4>1, <1>2 DEF A!Lose, A!Accept
    <3> QED BY <3>2, <3>3
  <2> HIDE DEF r
  <2>4. handler'[x] = r
    BY <1>0, <2>2
  <2> QED BY <1>0, <1>1, <1>2, <2>1, <2>2, <2>3, <2>4 DEF A!Accept
<1>3. CASE A!Refuse(x, c)
  <2> DEFINE r == [handler[x] EXCEPT !.todo = handler[x].todo \ {c}]
  <2>1. /\ r \in A!Exec /\ r.pc = handler[x].pc /\ r.event = handler[x].event
        /\ r.todo = handler[x].todo \ {c} /\ r.ok = handler[x].ok
    BY <1>0 DEF A!Exec
  <2>2. handler' = [handler EXCEPT ![x] = r]
    BY <1>0, <1>3 DEF A!Refuse, A!Exec
  <2>3. ~A!Accept(x, c) /\ ~A!Lose(x, c)
    <3>1. spent'["faults"] # spent["faults"]
      BY <1>3, SpendCounts DEF A!TypeOK, A!Bounds, A!Trouble, A!Refuse
    <3>2. A!Accept(x, c) => FALSE
      BY <3>1 DEF A!Accept
    <3>3. A!Lose(x, c) => FALSE
      BY <3>1, SpendCounts DEF A!Lose, A!TypeOK, A!Bounds, A!Trouble
    <3> QED BY <3>2, <3>3
  <2> HIDE DEF r
  <2>4. handler'[x] = r
    BY <1>0, <2>2
  <2> QED BY <1>0, <1>1, <1>3, <2>1, <2>2, <2>3, <2>4 DEF A!Refuse
<1>4. CASE A!Lose(x, c)
  <2>0. PICK again \in BOOLEAN :
           handler' = [handler EXCEPT ![x].todo = IF again THEN @ ELSE @ \ {c}]
    BY <1>4 DEF A!Lose
  <2> DEFINE todo == IF again THEN handler[x].todo ELSE handler[x].todo \ {c}
             r == [handler[x] EXCEPT !.todo = todo]
  <2>1. todo \in {handler[x].todo, handler[x].todo \ {c}} /\ todo \subseteq Channel
    BY <1>0 DEF A!Exec
  <2> HIDE DEF todo
  <2>2. /\ r \in A!Exec /\ r.pc = handler[x].pc /\ r.event = handler[x].event
        /\ r.todo = todo /\ r.ok = handler[x].ok
    BY <1>0, <2>1 DEF A!Exec
  <2>3. handler' = [handler EXCEPT ![x] = r]
    BY <1>0, <2>0 DEF A!Exec, todo
  <2>4. ~A!Accept(x, c) /\ ~A!Refuse(x, c)
    <3>1. spent'["lost"] # spent["lost"]
      BY <1>4, SpendCounts DEF A!TypeOK, A!Bounds, A!Trouble, A!Lose
    <3>2. A!Accept(x, c) => FALSE
      BY <3>1 DEF A!Accept
    <3>3. A!Refuse(x, c) => FALSE
      BY <3>1, SpendCounts DEF A!Refuse, A!TypeOK, A!Bounds, A!Trouble
    <3> QED BY <3>2, <3>3
  <2> HIDE DEF r
  <2>5. handler'[x] = r
    BY <1>0, <2>3
  <2> QED BY <1>0, <1>1, <1>4, <2>1, <2>2, <2>3, <2>4, <2>5 DEF A!Lose
<1> QED BY <1>2, <1>3, <1>4

\* A row is replaced in its place.
LEMMA RowReplaced ==
    ASSUME event \in Seq(A!Event), NEW k \in DOMAIN event, NEW r \in A!Event,
           event' = [event EXCEPT ![k] = r]
    PROVE  /\ event' \in Seq(A!Event) /\ Len(event') = Len(event)
           /\ DOMAIN event' = DOMAIN event
           /\ event'[k] = r
           /\ \A i \in DOMAIN event : i # k => event'[i] = event[i]
<1>1. k \in 1 .. Len(event) /\ DOMAIN event = 1 .. Len(event)
  OBVIOUS
<1>2. /\ event' \in Seq(A!Event) /\ Len(event') = Len(event)
      /\ \A i \in 1 .. Len(event) : event'[i] = IF i = k THEN r ELSE event[i]
  BY <1>1, ExceptSeq
<1> QED BY <1>1, <1>2

\* A row is added behind the others.
LEMMA RowAdded ==
    ASSUME event \in Seq(A!Event), NEW r \in A!Event, event' = Append(event, r)
    PROVE  /\ event' \in Seq(A!Event) /\ Len(event') = Len(event) + 1
           /\ DOMAIN event = 1 .. Len(event) /\ Len(event) \in Nat
           /\ DOMAIN event' = DOMAIN event \union {Len(event) + 1}
           /\ event'[Len(event) + 1] = r
           /\ \A i \in DOMAIN event : event'[i] = event[i]
<1>1. DOMAIN event = 1 .. Len(event) /\ Len(event) \in Nat
  OBVIOUS
<1>2. /\ event' \in Seq(A!Event) /\ Len(event') = Len(event) + 1
      /\ \A i \in 1 .. Len(event) : event'[i] = event[i]
      /\ event'[Len(event) + 1] = r
  BY AppendProperties
<1>3. DOMAIN event' = 1 .. (Len(event) + 1)
  BY <1>2
<1> QED BY <1>1, <1>2, <1>3

\* What a recorded delivery leaves: its row, counted and with what was acknowledged, and
\* the execution about to report it.
LEMMA RecordFields ==
    ASSUME A!TypeOK, NEW x \in Execution, A!Record(x)
    PROVE  /\ handler[x].pc = "send" /\ handler[x].todo = {}
           /\ handler[x].event \in DOMAIN event
           /\ handler' = [handler EXCEPT ![x] = handler'[x]]
           /\ handler'[x] \in A!Exec
           /\ handler'[x].pc = IF A!Delivered(handler[x]) THEN "return" ELSE "throw"
           /\ handler'[x].event = handler[x].event
           /\ handler'[x].todo = handler[x].todo /\ handler'[x].ok = handler[x].ok
           /\ event' \in Seq(A!Event) /\ Len(event') = Len(event)
           /\ DOMAIN event' = DOMAIN event
           /\ event'[handler[x].event].delivered = A!Delivered(handler[x])
           /\ \A i \in DOMAIN event : /\ event'[i].status = event[i].status
                                      /\ event'[i].test = event[i].test
                                      /\ event'[i].seen = event[i].seen
                                      /\ i # handler[x].event => event'[i] = event[i]
           /\ UNCHANGED <<eval, delivering, sent, spent>>
<1>0. handler[x] \in A!Exec /\ handler \in [Execution -> A!Exec] /\ event \in Seq(A!Event)
  BY DEF A!TypeOK, Execution
<1>1. /\ handler[x].pc = "send" /\ handler[x].todo = {}
      /\ handler[x].event \in DOMAIN event
      /\ UNCHANGED <<eval, delivering, sent, spent>>
  BY <1>0 DEF A!Record, A!TypeOK, Execution
<1> DEFINE pc == IF A!Delivered(handler[x]) THEN "return" ELSE "throw"
           e == [handler[x] EXCEPT !.pc = pc]
           k == handler[x].event
           r == [event[k] EXCEPT !.delivered = A!Delivered(handler[x]), !.attempts = event[k].attempts + 1]
<1>2. /\ e \in A!Exec /\ e.pc = pc /\ e.event = handler[x].event
      /\ e.todo = handler[x].todo /\ e.ok = handler[x].ok
  <2>1. pc \in {"return", "throw"}
    OBVIOUS
  <2> HIDE DEF pc
  <2> QED BY <1>0, <2>1 DEF A!Exec
<1>3. handler' = [handler EXCEPT ![x] = e]
  BY <1>0 DEF A!Record, A!Exec
<1>4. event[k] \in A!Event
  BY <1>0, <1>1
<1>5. /\ r \in A!Event /\ r.delivered = A!Delivered(handler[x])
      /\ r.status = event[k].status /\ r.test = event[k].test /\ r.seen = event[k].seen
  <2>1. A!Delivered(handler[x]) \in BOOLEAN /\ event[k].attempts + 1 \in Nat
    BY <1>4 DEF A!Delivered, A!Event
  <2> QED BY <1>4, <2>1 DEF A!Event
<1>6. event' = [event EXCEPT ![k] = r]
  BY <1>0, <1>1, <1>4 DEF A!Record, A!Event
<1>7. handler'[x] = e
  BY <1>0, <1>3
<1> HIDE DEF e, r
<1>8. /\ event' \in Seq(A!Event) /\ Len(event') = Len(event)
      /\ DOMAIN event' = DOMAIN event
      /\ event'[k] = r
      /\ \A i \in DOMAIN event : i # k => event'[i] = event[i]
  BY <1>0, <1>1, <1>5, <1>6, RowReplaced
<1>9. \A i \in DOMAIN event : /\ event'[i].status = event[i].status
                              /\ event'[i].test = event[i].test
                              /\ event'[i].seen = event[i].seen
                              /\ i # k => event'[i] = event[i]
  BY <1>5, <1>8
<1> QED BY <1>1, <1>2, <1>3, <1>5, <1>7, <1>8, <1>9

\* The events there are are among those there may be.
LEMMA DomainEvents ==
    ASSUME Apart, A!TypeOK
    PROVE  /\ Len(event) \in Nat /\ DOMAIN event = 1 .. Len(event)
           /\ DOMAIN event \subseteq A!Events
<1>1. Len(event) \in Nat /\ DOMAIN event = 1 .. Len(event) /\ Len(event) <= MaxEvents
  BY DEF A!TypeOK
<1> QED BY <1>1 DEF Apart, A!Events

\* What an answer leaves: its own job resolved or rejected, the execution at rest.
LEMMA AnswerFields ==
    ASSUME Apart, A!TypeOK, NEW x \in Execution, A!Answer(x)
    PROVE  /\ handler[x].pc \in {"return", "throw"}
           /\ handler[x].event \in A!Events /\ handler[x].event \in DOMAIN event
           /\ handler' = [handler EXCEPT ![x] = A!Idle]
           /\ delivering' \in [A!Events -> A!Job]
           /\ \A e \in A!Events : e # handler[x].event => delivering'[e] = delivering[e]
           /\ handler[x].pc = "return" => delivering'[handler[x].event] = A!Resolved(delivering[handler[x].event], x)
           /\ handler[x].pc = "throw" => delivering'[handler[x].event] = A!Rejected(delivering[handler[x].event], x)
           /\ UNCHANGED <<event, eval, sent, spent>>
<1>0. handler[x] \in A!Exec /\ delivering \in [A!Events -> A!Job]
  BY DEF A!TypeOK, Execution
<1>1. /\ handler[x].pc \in {"return", "throw"}
      /\ handler' = [handler EXCEPT ![x] = A!Idle]
      /\ UNCHANGED <<event, eval, sent, spent>>
  BY DEF A!Answer
<1>2. handler[x].event \in DOMAIN event /\ handler[x].event \in A!Events
  BY <1>1, DomainEvents DEF A!TypeOK, Execution
<1>3. delivering' = [e \in A!Events |->
                        IF e # handler[x].event THEN delivering[e]
                        ELSE IF handler[x].pc = "return" THEN A!Resolved(delivering[e], x) ELSE A!Rejected(delivering[e], x)]
  BY DEF A!Answer
<1>4. \A e \in A!Events : A!Resolved(delivering[e], x) \in A!Job /\ A!Rejected(delivering[e], x) \in A!Job
  BY <1>0, JobOps DEF Execution
<1>5. delivering' \in [A!Events -> A!Job]
  BY <1>0, <1>3, <1>4
<1> QED BY <1>1, <1>2, <1>3, <1>5

\* What a step of an evaluation leaves of it.
LEMMA EvalFields ==
    ASSUME A!TypeOK, NEW v \in Evaluator,
           A!Trigger(v) \/ A!Check(v) \/ A!Create(v) \/ A!Enqueue(v) \/ A!EvaluationCut(v)
    PROVE  /\ eval' = [eval EXCEPT ![v] = eval'[v]]
           /\ eval'[v] \in A!Eval
           /\ A!Trigger(v) => eval'[v].pc = "check"
           /\ A!Check(v) => \/ eval'[v] = A!NoEval
                            \/ /\ eval'[v].pc = "create" /\ eval'[v].seen = Len(event)
                               /\ \A e \in DOMAIN event : event[e].status \notin A!Blocking
           /\ A!Create(v) => /\ eval'[v].pc = "enqueue" /\ eval'[v].event = Len(event) + 1
           /\ A!Enqueue(v) \/ A!EvaluationCut(v) => eval'[v] = A!NoEval
           /\ handler' = handler /\ sent' = sent
<1>0. eval[v] \in A!Eval /\ eval \in [Evaluator -> A!Eval] /\ Len(event) \in Nat /\ A!NoEval \in A!Eval
  BY DEF A!TypeOK, A!Eval, A!NoEval
<1>1. CASE A!Trigger(v)
  <2> DEFINE r == [eval[v] EXCEPT !.pc = "check"]
  <2>1. r \in A!Eval /\ r.pc = "check" /\ eval' = [eval EXCEPT ![v] = r]
    BY <1>0, <1>1 DEF A!Trigger, A!Eval
  <2> HIDE DEF r
  <2> QED BY <1>0, <1>1, <2>1 DEF A!Trigger, A!Check, A!Create, A!Enqueue, A!EvaluationCut
<1>2. CASE A!Check(v)
  <2> DEFINE c == [eval[v] EXCEPT !.pc = "create", !.seen = Len(event)]
             b == \E e \in DOMAIN event : event[e].status \in A!Blocking
             r == IF b THEN A!NoEval ELSE c
  <2>1. c \in A!Eval /\ c.pc = "create" /\ c.seen = Len(event)
    BY <1>0 DEF A!Eval
  <2>2. eval' = [eval EXCEPT ![v] = r]
    BY <1>0, <1>2 DEF A!Check, A!Eval
  <2>3. r \in {A!NoEval, c} /\ ((r = c /\ ~b) \/ r = A!NoEval)
    OBVIOUS
  <2> HIDE DEF c, r
  <2>4. eval'[v] = r
    BY <1>0, <2>2
  <2>5. ~A!Trigger(v) /\ ~A!Create(v) /\ ~A!Enqueue(v)
    BY <1>2 DEF A!Check, A!Trigger, A!Create, A!Enqueue
  <2>6. ~A!EvaluationCut(v)
    <3>1. A!Spend("cuts") => spent' # spent
      BY SpendCounts DEF A!TypeOK, A!Bounds, A!Trouble
    <3> QED BY <1>2, <3>1 DEF A!Check, A!EvaluationCut
  <2> QED BY <1>0, <1>2, <2>1, <2>2, <2>3, <2>4, <2>5, <2>6 DEF A!Check
<1>3. CASE A!Create(v)
  <2> DEFINE r == [pc |-> "enqueue", event |-> Len(event) + 1, seen |-> 0]
  <2>1. r \in A!Eval /\ r.pc = "enqueue" /\ r.event = Len(event) + 1
    BY <1>0 DEF A!Eval
  <2>2. eval' = [eval EXCEPT ![v] = r]
    BY <1>3 DEF A!Create
  <2> HIDE DEF r
  <2>3. ~A!Trigger(v) /\ ~A!Check(v) /\ ~A!Enqueue(v)
    BY <1>3 DEF A!Check, A!Trigger, A!Create, A!Enqueue
  <2>4. ~A!EvaluationCut(v)
    <3>1. A!Spend("cuts") => spent' # spent
      BY SpendCounts DEF A!TypeOK, A!Bounds, A!Trouble
    <3> QED BY <1>3, <3>1 DEF A!Create, A!EvaluationCut
  <2> QED BY <1>0, <1>3, <2>1, <2>2, <2>3, <2>4 DEF A!Create
<1>4. CASE A!Enqueue(v)
  <2>1. ~A!Trigger(v) /\ ~A!Check(v) /\ ~A!Create(v)
    BY <1>4 DEF A!Check, A!Trigger, A!Create, A!Enqueue
  <2> QED BY <1>0, <1>4, <2>1 DEF A!Enqueue
<1>5. CASE A!EvaluationCut(v)
  <2>1. spent' # spent
    BY <1>5, SpendCounts DEF A!EvaluationCut, A!TypeOK, A!Bounds, A!Trouble
  <2>2. ~A!Check(v) /\ ~A!Create(v) /\ ~A!Trigger(v)
    BY <2>1, <1>5 DEF A!Check, A!Create, A!Trigger, A!EvaluationCut
  <2> QED BY <1>0, <1>5, <2>2 DEF A!EvaluationCut
<1> QED BY <1>1, <1>2, <1>3, <1>4, <1>5

\* The rest of a state's step is a member's or the queue's.
LEMMA Types ==
    ASSUME Apart, A!TypeOK, Counted, [A!Next]_A!vars
    PROVE  A!TypeOK'
<1> DEFINE Typed == /\ event' \in Seq(A!Event) /\ Len(event') <= MaxEvents
                    /\ eval' \in [Evaluator -> A!Eval]
                    /\ delivering' \in [A!Events -> A!Job]
                    /\ handler' \in [Execution -> A!Exec]
                    /\ sent' \in [A!Events -> [Channel -> Nat]]
                    /\ spent' \in [A!Bounds -> Nat]
           Evals == \A v \in Evaluator : eval'[v].pc = "enqueue" => eval'[v].event \in DOMAIN event'
           Jobs == \A e \in A!Events : delivering'[e].state # "none" => e \in DOMAIN event'
           Execs == \A x \in Execution :
                      /\ handler'[x].ok \subseteq Channel \ handler'[x].todo
                      /\ handler'[x].pc # "idle" => handler'[x].event \in DOMAIN event'
<1>0. /\ event \in Seq(A!Event) /\ Len(event) <= MaxEvents
      /\ eval \in [Evaluator -> A!Eval]
      /\ delivering \in [A!Events -> A!Job]
      /\ handler \in [Execution -> A!Exec]
      /\ sent \in [A!Events -> [Channel -> Nat]]
      /\ spent \in [A!Bounds -> Nat]
      /\ MaxEvents \in Nat
      /\ Len(event) \in Nat /\ DOMAIN event = 1 .. Len(event) /\ DOMAIN event \subseteq A!Events
      /\ \A v \in Evaluator : eval[v].pc = "enqueue" => eval[v].event \in DOMAIN event
      /\ \A e \in A!Events : delivering[e].state # "none" => e \in DOMAIN event
      /\ \A x \in Execution :
           /\ handler[x].ok \subseteq Channel \ handler[x].todo
           /\ handler[x].pc # "idle" => handler[x].event \in DOMAIN event
  BY DomainEvents DEF A!TypeOK, Apart, Execution
<1>00. A!Idle \in A!Exec /\ A!Idle.pc = "idle" /\ A!Idle.ok = {} /\ A!NoEval \in A!Eval /\ A!NoEval.pc = "idle"
  BY DEF A!Idle, A!Exec, A!NoEval, A!Eval
<1> SUFFICES Typed /\ Evals /\ Jobs /\ Execs
  BY DEF A!TypeOK, Execution
<1>1. ASSUME NEW v \in Evaluator, A!Trigger(v) \/ A!Evaluating(v) \/ A!EvaluationCut(v)
      PROVE  Typed /\ Evals /\ Jobs /\ Execs
  <2>1. /\ eval' = [eval EXCEPT ![v] = eval'[v]] /\ eval'[v] \in A!Eval
        /\ handler' = handler /\ sent' = sent
    BY <1>1, EvalFields DEF A!Evaluating
  <2>2. eval' \in [Evaluator -> A!Eval]
    BY <1>0, <2>1
  <2>3. CASE A!Trigger(v)
    <3>1. spent' \in [A!Bounds -> Nat]
      BY <2>3, <1>0, SpendCounts DEF A!Trigger, A!Bounds
    <3>2. eval'[v].pc = "check"
      BY <2>3, EvalFields
    <3> QED BY <1>0, <2>1, <2>2, <2>3, <3>1, <3>2 DEF A!Trigger
  <2>4. CASE A!Check(v)
    <3>1. eval'[v].pc # "enqueue"
      BY <2>4, <1>00, EvalFields
    <3> QED BY <1>0, <2>1, <2>2, <2>4, <3>1 DEF A!Check
  <2>5. CASE A!Create(v)
    <3>1. /\ eval'[v].pc = "enqueue" /\ eval'[v].event = Len(event) + 1
      BY <2>5, EvalFields
    <3> DEFINE r == A!Row("TRIGGERED", FALSE, eval[v].seen)
    <3>2. r \in A!Event /\ event' = Append(event, r)
      BY <1>0, <2>5 DEF A!Create, A!Row, A!Event, A!Statuses, A!Eval
    <3> HIDE DEF r
    <3>3. /\ event' \in Seq(A!Event) /\ Len(event') = Len(event) + 1
          /\ DOMAIN event' = DOMAIN event \union {Len(event) + 1}
      BY <1>0, <3>2, RowAdded
    <3>4. v \in Pending
      BY <2>5 DEF A!Create, Pending
    <3>5. Cardinality(Pending) >= 1 /\ Cardinality(Pending) \in Nat
      <4>1. IsFiniteSet(Pending) /\ Pending # {}
        BY <3>4 DEF Counted
      <4> QED BY <4>1, FS_CardinalityType, FS_EmptySet
    <3>6. Len(event') <= MaxEvents
      <4>1. spent["events"] \in Nat
        BY <1>0 DEF A!Bounds
      <4> QED BY <1>0, <3>3, <3>5, <4>1 DEF Counted
    <3> QED BY <1>0, <2>1, <2>2, <2>5, <3>1, <3>3, <3>6 DEF A!Create
  <2>6. CASE A!Enqueue(v)
    <3> DEFINE e == eval[v].event
    <3>1. /\ e \in DOMAIN event /\ e \in A!Events
          /\ delivering' = [delivering EXCEPT ![e] = A!Added(delivering[e])] /\ UNCHANGED <<event, spent>>
      BY <1>0, <2>6 DEF A!Enqueue, A!JobKey
    <3>2. A!Added(delivering[e]) \in A!Job
      <4>1. delivering[e] \in A!Job /\ Api \in AlertWorker \union {Api}
        BY <1>0, <3>1
      <4> QED BY <4>1, JobOps
    <3> HIDE DEF e
    <3>3. eval'[v] = A!NoEval
      BY <2>6, EvalFields
    <3> QED BY <1>0, <1>00, <2>1, <2>2, <3>1, <3>2, <3>3
  <2>7. CASE A!EvaluationCut(v)
    <3>1. spent' \in [A!Bounds -> Nat]
      BY <2>7, <1>0, SpendCounts DEF A!EvaluationCut, A!Bounds, A!Trouble
    <3>2. eval'[v] = A!NoEval
      BY <2>7, EvalFields
    <3> QED BY <1>0, <1>00, <2>1, <2>2, <2>7, <3>1, <3>2 DEF A!EvaluationCut
  <2> QED BY <1>1, <2>3, <2>4, <2>5, <2>6, <2>7 DEF A!Evaluating
<1>2. ASSUME NEW e \in A!Events, NEW s \in A!Statuses, A!SetEventStatus(e, s)
      PROVE  Typed /\ Evals /\ Jobs /\ Execs
  <2> DEFINE r == [event[e] EXCEPT !.status = s]
  <2>1. e \in DOMAIN event /\ event[e] \in A!Event
    BY <1>0, <1>2 DEF A!SetEventStatus
  <2>2. r \in A!Event /\ event' = [event EXCEPT ![e] = r]
    BY <1>0, <1>2, <2>1 DEF A!SetEventStatus, A!Event
  <2> HIDE DEF r
  <2>3. event' \in Seq(A!Event) /\ Len(event') = Len(event) /\ DOMAIN event' = DOMAIN event
    BY <1>0, <2>1, <2>2, RowReplaced
  <2>4. spent' \in [A!Bounds -> Nat]
    BY <1>0, <1>2, SpendCounts DEF A!SetEventStatus, A!Bounds, A!Trouble
  <2> QED BY <1>0, <1>2, <2>3, <2>4 DEF A!SetEventStatus
<1>3. ASSUME A!SendTest
      PROVE  Typed /\ Evals /\ Jobs /\ Execs
  <2> DEFINE r == A!Row("RESOLVED", TRUE, Len(event))
             b == A!Begun(Len(event) + 1)
  <2>1. r \in A!Event /\ event' = Append(event, r)
    BY <1>0, <1>3 DEF A!SendTest, A!Row, A!Event, A!Statuses
  <2>2. /\ b \in A!Exec /\ b.event = Len(event) + 1 /\ b.ok = {}
    <3>1. Len(event) + 1 \in Nat
      BY <1>0
    <3> QED BY <3>1, BegunFields
  <2>3. handler' = [handler EXCEPT ![Api] = b] /\ UNCHANGED <<eval, delivering, sent>>
    BY <1>3 DEF A!SendTest
  <2> HIDE DEF r, b
  <2>4. /\ event' \in Seq(A!Event) /\ Len(event') = Len(event) + 1
        /\ DOMAIN event' = DOMAIN event \union {Len(event) + 1}
    BY <1>0, <2>1, RowAdded
  <2>5. spent' \in [A!Bounds -> Nat] /\ spent["events"] < MaxEvents
    BY <1>0, <1>3, SpendCounts DEF A!SendTest, A!Bounds, A!Trouble
  <2>6. Len(event') <= MaxEvents
    <3>1. spent["events"] \in Nat
      BY <1>0 DEF A!Bounds
    <3>2. Cardinality(Pending) \in Nat
      BY FS_CardinalityType DEF Counted
    <3> QED BY <1>0, <2>4, <2>5, <3>1, <3>2 DEF Counted
  <2>7. Execs
    <3>1. ASSUME NEW x \in Execution
          PROVE  /\ handler'[x].ok \subseteq Channel \ handler'[x].todo
                 /\ handler'[x].pc # "idle" => handler'[x].event \in DOMAIN event'
      <4>1. CASE x = Api
        <5>1. handler'[x] = b
          BY <1>0, <2>3, <4>1 DEF Execution
        <5> QED BY <5>1, <2>2, <2>4
      <4>2. CASE x # Api
        <5>1. handler'[x] = handler[x]
          BY <1>0, <2>3, <4>2
        <5> QED BY <5>1, <1>0, <2>4
      <4> QED BY <4>1, <4>2
    <3> QED BY <3>1
  <2>8. handler' \in [Execution -> A!Exec]
    BY <1>0, <2>2, <2>3
  <2> QED BY <1>0, <2>3, <2>4, <2>5, <2>6, <2>7, <2>8
<1>4. ASSUME NEW x \in Execution, NEW e \in DOMAIN event,
             handler' = [handler EXCEPT ![x] = A!Begun(e)],
             event' = event, eval' = eval, sent' = sent, delivering' \in [A!Events -> A!Job],
             \A i \in A!Events : i # e => delivering'[i] = delivering[i],
             spent' \in [A!Bounds -> Nat]
      PROVE  Typed /\ Evals /\ Jobs /\ Execs
  <2> DEFINE b == A!Begun(e)
  <2>1. b \in A!Exec /\ b.event = e /\ b.ok = {}
    BY <1>0, BegunFields
  <2>2. handler' = [handler EXCEPT ![x] = b]
    BY <1>4
  <2> HIDE DEF b
  <2>3. handler' \in [Execution -> A!Exec] /\ handler'[x] = b
        /\ \A y \in Execution : y # x => handler'[y] = handler[y]
    BY <1>0, <2>1, <2>2
  <2> QED BY <1>0, <1>4, <2>1, <2>3
<1>5. ASSUME NEW e \in A!Events, A!Redeliver(e)
      PROVE  Typed /\ Evals /\ Jobs /\ Execs
  <2>1. spent' \in [A!Bounds -> Nat]
    BY <1>0, <1>5, SpendCounts DEF A!Redeliver, A!Bounds, A!Trouble
  <2> QED BY <1>0, <1>4, <1>5, <2>1 DEF A!Redeliver, Execution
<1>6. ASSUME NEW e \in A!Events, NEW w \in AlertWorker, A!Take(w, e)
      PROVE  Typed /\ Evals /\ Jobs /\ Execs
  <2>1. e \in DOMAIN event /\ A!Taken(delivering[e], w) \in A!Job
    BY <1>0, <1>6, JobOps DEF A!Take
  <2>2. delivering' \in [A!Events -> A!Job] /\ \A i \in A!Events : i # e => delivering'[i] = delivering[i]
    BY <1>0, <1>6, <2>1 DEF A!Take
  <2>3. w \in Execution /\ handler' = [handler EXCEPT ![w] = A!Begun(e)]
        /\ event' = event /\ eval' = eval /\ sent' = sent /\ spent' \in [A!Bounds -> Nat]
    BY <1>0, <1>6 DEF A!Take, Execution
  <2> HIDE DEF Typed, Evals, Jobs, Execs
  <2> QED BY <1>4, <2>1, <2>2, <2>3
<1>7. ASSUME NEW e \in A!Events, A!Reclaim(e)
      PROVE  Typed /\ Evals /\ Jobs /\ Execs
  <2>1. e \in DOMAIN event
    BY <1>0, <1>7 DEF A!Reclaim
  <2>2. A!Stalled(delivering[e]) \in A!Job
    <3>1. delivering[e] \in A!Job /\ Api \in AlertWorker \union {Api}
      BY <1>0
    <3> QED BY <3>1, JobOps
  <2>3. delivering' \in [A!Events -> A!Job] /\ \A i \in A!Events : i # e => delivering'[i] = delivering[i]
    BY <1>0, <1>7, <2>2 DEF A!Reclaim
  <2> QED BY <1>0, <1>7, <2>1, <2>3 DEF A!Reclaim
<1>8. ASSUME NEW x \in Execution, NEW c \in Channel, A!Accept(x, c) \/ A!Refuse(x, c) \/ A!Lose(x, c)
      PROVE  Typed /\ Evals /\ Jobs /\ Execs
  <2>1. /\ handler' = [handler EXCEPT ![x] = handler'[x]] /\ handler'[x] \in A!Exec
        /\ handler'[x].event \in DOMAIN event
        /\ UNCHANGED <<event, eval, delivering>>
    BY <1>8, TryFields
  <2>2. handler'[x].ok \subseteq Channel \ handler'[x].todo
    <3>1. CASE A!Accept(x, c)
      <4>1. handler'[x].ok = handler[x].ok \union {c} /\ handler'[x].todo = handler[x].todo \ {c}
        BY <3>1, TryFields
      <4> QED BY <4>1, <1>0
    <3>2. CASE ~A!Accept(x, c)
      <4>1. handler'[x].ok = handler[x].ok /\ handler'[x].todo \in {handler[x].todo, handler[x].todo \ {c}}
        BY <1>8, <3>2, TryFields
      <4> QED BY <4>1, <1>0
    <3> QED BY <3>1, <3>2
  <2>3. spent' \in [A!Bounds -> Nat]
    BY <1>0, <1>8, TryFields, SpendCounts DEF A!Bounds, A!Trouble
  <2>4. sent' \in [A!Events -> [Channel -> Nat]]
    <3>1. CASE A!Took(x, c)
      <4>1. handler[x].event \in A!Events /\ sent[handler[x].event][c] + 1 \in Nat
        <5>1. handler[x].event \in A!Events
          BY <1>0, <1>8, TryFields
        <5>2. sent[handler[x].event] \in [Channel -> Nat]
          BY <1>0, <5>1
        <5> QED BY <5>1, <5>2
      <4> QED BY <1>0, <3>1, <4>1 DEF A!Took
    <3>2. CASE sent' = sent
      BY <1>0, <3>2
    <3> QED BY <1>8, <3>1, <3>2, TryFields
  <2> QED BY <1>0, <2>1, <2>2, <2>3, <2>4
<1>9. ASSUME NEW x \in Execution, A!Record(x)
      PROVE  Typed /\ Evals /\ Jobs /\ Execs
  <2>1. /\ handler' = [handler EXCEPT ![x] = handler'[x]] /\ handler'[x] \in A!Exec
        /\ handler'[x].event \in DOMAIN event
        /\ handler'[x].todo = handler[x].todo /\ handler'[x].ok = handler[x].ok
        /\ event' \in Seq(A!Event) /\ Len(event') = Len(event) /\ DOMAIN event' = DOMAIN event
        /\ UNCHANGED <<eval, delivering, sent, spent>>
    BY <1>9, RecordFields
  <2> QED BY <1>0, <2>1
<1>10. ASSUME NEW x \in Execution, A!Answer(x)
       PROVE  Typed /\ Evals /\ Jobs /\ Execs
  <2>1. Jobs
    BY <1>0, <1>10, AnswerFields
  <2>2. /\ handler' = [handler EXCEPT ![x] = A!Idle]
        /\ delivering' \in [A!Events -> A!Job] /\ UNCHANGED <<event, eval, sent, spent>>
    BY <1>10, AnswerFields
  <2> QED BY <1>0, <1>00, <2>1, <2>2
<1>11. ASSUME NEW x \in Execution, A!Crash(x)
       PROVE  Typed /\ Evals /\ Jobs /\ Execs
  <2>1. spent' \in [A!Bounds -> Nat]
    BY <1>0, <1>11, SpendCounts DEF A!Crash, A!Bounds, A!Trouble
  <2> QED BY <1>0, <1>00, <1>11, <2>1 DEF A!Crash
<1>12. ASSUME UNCHANGED A!vars PROVE Typed /\ Evals /\ Jobs /\ Execs
  BY <1>0, <1>12 DEF A!vars
<1> QED
  BY <1>1, <1>2, <1>3, <1>5, <1>6, <1>7, <1>8, <1>9, <1>10, <1>11, <1>12
  DEF A!Next, A!Delivering, Execution

\* Everything but a test, an evaluation that makes an event, a change of status and a
\* recorded delivery leaves the rows alone.
LEMMA RowsUnchanged ==
    ASSUME [A!Next]_A!vars,
           \A v \in Evaluator : ~A!Create(v),
           ~A!SendTest,
           \A e \in A!Events, s \in A!Statuses : ~A!SetEventStatus(e, s),
           \A x \in Execution : ~A!Record(x)
    PROVE  event' = event
BY DEF A!Next, A!vars, A!Trigger, A!Evaluating, A!Check, A!Enqueue, A!EvaluationCut, A!Redeliver, A!Reclaim, A!Take,
       A!Delivering, A!Answer, A!Accept, A!Crash, A!Refuse, A!Lose, Execution

\* No counter goes down.
LEMMA UsedGrows ==
    ASSUME A!TypeOK, [A!Next]_A!vars
    PROVE  \A c \in A!Bounds : spent[c] \in Nat /\ spent'[c] \in Nat /\ spent[c] <= spent'[c]
<1>1. spent \in [A!Bounds -> Nat]
  BY DEF A!TypeOK
<1>2. \/ spent' = spent
      \/ \E b \in A!Bounds : A!Spend(b)
  BY DEF A!Next, A!vars, A!Trigger, A!Evaluating, A!Check, A!Create, A!Enqueue, A!EvaluationCut, A!SetEventStatus,
         A!SendTest, A!Redeliver, A!Reclaim, A!Take, A!Delivering, A!Record, A!Answer, A!Accept, A!Crash, A!Refuse,
         A!Lose, A!Bounds, A!Trouble
<1> QED BY <1>1, <1>2, SpendCounts

\* What a made event looks like.
LEMMA CreateFields ==
    ASSUME A!TypeOK, NEW v \in Evaluator, A!Create(v)
    PROVE  /\ event' \in Seq(A!Event) /\ Len(event') = Len(event) + 1
           /\ DOMAIN event = 1 .. Len(event) /\ Len(event) \in Nat
           /\ DOMAIN event' = DOMAIN event \union {Len(event) + 1}
           /\ event'[Len(event) + 1].status = "TRIGGERED"
           /\ ~event'[Len(event) + 1].test
           /\ ~event'[Len(event) + 1].delivered
           /\ event'[Len(event) + 1].seen = eval[v].seen
           /\ \A i \in DOMAIN event : event'[i] = event[i]
           /\ UNCHANGED <<delivering, handler, sent, spent>>
<1>0. eval[v] \in A!Eval /\ event \in Seq(A!Event)
  BY DEF A!TypeOK
<1> DEFINE r == A!Row("TRIGGERED", FALSE, eval[v].seen)
<1>1. /\ r \in A!Event /\ r.status = "TRIGGERED" /\ ~r.test /\ ~r.delivered /\ r.seen = eval[v].seen
      /\ event' = Append(event, r)
  BY <1>0 DEF A!Create, A!Row, A!Event, A!Statuses, A!Eval
<1> HIDE DEF r
<1>2. UNCHANGED <<delivering, handler, sent, spent>>
  BY DEF A!Create
<1> QED BY <1>0, <1>1, <1>2, RowAdded

\* What a test looks like.
LEMMA TestFields ==
    ASSUME A!TypeOK, A!SendTest
    PROVE  /\ event' \in Seq(A!Event) /\ Len(event') = Len(event) + 1
           /\ DOMAIN event = 1 .. Len(event) /\ Len(event) \in Nat
           /\ DOMAIN event' = DOMAIN event \union {Len(event) + 1}
           /\ event'[Len(event) + 1].status = "RESOLVED"
           /\ event'[Len(event) + 1].test
           /\ ~event'[Len(event) + 1].delivered
           /\ event'[Len(event) + 1].seen = Len(event)
           /\ \A i \in DOMAIN event : event'[i] = event[i]
           /\ handler[Api].pc = "idle"
           /\ handler' = [handler EXCEPT ![Api] = A!Begun(Len(event) + 1)]
           /\ A!Spend("events")
           /\ UNCHANGED <<eval, delivering, sent>>
<1>0. event \in Seq(A!Event) /\ Len(event) \in Nat
  BY DEF A!TypeOK
<1> DEFINE r == A!Row("RESOLVED", TRUE, Len(event))
<1>1. /\ r \in A!Event /\ r.status = "RESOLVED" /\ r.test /\ ~r.delivered /\ r.seen = Len(event)
      /\ event' = Append(event, r)
  BY <1>0 DEF A!SendTest, A!Row, A!Event, A!Statuses
<1> HIDE DEF r
<1>2. /\ handler[Api].pc = "idle"
      /\ handler' = [handler EXCEPT ![Api] = A!Begun(Len(event) + 1)]
      /\ A!Spend("events")
      /\ UNCHANGED <<eval, delivering, sent>>
  BY DEF A!SendTest
<1> QED BY <1>0, <1>1, <1>2, RowAdded

\* What a member's change of status leaves.
LEMMA StatusFields ==
    ASSUME A!TypeOK, NEW e \in A!Events, NEW s \in A!Statuses, A!SetEventStatus(e, s)
    PROVE  /\ DOMAIN event' = DOMAIN event /\ Len(event') = Len(event)
           /\ event'[e].status = s
           /\ \A i \in DOMAIN event : /\ event'[i].test = event[i].test
                                      /\ event'[i].seen = event[i].seen
                                      /\ event'[i].delivered = event[i].delivered
                                      /\ i # e => event'[i] = event[i]
           /\ IF event[e].status \notin A!Open /\ s \in A!Open
              THEN A!Spend("reopens") ELSE A!Spend("changes")
           /\ UNCHANGED <<eval, delivering, handler, sent>>
<1> DEFINE r == [event[e] EXCEPT !.status = s]
<1>1. event \in Seq(A!Event) /\ e \in DOMAIN event /\ event[e] \in A!Event
  BY DEF A!TypeOK, A!SetEventStatus
<1>2. /\ r \in A!Event /\ event' = [event EXCEPT ![e] = r]
      /\ r.status = s /\ r.test = event[e].test /\ r.seen = event[e].seen
      /\ r.delivered = event[e].delivered
  BY <1>1 DEF A!SetEventStatus, A!Event
<1> HIDE DEF r
<1>3. /\ IF event[e].status \notin A!Open /\ s \in A!Open
         THEN A!Spend("reopens") ELSE A!Spend("changes")
      /\ UNCHANGED <<eval, delivering, handler, sent>>
  BY DEF A!SetEventStatus
<1> QED BY <1>1, <1>2, <1>3, RowReplaced

\* Rows are neither deleted nor moved; what an event is stays, and it is opened again only
\* by a member.
LEMMA RowsStay ==
    ASSUME Apart, A!TypeOK, [A!Next]_A!vars
    PROVE  /\ Len(event) <= Len(event') /\ Len(event') \in Nat
           /\ DOMAIN event \subseteq DOMAIN event'
           /\ DOMAIN event' = 1 .. Len(event')
           /\ \/ \E v \in Evaluator : A!Create(v)
              \/ A!SendTest
              \/ DOMAIN event' = DOMAIN event
           /\ \A i \in DOMAIN event :
                /\ event'[i].test = event[i].test
                /\ event'[i].seen = event[i].seen
                /\ spent'["reopens"] = 0 /\ event'[i].status \in A!Open => event[i].status \in A!Open
                /\ (\A x \in Execution : ~(A!Record(x) /\ handler[x].event = i))
                     => event'[i].delivered = event[i].delivered
<1>0. Len(event) \in Nat /\ DOMAIN event = 1 .. Len(event)
  BY DEF A!TypeOK
<1>1. CASE \E v \in Evaluator : A!Create(v)
  BY <1>0, <1>1, CreateFields
<1>2. CASE A!SendTest
  BY <1>0, <1>2, TestFields
<1>3. ASSUME NEW e \in A!Events, NEW s \in A!Statuses, A!SetEventStatus(e, s)
      PROVE  /\ Len(event') = Len(event)
             /\ DOMAIN event = DOMAIN event'
             /\ \A i \in DOMAIN event :
                  /\ event'[i].test = event[i].test
                  /\ event'[i].seen = event[i].seen
                  /\ event'[i].delivered = event[i].delivered
                  /\ spent'["reopens"] = 0 /\ event'[i].status \in A!Open => event[i].status \in A!Open
  <2>1. A!Spend("reopens") => spent'["reopens"] # 0
    BY SpendCounts DEF A!TypeOK, A!Bounds, A!Trouble
  <2>2. event[e].status \notin A!Open /\ s \in A!Open => spent'["reopens"] # 0
    BY <1>3, <2>1, StatusFields
  <2> QED BY <1>3, <2>2, StatusFields
<1>4. ASSUME NEW x \in Execution, A!Record(x)
      PROVE  /\ Len(event') = Len(event)
             /\ DOMAIN event = DOMAIN event'
             /\ \A i \in DOMAIN event :
                  /\ event'[i].test = event[i].test
                  /\ event'[i].seen = event[i].seen
                  /\ event'[i].status = event[i].status
                  /\ i # handler[x].event => event'[i] = event[i]
  BY <1>4, RecordFields
<1>5. CASE event' = event
  BY <1>0, <1>5
<1> QED BY <1>0, <1>1, <1>2, <1>3, <1>4, <1>5, RowsUnchanged

-----------------------------------------------------------------------------
(* Room for the events, one open at a time                                 *)

\* The events and the evaluations that may make one are never more than were counted.
LEMMA NextCounted ==
    ASSUME Apart, A!TypeOK, Counted, [A!Next]_A!vars
    PROVE  Counted'
<1>0. /\ IsFiniteSet(Pending) /\ Cardinality(Pending) \in Nat
      /\ spent["events"] \in Nat /\ spent \in [A!Bounds -> Nat] /\ Len(event) \in Nat
      /\ MaxEvents \in Nat /\ eval \in [Evaluator -> A!Eval]
  BY FS_CardinalityType DEF Counted, A!TypeOK, A!Bounds, Apart
<1> DEFINE Same == Len(event') = Len(event) /\ spent'["events"] = spent["events"]
<1>1. ASSUME Pending' \subseteq Pending, Same
      PROVE  Counted'
  <2>1. IsFiniteSet(Pending') /\ Cardinality(Pending') <= Cardinality(Pending)
    BY <1>0, <1>1, FS_Subset
  <2>2. Cardinality(Pending') \in Nat
    BY <2>1, FS_CardinalityType
  <2> QED BY <1>0, <1>1, <2>1, <2>2 DEF Counted
<1>2. ASSUME NEW b \in A!Bounds, b # "events", A!Spend(b)
      PROVE  spent'["events"] = spent["events"]
  BY <1>0, <1>2, SpendCounts DEF A!Bounds
<1>3. ASSUME NEW v \in Evaluator, A!Trigger(v)
      PROVE  Counted'
  <2>1. eval' = [eval EXCEPT ![v] = eval'[v]] /\ event' = event
    BY <1>3, EvalFields DEF A!Trigger
  <2>2. Pending' \subseteq Pending \union {v}
    BY <1>0, <2>1 DEF Pending
  <2>3. /\ IsFiniteSet(Pending \union {v})
        /\ Cardinality(Pending \union {v}) <= Cardinality(Pending) + 1
    <3>1. /\ IsFiniteSet(Pending \union {v})
          /\ Cardinality(Pending \union {v})
               = IF v \in Pending THEN Cardinality(Pending) ELSE Cardinality(Pending) + 1
      BY <1>0, FS_AddElement
    <3> QED BY <1>0, <3>1
  <2>4. /\ IsFiniteSet(Pending') /\ Cardinality(Pending') \in Nat
        /\ Cardinality(Pending') <= Cardinality(Pending \union {v})
    BY <2>2, <2>3, FS_Subset, FS_CardinalityType
  <2>5. spent'["events"] = spent["events"] + 1 /\ spent["events"] < MaxEvents
    BY <1>0, <1>3, SpendCounts DEF A!Trigger, A!Bounds
  <2>6. Cardinality(Pending \union {v}) \in Nat
    BY <2>3, FS_CardinalityType
  <2> QED BY <1>0, <2>1, <2>3, <2>4, <2>5, <2>6 DEF Counted
<1>4. ASSUME NEW v \in Evaluator, A!Check(v) \/ A!Enqueue(v) \/ A!EvaluationCut(v)
      PROVE  Counted'
  <2>1. eval' = [eval EXCEPT ![v] = eval'[v]]
    BY <1>4, EvalFields
  <2>2. Pending' \subseteq Pending
    <3>1. v \in Pending \/ eval'[v].pc = "idle"
      <4>1. CASE A!Check(v)
        BY <4>1 DEF A!Check, Pending
      <4>2. CASE A!Enqueue(v) \/ A!EvaluationCut(v)
        BY <4>2, EvalFields DEF A!NoEval
      <4> QED BY <1>4, <4>1, <4>2
    <3> QED BY <1>0, <2>1, <3>1 DEF Pending
  <2>3. Same
    BY <1>2, <1>4 DEF A!Check, A!Enqueue, A!EvaluationCut, A!Bounds, A!Trouble
  <2> QED BY <1>1, <2>2, <2>3
<1>5. ASSUME NEW v \in Evaluator, A!Create(v)
      PROVE  Counted'
  <2>1. /\ eval' = [eval EXCEPT ![v] = eval'[v]] /\ eval'[v].pc = "enqueue"
        /\ Len(event') = Len(event) + 1 /\ spent' = spent
    BY <1>5, EvalFields, CreateFields
  <2>2. Pending' = Pending \ {v} /\ v \in Pending
    BY <1>0, <1>5, <2>1 DEF Pending, A!Create
  <2>3. IsFiniteSet(Pending') /\ Cardinality(Pending') = Cardinality(Pending) - 1
    BY <1>0, <2>2, FS_RemoveElement
  <2> QED BY <1>0, <2>1, <2>3 DEF Counted
<1>6. ASSUME A!SendTest
      PROVE  Counted'
  <2>1. Pending' = Pending /\ Len(event') = Len(event) + 1
    BY <1>6, TestFields DEF Pending
  <2>2. spent'["events"] = spent["events"] + 1 /\ spent["events"] < MaxEvents
    BY <1>0, <1>6, SpendCounts DEF A!SendTest, A!Bounds
  <2> QED BY <1>0, <2>1, <2>2 DEF Counted
<1>7. ASSUME eval' = eval, Same
      PROVE  Counted'
  <2>1. Pending' = Pending
    BY <1>7 DEF Pending
  <2> QED BY <1>1, <1>7, <2>1
<1>8. ASSUME NEW e \in A!Events, NEW s \in A!Statuses, A!SetEventStatus(e, s)
      PROVE  Counted'
  <2>1. Same
    BY <1>2, <1>8, StatusFields DEF A!Bounds, A!Trouble
  <2> QED BY <1>7, <1>8, <2>1 DEF A!SetEventStatus
<1>9. ASSUME NEW x \in Execution, A!Record(x)
      PROVE  Counted'
  BY <1>7, <1>9, RecordFields
<1>10. ASSUME \/ \E e \in A!Events : A!Redeliver(e) \/ A!Reclaim(e) \/ \E w \in AlertWorker : A!Take(w, e)
              \/ \E x \in Execution : \/ A!Answer(x) \/ A!Crash(x)
                                      \/ \E c \in Channel : A!Accept(x, c) \/ A!Refuse(x, c) \/ A!Lose(x, c)
              \/ UNCHANGED A!vars
       PROVE  Counted'
  <2>1. event' = event /\ eval' = eval
    BY <1>10 DEF A!vars, A!Redeliver, A!Reclaim, A!Take, A!Answer, A!Crash, A!Accept, A!Refuse, A!Lose
  <2>2. \/ spent' = spent
        \/ \E b \in A!Trouble : A!Spend(b)
    BY <1>10 DEF A!vars, A!Redeliver, A!Reclaim, A!Take, A!Answer, A!Crash, A!Accept, A!Refuse, A!Lose, A!Trouble
  <2>3. spent'["events"] = spent["events"]
    BY <1>2, <2>2 DEF A!Bounds, A!Trouble
  <2> QED BY <1>7, <2>1, <2>3
<1> QED BY <1>3, <1>4, <1>5, <1>6, <1>8, <1>9, <1>10 DEF A!Next, A!Evaluating, A!Delivering, Execution

\* What an evaluation found closed stays closed until it makes its event.
LEMMA NextLooked ==
    ASSUME Apart, A!TypeOK, Looked, A!OneOpenEvent, [A!Next]_A!vars
    PROVE  Looked' /\ A!OneOpenEvent'
<1>0. /\ Len(event) \in Nat /\ DOMAIN event = 1 .. Len(event) /\ eval \in [Evaluator -> A!Eval]
      /\ event \in Seq(A!Event)
  BY DEF A!TypeOK
<1>1. /\ Len(event) <= Len(event') /\ Len(event') \in Nat
      /\ DOMAIN event \subseteq DOMAIN event'
      /\ \A i \in DOMAIN event :
           /\ event'[i].seen = event[i].seen
           /\ spent'["reopens"] = 0 /\ event'[i].status \in A!Open => event[i].status \in A!Open
  BY RowsStay
<1>2. spent'["reopens"] = 0 => spent["reopens"] = 0
  BY UsedGrows DEF A!Bounds, A!Trouble
<1>3. ASSUME NEW v \in Evaluator, eval'[v] = eval[v], eval[v].pc = "create"
      PROVE  /\ eval'[v].seen <= Len(event')
             /\ spent'["reopens"] = 0 =>
                  \A i \in DOMAIN event' : i <= eval'[v].seen => event'[i].status \notin A!Open
  <2>1. eval[v].seen \in Nat /\ eval[v].seen <= Len(event)
    BY <1>0, <1>3 DEF Looked, A!Eval
  <2>2. ASSUME spent'["reopens"] = 0, NEW i \in DOMAIN event', i <= eval[v].seen
        PROVE  event'[i].status \notin A!Open
    <3>1. i \in DOMAIN event
      BY <1>0, <1>1, <2>1, <2>2
    <3> QED BY <1>1, <1>2, <1>3, <2>2, <3>1 DEF Looked
  <2> QED BY <1>0, <1>1, <1>3, <2>1, <2>2
<1>4. ASSUME NEW v \in Evaluator, eval'[v] # eval[v], eval'[v].pc = "create"
      PROVE  /\ eval'[v].seen <= Len(event')
             /\ spent'["reopens"] = 0 =>
                  \A i \in DOMAIN event' : i <= eval'[v].seen => event'[i].status \notin A!Open
  <2>1. PICK u \in Evaluator : A!Trigger(u) \/ A!Check(u) \/ A!Create(u) \/ A!Enqueue(u) \/ A!EvaluationCut(u)
    <3>1. eval' # eval
      BY <1>4
    <3> QED BY <3>1 DEF A!Next, A!vars, A!Evaluating, A!SetEventStatus, A!SendTest, A!Redeliver, A!Reclaim, A!Take,
                        A!Delivering, A!Record, A!Answer, A!Accept, A!Crash, A!Refuse, A!Lose
  <2>2. u = v
    BY <1>0, <1>4, <2>1, EvalFields
  <2>3. A!Check(v) /\ eval'[v] # A!NoEval
    BY <1>4, <2>1, <2>2, EvalFields DEF A!NoEval
  <2>4. /\ eval'[v].seen = Len(event) /\ event' = event
        /\ \A e \in DOMAIN event : event[e].status \notin A!Open
    BY <2>3, EvalFields DEF A!Check, A!Blocking
  <2> QED BY <1>0, <2>4
<1>5. Looked'
  BY <1>3, <1>4 DEF Looked
<1>6. ASSUME NEW i \in DOMAIN event', NEW j \in DOMAIN event', i < j,
             event'[i].status \in A!Open, event'[j].status \in A!Open, spent'["reopens"] = 0
      PROVE  event'[j].seen < i
  <2>1. CASE j \in DOMAIN event
    <3>1. i \in DOMAIN event
      BY <1>0, <1>1, <1>6, <2>1
    <3> QED BY <1>1, <1>2, <1>6, <2>1, <3>1 DEF A!OneOpenEvent
  <2>2. CASE j \notin DOMAIN event
    <3>1. PICK v \in Evaluator : A!Create(v)
      <4>1. ~A!SendTest
        BY <1>6, <2>2, TestFields DEF A!Open
      <4> QED BY <1>6, <2>2, <4>1, RowsStay
    <3>2. j = Len(event) + 1 /\ event'[j].seen = eval[v].seen
      BY <1>6, <2>2, <3>1, CreateFields
    <3>3. i \in DOMAIN event /\ event[i].status \in A!Open
      BY <1>0, <1>1, <1>6, <3>2
    <3>4. eval[v].pc = "create" /\ eval[v].seen \in Nat
      BY <1>0, <3>1 DEF A!Create, A!Eval
    <3>5. ~(i <= eval[v].seen)
      BY <1>2, <1>6, <3>3, <3>4 DEF Looked
    <3> QED BY <1>0, <3>2, <3>3, <3>4, <3>5
  <2> QED BY <2>1, <2>2
<1> QED BY <1>5, <1>6 DEF A!OneOpenEvent

-----------------------------------------------------------------------------
(* Jobs and executions                                                     *)

\* Who may change a job, and how.
LEMMA JobSteps ==
    ASSUME Apart, A!TypeOK, [A!Next]_A!vars, NEW e \in A!Events
    PROVE  \/ delivering'[e] = delivering[e]
           \/ /\ delivering'[e] = A!Added(delivering[e])
              /\ \E v \in Evaluator : A!Enqueue(v) /\ eval[v].event = e
           \/ \E w \in AlertWorker : A!Take(w, e) /\ delivering'[e] = A!Taken(delivering[e], w)
           \/ A!Reclaim(e) /\ delivering'[e] = A!Stalled(delivering[e])
           \/ \E x \in Execution :
                /\ A!Answer(x) /\ handler[x].event = e
                /\ handler[x].pc = "return" => delivering'[e] = A!Resolved(delivering[e], x)
                /\ handler[x].pc = "throw" => delivering'[e] = A!Rejected(delivering[e], x)
<1>0. delivering \in [A!Events -> A!Job]
  BY DEF A!TypeOK
<1>1. CASE \E v \in Evaluator : A!Enqueue(v)
  BY <1>0, <1>1 DEF A!Enqueue, A!JobKey
<1>2. CASE \E i \in A!Events : A!Reclaim(i) \/ \E w \in AlertWorker : A!Take(w, i)
  BY <1>0, <1>2 DEF A!Reclaim, A!Take
<1>3. ASSUME NEW x \in Execution, A!Answer(x)
      PROVE  \/ delivering'[e] = delivering[e]
             \/ /\ handler[x].event = e
                /\ handler[x].pc = "return" => delivering'[e] = A!Resolved(delivering[e], x)
                /\ handler[x].pc = "throw" => delivering'[e] = A!Rejected(delivering[e], x)
  BY <1>3, AnswerFields
<1>4. CASE delivering' = delivering
  BY <1>4
<1>5. \/ \E v \in Evaluator : A!Enqueue(v)
      \/ \E i \in A!Events : A!Reclaim(i) \/ \E w \in AlertWorker : A!Take(w, i)
      \/ \E x \in Execution : A!Answer(x)
      \/ delivering' = delivering
  BY DEF A!Next, A!vars, A!Trigger, A!Evaluating, A!Check, A!Create, A!EvaluationCut, A!SetEventStatus, A!SendTest,
         A!Redeliver, A!Delivering, A!Record, A!Accept, A!Crash, A!Refuse, A!Lose, Execution
<1> QED BY <1>1, <1>2, <1>3, <1>4, <1>5

\* Who may tell a channel of an event.
LEMMA SentSteps ==
    ASSUME A!TypeOK, [A!Next]_A!vars
    PROVE  \/ sent' = sent
           \/ \E x \in Execution, c \in Channel : (A!Accept(x, c) \/ A!Lose(x, c)) /\ A!Took(x, c)
BY DEF A!Next, A!vars, A!Trigger, A!Evaluating, A!Check, A!Create, A!Enqueue, A!EvaluationCut, A!SetEventStatus, A!SendTest,
       A!Redeliver, A!Reclaim, A!Take, A!Delivering, A!Record, A!Answer, A!Accept, A!Crash, A!Refuse, A!Lose, Execution

\* A job is only lost by its owner.
LEMMA AnswerJobs ==
    ASSUME Apart, A!TypeOK, Linked, Owned, NEW x \in Execution, A!Answer(x)
    PROVE  /\ \A e \in A!Events : e # handler[x].event => delivering'[e] = delivering[e]
           /\ x = Api => delivering' = delivering
           /\ x # Api => /\ delivering[handler[x].event].owner = x
                         /\ delivering[handler[x].event].state = "active"
                         /\ handler[x].pc = "return" => delivering'[handler[x].event].state = "completed"
                         /\ handler[x].pc = "throw" => delivering'[handler[x].event].state \in {"waiting", "failed"}
<1> DEFINE e == handler[x].event
<1>1. /\ handler[x].pc \in {"return", "throw"} /\ e \in A!Events
      /\ delivering \in [A!Events -> A!Job] /\ delivering' \in [A!Events -> A!Job]
      /\ \A i \in A!Events : i # e => delivering'[i] = delivering[i]
      /\ handler[x].pc = "return" => delivering'[e] = A!Resolved(delivering[e], x)
      /\ handler[x].pc = "throw" => delivering'[e] = A!Rejected(delivering[e], x)
  BY AnswerFields DEF A!TypeOK
<1>2. delivering[e] \in A!Job /\ x \in AlertWorker \union {Api}
  BY <1>1 DEF Execution
<1>3. CASE x = Api
  <2>1. delivering[e].owner # x
    BY <1>2, <1>3 DEF Apart, A!Job
  <2>2. delivering'[e] = delivering[e]
    BY <1>1, <1>2, <2>1, JobOps
  <2>3. \A i \in A!Events : delivering'[i] = delivering[i]
    BY <1>1, <2>2
  <2>4. delivering' = delivering
    BY <1>1, <2>3
  <2> QED BY <1>1, <1>3, <2>4
<1>4. CASE x # Api
  <2>1. x \in AlertWorker
    BY <1>2, <1>4
  <2>2. delivering[e].owner = x /\ delivering[e].state = "active"
    BY <1>1, <2>1 DEF Owned
  <2>3. /\ A!Resolved(delivering[e], x).state = "completed"
        /\ A!Rejected(delivering[e], x).state \in {"waiting", "failed"}
    <3>1. PICK j \in A!Job : j = delivering[e]
      BY <1>2
    <3>2. j.owner = x /\ x \in AlertWorker \union {Api}
      BY <1>2, <2>2, <3>1
    <3>3. A!Resolved(j, x).state = "completed"
      BY <3>2 DEF A!Resolved, A!Job
    <3>4. A!Rejected(j, x).state \in {"waiting", "failed"}
      BY <3>2 DEF A!Rejected, A!Job
    <3> QED BY <3>1, <3>3, <3>4
  <2> QED BY <1>1, <1>4, <2>2, <2>3
<1> QED BY <1>3, <1>4

\* A job that was queued is not forgotten.
LEMMA JobsStay ==
    ASSUME Apart, A!TypeOK, Linked, Owned, [A!Next]_A!vars, NEW e \in A!Events
    PROVE  /\ delivering[e].state = "none" => \/ delivering'[e] = delivering[e]
                                              \/ \E v \in Evaluator : A!Enqueue(v) /\ eval[v].event = e
           /\ delivering'[e].state = "active" => \/ delivering'[e] = delivering[e]
                                                 \/ \E w \in AlertWorker : A!Take(w, e) /\ delivering'[e].owner = w
<1>0. delivering[e] \in A!Job
  BY DEF A!TypeOK
<1>1. CASE delivering'[e] = delivering[e]
  BY <1>1
<1>2. CASE delivering'[e] = A!Added(delivering[e]) /\ \E v \in Evaluator : A!Enqueue(v) /\ eval[v].event = e
  <2>1. PICK j \in A!Job : j = delivering[e]
    BY <1>0
  <2>2. /\ A!Added(j).state = IF j.state = "none" THEN "waiting" ELSE j.state
        /\ j.state # "none" => A!Added(j) = j
    <3>1. Api \in AlertWorker \union {Api}
      OBVIOUS
    <3> QED BY <2>1, <3>1, JobOps
  <2> QED BY <1>2, <2>1, <2>2
<1>3. ASSUME NEW w \in AlertWorker, A!Take(w, e), delivering'[e] = A!Taken(delivering[e], w)
      PROVE  delivering[e].state # "none" /\ delivering'[e].owner = w
  <2>1. PICK j \in A!Job : j = delivering[e]
    BY <1>0
  <2>2. A!Taken(j, w).owner = w
    <3>1. w \in AlertWorker \union {Api}
      OBVIOUS
    <3> QED BY <2>1, <3>1, JobOps
  <2> QED BY <1>3, <2>1, <2>2 DEF A!Take
<1>4. CASE A!Reclaim(e) /\ delivering'[e] = A!Stalled(delivering[e])
  <2>1. Api \in AlertWorker \union {Api}
    OBVIOUS
  <2> QED BY <1>0, <1>4, <2>1, JobOps DEF A!Reclaim
<1>5. ASSUME NEW x \in Execution, A!Answer(x), handler[x].event = e
      PROVE  \/ delivering'[e] = delivering[e]
             \/ delivering[e].state # "none" /\ delivering'[e].state # "active"
  <2>1. handler[x].pc \in {"return", "throw"}
    BY <1>5 DEF A!Answer
  <2> QED BY <1>5, <2>1, AnswerJobs
<1> QED BY <1>1, <1>2, <1>3, <1>4, <1>5, JobSteps

\* Jobs are of alerts that fired, and channels hear of events there are.
LEMMA NextLinked ==
    ASSUME Apart, A!TypeOK, Linked, Owned, [A!Next]_A!vars
    PROVE  Linked'
<1>0. /\ Len(event) \in Nat /\ DOMAIN event = 1 .. Len(event) /\ DOMAIN event \subseteq A!Events
      /\ eval \in [Evaluator -> A!Eval] /\ delivering \in [A!Events -> A!Job]
      /\ sent \in [A!Events -> [Channel -> Nat]]
  BY DomainEvents DEF A!TypeOK
<1>1. /\ DOMAIN event \subseteq DOMAIN event'
      /\ \A i \in DOMAIN event : event'[i].test = event[i].test
  BY RowsStay
<1>2. ASSUME NEW v \in Evaluator, eval'[v].pc = "enqueue"
      PROVE  ~event'[eval'[v].event].test
  <2>1. CASE eval'[v] = eval[v]
    BY <1>1, <1>2, <2>1 DEF Linked, A!TypeOK
  <2>2. CASE eval'[v] # eval[v]
    <3>1. PICK u \in Evaluator : A!Trigger(u) \/ A!Check(u) \/ A!Create(u) \/ A!Enqueue(u) \/ A!EvaluationCut(u)
      <4>1. eval' # eval
        BY <2>2
      <4> QED BY <4>1 DEF A!Next, A!vars, A!Evaluating, A!SetEventStatus, A!SendTest, A!Redeliver, A!Reclaim, A!Take,
                          A!Delivering, A!Record, A!Answer, A!Accept, A!Crash, A!Refuse, A!Lose
    <3>2. u = v
      BY <1>0, <2>2, <3>1, EvalFields
    <3>3. A!Create(v)
      BY <1>2, <3>1, <3>2, EvalFields DEF A!NoEval
    <3> QED BY <3>3, EvalFields, CreateFields
  <2> QED BY <2>1, <2>2
<1>3. ASSUME NEW e \in A!Events, delivering'[e].state # "none"
      PROVE  ~event'[e].test
  <2>1. CASE delivering[e].state # "none"
    BY <1>1, <2>1 DEF Linked, A!TypeOK
  <2>2. CASE delivering[e].state = "none"
    <3>1. PICK v \in Evaluator : A!Enqueue(v) /\ eval[v].event = e
      BY <1>3, <2>2, JobsStay
    <3> QED BY <3>1 DEF A!Enqueue, Linked
  <2> QED BY <2>1, <2>2
<1>4. ASSUME NEW e \in A!Events, delivering'[e].state = "active"
      PROVE  delivering'[e].owner \in AlertWorker
  BY <1>4, JobsStay DEF Linked
<1>5. ASSUME NEW e \in A!Events \ DOMAIN event', NEW c \in Channel
      PROVE  sent'[e][c] = 0
  <2>1. sent[e][c] = 0
    BY <1>1, <1>5 DEF Linked
  <2>2. CASE sent' = sent
    BY <2>1, <2>2
  <2>3. ASSUME NEW x \in Execution, NEW d \in Channel, A!Accept(x, d) \/ A!Lose(x, d), A!Took(x, d)
        PROVE  sent'[e][c] = 0
    <3>1. handler[x].event \in DOMAIN event
      BY <2>3, TryFields
    <3>2. sent'[e] = sent[e]
      BY <1>0, <1>1, <1>5, <2>3, <3>1 DEF A!Took
    <3> QED BY <2>1, <3>2
  <2> QED BY <2>2, <2>3, SentSteps
<1> QED BY <1>2, <1>3, <1>4, <1>5 DEF Linked

\* At most one worker delivers an event, and its job is in its hands.
LEMMA NextOwned ==
    ASSUME Apart, A!TypeOK, Linked, Owned, [A!Next]_A!vars
    PROVE  Owned'
<1>0. handler \in [Execution -> A!Exec] /\ delivering \in [A!Events -> A!Job]
  BY DEF A!TypeOK, Execution
<1> SUFFICES ASSUME NEW w \in AlertWorker, handler'[w].pc # "idle"
             PROVE  /\ delivering'[handler'[w].event].state = "active"
                    /\ delivering'[handler'[w].event].owner = w
  BY DEF Owned
<1>00. w \in Execution /\ w # Api
  BY DEF Apart, Execution
<1>1. CASE \E e \in A!Events : A!Take(w, e)
  <2>1. PICK e \in A!Events : A!Take(w, e)
    BY <1>1
  <2>2. handler'[w].event = e /\ delivering'[e] = A!Taken(delivering[e], w)
    <3>1. e \in Nat
      BY DEF A!Events
    <3>2. handler'[w] = A!Begun(e) /\ delivering'[e] = A!Taken(delivering[e], w)
      BY <1>0, <1>00, <2>1 DEF A!Take
    <3> QED BY <3>1, <3>2, BegunFields
  <2>3. PICK j \in A!Job : j = delivering[e]
    BY <1>0
  <2>4. A!Taken(j, w).state = "active" /\ A!Taken(j, w).owner = w
    <3>1. w \in AlertWorker \union {Api}
      OBVIOUS
    <3> QED BY <2>3, <3>1, JobOps
  <2> QED BY <2>2, <2>3, <2>4
<1>2. CASE ~\E e \in A!Events : A!Take(w, e)
  <2>1. handler[w].pc # "idle" /\ handler'[w].event = handler[w].event
    <3>1. ASSUME NEW x \in Execution, NEW c \in Channel, A!Accept(x, c) \/ A!Refuse(x, c) \/ A!Lose(x, c)
          PROVE  handler[w].pc # "idle" /\ handler'[w].event = handler[w].event
      <4>1. CASE x = w
        BY <3>1, <4>1, TryFields
      <4>2. CASE x # w
        <5>1. handler'[w] = handler[w]
          BY <1>0, <1>00, <3>1, <4>2, TryFields
        <5> QED BY <5>1
      <4> QED BY <4>1, <4>2
    <3>2. ASSUME NEW x \in Execution, A!Record(x)
          PROVE  handler[w].pc # "idle" /\ handler'[w].event = handler[w].event
      <4>1. CASE x = w
        BY <3>2, <4>1, RecordFields
      <4>2. CASE x # w
        <5>1. handler'[w] = handler[w]
          BY <1>0, <1>00, <3>2, <4>2, RecordFields
        <5> QED BY <5>1
      <4> QED BY <4>1, <4>2
    <3>3. ASSUME NEW x \in Execution, A!Answer(x) \/ A!Crash(x)
          PROVE  handler[w].pc # "idle" /\ handler'[w].event = handler[w].event
      <4>1. handler' = [handler EXCEPT ![x] = A!Idle] /\ A!Idle.pc = "idle"
        BY <3>3 DEF A!Answer, A!Crash, A!Idle
      <4>2. handler'[w] = handler[w]
        BY <1>0, <1>00, <4>1
      <4> QED BY <4>2
    <3>4. ASSUME A!SendTest \/ \E e \in A!Events : A!Redeliver(e)
          PROVE  handler[w].pc # "idle" /\ handler'[w].event = handler[w].event
      <4>1. handler'[w] = handler[w]
        BY <1>0, <1>00, <3>4 DEF A!SendTest, A!Redeliver
      <4> QED BY <4>1
    <3>5. ASSUME NEW u \in AlertWorker, NEW e \in A!Events, A!Take(u, e)
          PROVE  handler[w].pc # "idle" /\ handler'[w].event = handler[w].event
      <4>1. handler'[w] = handler[w]
        BY <1>0, <1>00, <1>2, <3>5 DEF A!Take
      <4> QED BY <4>1
    <3>6. CASE handler' = handler
      BY <3>6
    <3> QED BY <3>1, <3>2, <3>3, <3>4, <3>5, <3>6
        DEF A!Next, A!vars, A!Trigger, A!Evaluating, A!Check, A!Create, A!Enqueue, A!EvaluationCut, A!SetEventStatus,
            A!Reclaim, A!Delivering, Execution
  <2> DEFINE e == handler[w].event
  <2>2. delivering[e].state = "active" /\ delivering[e].owner = w /\ e \in A!Events
    BY <2>1, <1>00, DomainEvents DEF Owned, A!TypeOK, Execution
  <2>3. delivering'[e] = delivering[e]
    <3>1. delivering[e] \in A!Job /\ Api \in AlertWorker \union {Api}
      BY <1>0, <2>2
    <3>2. A!Added(delivering[e]) = delivering[e]
      BY <2>2, <3>1, JobOps
    <3>3. \A u \in AlertWorker : ~A!Take(u, e)
      BY <2>2 DEF A!Take
    <3>4. ~A!Reclaim(e)
      BY <2>1, <2>2 DEF A!Reclaim
    <3>5. ASSUME NEW x \in Execution, A!Answer(x), handler[x].event = e
          PROVE  delivering'[e] = delivering[e]
      <4>1. CASE x = Api
        BY <3>5, <4>1, AnswerJobs
      <4>2. CASE x # Api
        <5>1. x = w
          BY <2>2, <3>5, <4>2, AnswerJobs
        <5>2. handler'[w].pc = "idle"
          BY <1>0, <1>00, <3>5, <5>1 DEF A!Answer, A!Idle
        <5> QED BY <5>2
      <4> QED BY <4>1, <4>2
    <3> QED BY <2>2, <3>2, <3>3, <3>4, <3>5, JobSteps
  <2> QED BY <2>1, <2>2, <2>3
<1> QED BY <1>1, <1>2

-----------------------------------------------------------------------------
(* What channels heard, and what is written of it                          *)

\* Who may change an execution, and how.
LEMMA ExecSteps ==
    ASSUME Apart, A!TypeOK, [A!Next]_A!vars, NEW x \in Execution
    PROVE  \/ handler'[x] = handler[x]
           \/ handler'[x].pc = "idle" /\ (A!Answer(x) \/ A!Crash(x))
           \/ /\ handler[x].pc = "idle"
              /\ handler'[x].pc = "send" /\ handler'[x].todo = Channel /\ handler'[x].ok = {}
              /\ \/ A!SendTest /\ x = Api
                 \/ \E e \in A!Events : A!Redeliver(e) /\ x = Api
                 \/ \E e \in A!Events : A!Take(x, e) /\ x \in AlertWorker
           \/ A!Record(x)
           \/ \E c \in Channel : A!Accept(x, c) \/ A!Refuse(x, c) \/ A!Lose(x, c)
<1>0. handler \in [Execution -> A!Exec] /\ Len(event) + 1 \in Nat
  BY DEF A!TypeOK, Execution
<1>1. ASSUME NEW y \in Execution,
             A!Record(y) \/ \E c \in Channel : A!Accept(y, c) \/ A!Refuse(y, c) \/ A!Lose(y, c)
      PROVE  y = x \/ handler'[x] = handler[x]
  <2>1. handler' = [handler EXCEPT ![y] = handler'[y]]
    BY <1>1, RecordFields, TryFields
  <2> QED BY <1>0, <2>1
<1>2. ASSUME NEW y \in Execution, A!Answer(y) \/ A!Crash(y)
      PROVE  IF y = x THEN handler'[x].pc = "idle" ELSE handler'[x] = handler[x]
  <2>1. handler' = [handler EXCEPT ![y] = A!Idle] /\ A!Idle.pc = "idle"
    BY <1>2 DEF A!Answer, A!Crash, A!Idle
  <2> QED BY <1>0, <2>1
<1>3. ASSUME NEW y \in Execution, NEW e \in Nat, handler[y].pc = "idle",
             handler' = [handler EXCEPT ![y] = A!Begun(e)]
      PROVE  IF y = x THEN /\ handler[x].pc = "idle"
                           /\ handler'[x].pc = "send" /\ handler'[x].todo = Channel /\ handler'[x].ok = {}
                      ELSE handler'[x] = handler[x]
  <2>1. handler'[y] = A!Begun(e) /\ (x # y => handler'[x] = handler[x])
    BY <1>0, <1>3
  <2> QED BY <1>3, <2>1, BegunFields
<1>4. CASE A!SendTest
  <2>1. PICK n \in Nat : n = Len(event) + 1
    BY <1>0
  <2>2. Api \in Execution /\ handler[Api].pc = "idle" /\ handler' = [handler EXCEPT ![Api] = A!Begun(n)]
    BY <1>4, <2>1 DEF A!SendTest, Execution
  <2> QED BY <1>3, <1>4, <2>2
<1>5. ASSUME NEW e \in A!Events, A!Redeliver(e)
      PROVE  handler'[x] = handler[x] \/
             (/\ x = Api /\ handler[x].pc = "idle"
              /\ handler'[x].pc = "send" /\ handler'[x].todo = Channel /\ handler'[x].ok = {})
  <2>1. Api \in Execution /\ handler[Api].pc = "idle" /\ handler' = [handler EXCEPT ![Api] = A!Begun(e)] /\ e \in Nat
    BY <1>5 DEF A!Redeliver, Execution, A!Events
  <2> QED BY <1>3, <2>1
<1>6. ASSUME NEW e \in A!Events, NEW w \in AlertWorker, A!Take(w, e)
      PROVE  handler'[x] = handler[x] \/
             (/\ x = w /\ handler[x].pc = "idle"
              /\ handler'[x].pc = "send" /\ handler'[x].todo = Channel /\ handler'[x].ok = {})
  <2>1. w \in Execution /\ handler[w].pc = "idle" /\ handler' = [handler EXCEPT ![w] = A!Begun(e)] /\ e \in Nat
    BY <1>6 DEF A!Take, Execution, A!Events
  <2> QED BY <1>3, <2>1
<1>7. CASE handler' = handler
  BY <1>7
<1>8. \/ handler' = handler
      \/ A!SendTest
      \/ \E e \in A!Events : A!Redeliver(e) \/ \E w \in AlertWorker : A!Take(w, e)
      \/ \E y \in Execution :
           \/ A!Answer(y) \/ A!Crash(y) \/ A!Record(y)
           \/ \E c \in Channel : A!Accept(y, c) \/ A!Refuse(y, c) \/ A!Lose(y, c)
  BY DEF A!Next, A!vars, A!Trigger, A!Evaluating, A!Check, A!Create, A!Enqueue, A!EvaluationCut, A!SetEventStatus,
         A!Reclaim, A!Delivering, Execution
<1> QED BY <1>1, <1>2, <1>4, <1>5, <1>6, <1>7, <1>8

\* What was heard is not unheard, and only the event in hand is heard of.
LEMMA SentGrows ==
    ASSUME Apart, A!TypeOK, [A!Next]_A!vars, NEW e \in A!Events, NEW c \in Channel
    PROVE  /\ sent[e][c] \in Nat /\ sent'[e][c] \in Nat /\ sent[e][c] <= sent'[e][c]
           /\ \/ sent'[e][c] = sent[e][c]
              \/ \E x \in Execution : /\ (A!Accept(x, c) \/ A!Lose(x, c)) /\ handler[x].event = e
                                      /\ sent'[e][c] = sent[e][c] + 1
<1>0. sent \in [A!Events -> [Channel -> Nat]]
  BY DEF A!TypeOK
<1>00. sent[e] \in [Channel -> Nat] /\ sent[e][c] \in Nat
  BY <1>0
<1>1. CASE sent' = sent
  BY <1>00, <1>1
<1>2. ASSUME NEW x \in Execution, NEW d \in Channel, A!Took(x, d), A!Accept(x, d) \/ A!Lose(x, d)
      PROVE  IF handler[x].event = e /\ d = c THEN sent'[e][c] = sent[e][c] + 1
                                              ELSE sent'[e][c] = sent[e][c]
  <2>1. handler[x].event \in A!Events
    BY <1>2, TryFields, DomainEvents
  <2> QED BY <1>0, <1>00, <1>2, <2>1 DEF A!Took
<1> QED BY <1>00, <1>1, <1>2, SentSteps

\* An acknowledgement stays one of a channel that took the alert.
LEMMA NextAcked ==
    ASSUME Apart, A!TypeOK, Acked, [A!Next]_A!vars
    PROVE  Acked'
<1> SUFFICES ASSUME NEW x \in Execution, handler'[x].pc # "idle"
             PROVE  /\ \A c \in handler'[x].ok : sent'[handler'[x].event][c] > 0
                    /\ handler'[x].pc = "throw" => handler'[x].ok = {}
                    /\ handler'[x].pc = "return" => handler'[x].ok # {} \/ Channel = {}
  BY DEF Acked
<1>0. handler[x] \in A!Exec /\ (handler[x].pc # "idle" => handler[x].event \in A!Events)
  BY DomainEvents DEF A!TypeOK, Execution
<1>1. ASSUME handler[x].pc # "idle", NEW c \in handler[x].ok
      PROVE  sent'[handler[x].event][c] > 0
  <2>1. PICK e \in A!Events : e = handler[x].event
    BY <1>0, <1>1
  <2>2. c \in Channel
    BY <1>0, <1>1 DEF A!Exec
  <2>3. sent[e][c] > 0
    BY <1>1, <2>1 DEF Acked
  <2>4. sent[e][c] \in Nat /\ sent'[e][c] \in Nat /\ sent[e][c] <= sent'[e][c]
    BY <2>2, SentGrows
  <2> QED BY <2>1, <2>3, <2>4
<1>2. CASE handler'[x] = handler[x]
  BY <1>1, <1>2 DEF Acked
<1>3. CASE handler'[x].pc = "send" /\ handler'[x].ok = {}
  BY <1>3
<1>4. CASE A!Record(x)
  BY <1>1, <1>4, RecordFields DEF A!Delivered
<1>5. ASSUME NEW c \in Channel, A!Accept(x, c) \/ A!Refuse(x, c) \/ A!Lose(x, c)
      PROVE  /\ handler'[x].pc = "send"
             /\ \A d \in handler'[x].ok : sent'[handler'[x].event][d] > 0
  <2>1. /\ handler[x].pc = "send" /\ handler'[x].pc = "send" /\ handler'[x].event = handler[x].event
        /\ handler'[x].ok = IF A!Accept(x, c) THEN handler[x].ok \union {c} ELSE handler[x].ok
        /\ handler[x].event \in A!Events
    BY <1>5, TryFields, DomainEvents
  <2>2. A!Accept(x, c) => sent'[handler[x].event][c] > 0
    <3>1. ASSUME A!Accept(x, c)
          PROVE  sent'[handler[x].event][c] > 0
      <4>1. sent \in [A!Events -> [Channel -> Nat]] /\ A!Took(x, c)
        BY <3>1 DEF A!Accept, A!TypeOK
      <4>2. sent[handler[x].event] \in [Channel -> Nat]
        BY <2>1, <4>1
      <4>3. sent[handler[x].event][c] \in Nat
        BY <4>2
      <4>4. sent'[handler[x].event][c] = sent[handler[x].event][c] + 1
        BY <2>1, <4>1, <4>2 DEF A!Took
      <4> QED BY <4>3, <4>4
    <3> QED BY <3>1
  <2> QED BY <1>1, <2>1, <2>2
<1> QED BY <1>2, <1>3, <1>4, <1>5, ExecSteps

\* The reasons for hearing again are counted.
LEMMA BrokenGrows ==
    ASSUME A!TypeOK, [A!Next]_A!vars
    PROVE  /\ Broken \in Nat /\ Broken' \in Nat /\ Broken <= Broken'
           /\ A!Spend("crashes") \/ A!Spend("lost") \/ A!Spend("redeliveries") => Broken' = Broken + 1
           /\ A!Spend("crashes") => ~A!Spend("redeliveries")
           /\ spent' = spent => ~A!Spend("crashes") /\ ~A!Spend("redeliveries")
           /\ A!Spend("lost") => ~A!Spend("crashes") /\ ~A!Spend("redeliveries")
<1>1. \A b \in {"crashes", "lost", "redeliveries"} :
         spent[b] \in Nat /\ spent'[b] \in Nat /\ spent[b] <= spent'[b]
  BY UsedGrows DEF A!Bounds, A!Trouble
<1>2. \A b \in {"crashes", "lost", "redeliveries"} :
         A!Spend(b) => /\ spent'[b] = spent[b] + 1
                       /\ \A d \in {"crashes", "lost", "redeliveries"} \ {b} : spent'[d] = spent[d]
  BY SpendCounts DEF A!TypeOK, A!Bounds, A!Trouble
<1> QED BY <1>1, <1>2 DEF Broken

\* Without a crash a job is to have a channel take the alert only if it was to before.
LEMMA DueSteps ==
    ASSUME Apart, A!TypeOK, Linked, Owned, Acked, [A!Next]_A!vars,
           NEW e \in DOMAIN event, NEW c \in Channel, Due(e, c)',
           \A x \in Execution : ~A!Crash(x)
    PROVE  Due(e, c)
<1>0. /\ e \in A!Events /\ event'[e].test = event[e].test
      /\ \A x \in Execution : handler[x].pc # "idle" => handler[x].event \in A!Events
  BY DomainEvents, RowsStay DEF A!TypeOK, Execution
<1>1. CASE delivering'[e] = delivering[e]
  <2>1. CASE delivering[e].state = "active"
    <3> DEFINE o == delivering[e].owner
    <3>1. o \in AlertWorker /\ o \in Execution /\ o # Api
      BY <1>0, <2>1 DEF Linked, Apart, Execution
    <3>2. CASE ~Runs(o, e)
      BY <2>1, <3>2 DEF Due
    <3>3. CASE Runs(o, e)
      <4>1. CASE handler'[o] = handler[o]
        BY <1>1, <2>1, <3>3, <4>1 DEF Due, Runs
      <4>2. ~A!Answer(o)
        <5>1. A!Answer(o) => delivering'[e].state # "active"
          BY <3>1, <3>3, AnswerJobs DEF Runs, A!Answer
        <5> QED BY <1>1, <2>1, <5>1
      <4>3. CASE A!Record(o)
        <5>1. /\ handler[o].pc = "send" /\ handler'[o].ok = handler[o].ok /\ handler'[o].event = handler[o].event
              /\ handler'[o].pc \in {"return", "throw"}
          BY <3>1, <4>3, RecordFields
        <5> QED BY <1>1, <2>1, <3>3, <5>1 DEF Due, Runs
      <4>4. ASSUME NEW d \in Channel, A!Accept(o, d) \/ A!Refuse(o, d) \/ A!Lose(o, d)
            PROVE  Due(e, c)
        <5>1. /\ handler[o].pc = "send" /\ handler'[o].pc = "send" /\ handler'[o].event = handler[o].event
              /\ handler'[o].todo \in {handler[o].todo, handler[o].todo \ {d}}
              /\ handler'[o].ok \in {handler[o].ok, handler[o].ok \union {d}}
          BY <3>1, <4>4, TryFields
        <5> QED BY <1>1, <2>1, <3>3, <5>1 DEF Due, Runs
      <4>5. handler[o].pc # "idle"
        BY <3>3 DEF Runs
      <4> QED BY <3>1, <4>1, <4>2, <4>3, <4>4, <4>5, ExecSteps
    <3> QED BY <3>2, <3>3
  <2>2. CASE delivering[e].state # "active"
    BY <1>0, <1>1, <2>2 DEF Due
  <2> QED BY <2>1, <2>2
<1>2. CASE delivering'[e] # delivering[e]
  <2>1. CASE delivering[e].state = "none"
    <3>1. PICK v \in Evaluator : A!Enqueue(v) /\ eval[v].event = e
      BY <1>0, <1>2, <2>1, JobsStay
    <3>2. ~event[e].test
      BY <3>1 DEF A!Enqueue, Linked
    <3> QED BY <2>1, <3>2 DEF Due
  <2>2. ASSUME NEW w \in AlertWorker, A!Take(w, e)
        PROVE  Due(e, c)
    BY <2>2 DEF A!Take, Due
  <2>3. CASE A!Reclaim(e)
    BY <2>3 DEF A!Reclaim, Due, Runs
  <2>4. ASSUME NEW x \in Execution, A!Answer(x), handler[x].event = e
        PROVE  Due(e, c)
    <3>1. x # Api
      BY <1>2, <2>4, AnswerJobs
    <3>2. /\ delivering[e].owner = x /\ delivering[e].state = "active"
          /\ handler[x].pc \in {"return", "throw"}
          /\ handler[x].pc = "return" => delivering'[e].state = "completed"
          /\ handler[x].pc = "throw" => delivering'[e].state \in {"waiting", "failed"}
      <4>1. handler[x].pc \in {"return", "throw"}
        BY <2>4 DEF A!Answer
      <4> QED BY <2>4, <3>1, <4>1, AnswerJobs
    <3>3. handler[x].pc = "throw"
      BY <3>2 DEF Due
    <3>4. handler[x].ok = {}
      BY <3>3 DEF Acked
    <3> QED BY <3>2, <3>3, <3>4 DEF Due
  <2>5. CASE delivering[e].state # "none" /\ delivering'[e] = A!Added(delivering[e])
    <3>1. delivering'[e] = delivering[e]
      BY <2>5 DEF A!Added
    <3> QED BY <1>2, <3>1
  <2> QED BY <1>0, <1>2, <2>1, <2>2, <2>3, <2>4, <2>5, JobSteps
<1> QED BY <1>1, <1>2

\* The request is to have a channel take an alert again only if it was to before, or if a
\* member asked for it.
LEMMA InlineSteps ==
    ASSUME Apart, A!TypeOK, [A!Next]_A!vars, NEW e \in DOMAIN event, NEW c \in Channel, Inline(e, c)',
           \A i \in A!Events : ~A!Redeliver(i)
    PROVE  Inline(e, c)
<1>0. Api \in Execution /\ Api \notin AlertWorker /\ handler \in [Execution -> A!Exec]
  BY DEF Apart, Execution, A!TypeOK
<1>1. CASE handler'[Api] = handler[Api]
  BY <1>1 DEF Inline
<1>2. ~A!SendTest
  <2>1. ASSUME A!SendTest
        PROVE  handler'[Api].event # e
    <3>1. PICK n \in Nat : n = Len(event) + 1
      BY <2>1, TestFields
    <3>2. handler'[Api] = A!Begun(n)
      BY <1>0, <2>1, <3>1, TestFields
    <3>3. n \notin DOMAIN event
      BY <2>1, <3>1, TestFields
    <3> QED BY <3>2, <3>3, BegunFields
  <2> QED BY <2>1 DEF Inline
<1>3. ~A!Record(Api)
  BY <1>0, RecordFields DEF Inline
<1>4. ASSUME NEW d \in Channel, A!Accept(Api, d) \/ A!Refuse(Api, d) \/ A!Lose(Api, d)
      PROVE  Inline(e, c)
  <2>1. /\ handler[Api].pc = "send" /\ handler'[Api].event = handler[Api].event
        /\ handler'[Api].todo \in {handler[Api].todo, handler[Api].todo \ {d}}
    BY <1>0, <1>4, TryFields
  <2> QED BY <2>1 DEF Inline
<1>5. handler'[Api].pc # "idle"
  BY DEF Inline
<1> QED BY <1>0, <1>1, <1>2, <1>3, <1>4, <1>5, ExecSteps

\* A channel hears of an event once more only if that was to come, or for a reason.
LEMMA NextAccounted ==
    ASSUME Apart, A!TypeOK, Linked, Owned, Acked, Accounted, [A!Next]_A!vars, A!TypeOK'
    PROVE  Accounted'
<1>0. /\ DOMAIN event \subseteq A!Events /\ DOMAIN event = 1 .. Len(event) /\ Len(event) \in Nat
      /\ handler \in [Execution -> A!Exec] /\ Api \in Execution /\ Api \notin AlertWorker
      /\ \A x \in Execution : handler[x].pc # "idle" => handler[x].event \in DOMAIN event
  BY DomainEvents DEF A!TypeOK, Execution, Apart
<1>00. DOMAIN event' \subseteq A!Events
  <2>1. DOMAIN event' = 1 .. Len(event') /\ Len(event') <= MaxEvents /\ Len(event') \in Nat
    BY RowsStay DEF A!TypeOK
  <2> QED BY <2>1 DEF Apart, A!Events
<1>B. Broken \in Nat /\ Broken' \in Nat /\ Broken <= Broken'
  BY BrokenGrows
<1> SUFFICES ASSUME NEW e \in DOMAIN event', NEW c \in Channel
             PROVE  Account(e, c)' <= 1 + Broken'
  BY DEF Accounted
<1>S. e \in A!Events /\ sent[e][c] \in Nat /\ sent'[e][c] \in Nat
  BY <1>00, SentGrows
<1>1. CASE e \notin DOMAIN event
  <2>1. sent[e][c] = 0
    BY <1>1, <1>S DEF Linked
  <2>2. sent'[e][c] = 0
    <3>1. \A x \in Execution : \A d \in Channel : A!Accept(x, d) \/ A!Lose(x, d) => handler[x].event # e
      BY <1>1, TryFields
    <3> QED BY <1>S, <2>1, <3>1, SentGrows
  <2>3. delivering[e].state = "none"
    BY <1>1, <1>S DEF A!TypeOK
  <2>4. CASE \E v \in Evaluator : A!Create(v)
    <3>1. handler' = handler
      BY <2>4, CreateFields
    <3>2. ~Inline(e, c)'
      BY <1>0, <1>1, <3>1 DEF Inline
    <3>3. Account(e, c)' \in {0, 1}
      BY <2>2, <3>2 DEF Account
    <3> QED BY <1>B, <3>3
  <2>5. CASE A!SendTest
    <3>1. delivering' = delivering /\ event'[e].test
      BY <1>1, <2>5, TestFields
    <3>2. ~Due(e, c)'
      BY <2>3, <3>1 DEF Due
    <3>3. Account(e, c)' \in {0, 1}
      BY <2>2, <3>2 DEF Account
    <3> QED BY <1>B, <3>3
  <2> QED BY <1>1, <2>4, <2>5, RowsStay
<1>2. CASE e \in DOMAIN event
  <2>0. Account(e, c) <= 1 + Broken
    BY <1>2 DEF Accounted
  <2>1. ASSUME NEW x \in Execution, A!Accept(x, c), handler[x].event = e, sent'[e][c] = sent[e][c] + 1
        PROVE  Account(e, c)' <= 1 + Broken'
    <3>1. /\ handler[x].pc = "send" /\ c \in handler[x].todo
          /\ handler' = [handler EXCEPT ![x] = handler'[x]]
          /\ handler'[x].pc = "send" /\ handler'[x].event = e
          /\ handler'[x].todo = handler[x].todo \ {c} /\ handler'[x].ok = handler[x].ok \union {c}
          /\ spent' = spent /\ delivering' = delivering
      BY <2>1, TryFields
    <3>2. (\A y \in Execution : ~A!Crash(y)) /\ (\A i \in A!Events : ~A!Redeliver(i))
      BY <3>1, BrokenGrows DEF A!Crash, A!Redeliver
    <3>3. Due(e, c)' => Due(e, c)
      BY <1>2, <3>2, DueSteps
    <3>4. Inline(e, c)' => Inline(e, c)
      BY <1>2, <3>2, InlineSteps
    <3>5. CASE x = Api
      <4>1. Inline(e, c) /\ ~Inline(e, c)'
        BY <2>1, <3>1, <3>5 DEF Inline
      <4> QED BY <1>B, <1>S, <2>0, <2>1, <3>3, <4>1 DEF Account
    <3>6. CASE x # Api
      <4>1. delivering[e].state = "active" /\ delivering[e].owner = x
        BY <2>1, <3>1, <3>6 DEF Owned, Execution
      <4>2. Due(e, c)
        BY <2>1, <3>1, <4>1 DEF Due
      <4>3. ~Due(e, c)'
        BY <3>1, <4>1 DEF Due, Runs
      <4> QED BY <1>B, <1>S, <2>0, <2>1, <3>4, <4>2, <4>3 DEF Account
    <3> QED BY <3>5, <3>6
  <2>2. ASSUME NEW x \in Execution, A!Lose(x, c), sent'[e][c] = sent[e][c] + 1
        PROVE  Account(e, c)' <= 1 + Broken'
    <3>1. A!Spend("lost")
      BY <2>2, TryFields
    <3>2. (\A y \in Execution : ~A!Crash(y)) /\ (\A i \in A!Events : ~A!Redeliver(i))
      BY <3>1, BrokenGrows DEF A!Crash, A!Redeliver
    <3>3. Due(e, c)' => Due(e, c)
      BY <1>2, <3>2, DueSteps
    <3>4. Inline(e, c)' => Inline(e, c)
      BY <1>2, <3>2, InlineSteps
    <3>5. Broken' = Broken + 1
      BY <3>1, BrokenGrows
    <3> QED BY <1>B, <1>S, <2>0, <2>2, <3>3, <3>4, <3>5 DEF Account
  <2>3. CASE sent'[e][c] = sent[e][c]
    <3>1. CASE \E x \in Execution : A!Crash(x)
      <4>1. A!Spend("crashes")
        BY <3>1 DEF A!Crash
      <4>2. Broken' = Broken + 1 /\ \A i \in A!Events : ~A!Redeliver(i)
        BY <4>1, BrokenGrows DEF A!Redeliver
      <4>3. Inline(e, c)' => Inline(e, c)
        BY <1>2, <4>2, InlineSteps
      <4> QED BY <1>B, <1>S, <2>0, <2>3, <4>2, <4>3 DEF Account
    <3>2. CASE \E i \in A!Events : A!Redeliver(i)
      <4>1. A!Spend("redeliveries")
        BY <3>2 DEF A!Redeliver
      <4>2. Broken' = Broken + 1 /\ \A x \in Execution : ~A!Crash(x)
        BY <4>1, BrokenGrows DEF A!Crash
      <4>3. Due(e, c)' => Due(e, c)
        BY <1>2, <4>2, DueSteps
      <4> QED BY <1>B, <1>S, <2>0, <2>3, <4>2, <4>3 DEF Account
    <3>3. CASE (\A x \in Execution : ~A!Crash(x)) /\ (\A i \in A!Events : ~A!Redeliver(i))
      <4>1. Due(e, c)' => Due(e, c)
        BY <1>2, <3>3, DueSteps
      <4>2. Inline(e, c)' => Inline(e, c)
        BY <1>2, <3>3, InlineSteps
      <4> QED BY <1>B, <1>S, <2>0, <2>3, <4>1, <4>2 DEF Account
    <3> QED BY <3>1, <3>2, <3>3
  <2> QED BY <1>S, <2>1, <2>2, <2>3, SentGrows
<1> QED BY <1>1, <1>2

\* What is written of an event is what was heard of it.
LEMMA NextTold ==
    ASSUME Apart, A!TypeOK, Linked, Owned, Acked, Accounted, Told, [A!Next]_A!vars, A!TypeOK'
    PROVE  Told'
<1>0. /\ DOMAIN event \subseteq A!Events /\ DOMAIN event = 1 .. Len(event) /\ Len(event) \in Nat
      /\ handler \in [Execution -> A!Exec] /\ Api \in Execution /\ Api \notin AlertWorker
      /\ \A x \in Execution : handler[x].pc # "idle" => handler[x].event \in DOMAIN event
  BY DomainEvents DEF A!TypeOK, Execution, Apart
<1>00. DOMAIN event' \subseteq A!Events
  <2>1. DOMAIN event' = 1 .. Len(event') /\ Len(event') <= MaxEvents /\ Len(event') \in Nat
    BY RowsStay DEF A!TypeOK
  <2> QED BY <2>1 DEF Apart, A!Events
<1>B. /\ Broken \in Nat /\ Broken' \in Nat /\ Broken <= Broken'
      /\ Broken' = 0 => ~A!Spend("crashes") /\ ~A!Spend("lost") /\ ~A!Spend("redeliveries")
  BY BrokenGrows
<1> SUFFICES ASSUME NEW e \in DOMAIN event'
             PROVE  /\ event'[e].delivered => A!Heard(e)' \/ Channel = {}
                    /\ Broken' = 0 =>
                         /\ A!Heard(e)' => \/ event'[e].delivered
                                           \/ \E x \in Execution :
                                                Runs(x, e)' /\ handler'[x].pc = "send" /\ handler'[x].ok # {}
                         /\ Runs(Api, e)' => event'[e].test
                         /\ Runs(Api, e)' /\ handler'[Api].pc = "send" => ~event'[e].delivered
  BY DEF Told
<1>S. /\ e \in A!Events
      /\ \A c \in Channel : sent[e][c] \in Nat /\ sent'[e][c] \in Nat /\ sent[e][c] <= sent'[e][c]
  BY <1>00, SentGrows
<1>1. CASE e \notin DOMAIN event
  <2>1. ~A!Heard(e)'
    <3>1. ASSUME NEW c \in Channel
          PROVE  ~(sent'[e][c] > 0)
      <4>1. sent[e][c] = 0
        BY <1>1, <1>S DEF Linked
      <4>2. \A x \in Execution : A!Accept(x, c) \/ A!Lose(x, c) => handler[x].event # e
        BY <1>1, TryFields
      <4> QED BY <1>S, <4>1, <4>2, SentGrows
    <3> QED BY <3>1 DEF A!Heard
  <2>2. CASE \E v \in Evaluator : A!Create(v)
    <3>1. handler' = handler /\ ~event'[e].delivered
      BY <1>1, <2>2, CreateFields
    <3>2. ~Runs(Api, e)'
      BY <1>0, <1>1, <3>1 DEF Runs
    <3> QED BY <2>1, <3>1, <3>2
  <2>3. CASE A!SendTest
    <3>1. event'[e].test /\ ~event'[e].delivered
      BY <1>1, <2>3, TestFields
    <3> QED BY <2>1, <3>1
  <2> QED BY <1>1, <2>2, <2>3, RowsStay
<1>2. CASE e \in DOMAIN event
  <2>0. /\ event'[e].test = event[e].test
        /\ (\A x \in Execution : ~(A!Record(x) /\ handler[x].event = e))
             => event'[e].delivered = event[e].delivered
    BY <1>2, RowsStay
  <2>1. A!Heard(e) => A!Heard(e)'
    BY <1>S DEF A!Heard
  <2>2. event'[e].delivered => A!Heard(e)' \/ Channel = {}
    <3>1. ASSUME NEW x \in Execution, A!Record(x), handler[x].event = e
          PROVE  event'[e].delivered => A!Heard(e)' \/ Channel = {}
      <4>1. event'[e].delivered = A!Delivered(handler[x]) /\ handler[x].pc = "send"
        BY <3>1, RecordFields
      <4>2. handler[x].ok \subseteq Channel /\ \A c \in handler[x].ok : sent[e][c] > 0
        BY <3>1, <4>1 DEF Acked, A!TypeOK, Execution
      <4>3. A!Delivered(handler[x]) => A!Heard(e) \/ Channel = {}
        BY <4>2 DEF A!Delivered, A!Heard
      <4> QED BY <2>1, <4>1, <4>3
    <3> QED BY <1>2, <2>0, <2>1, <3>1 DEF Told
  <2> SUFFICES ASSUME Broken' = 0
               PROVE  /\ A!Heard(e)' => \/ event'[e].delivered
                                        \/ \E x \in Execution :
                                             Runs(x, e)' /\ handler'[x].pc = "send" /\ handler'[x].ok # {}
                      /\ Runs(Api, e)' => event'[e].test
                      /\ Runs(Api, e)' /\ handler'[Api].pc = "send" => ~event'[e].delivered
    BY <2>2
  <2>3. /\ Broken = 0
        /\ \A x \in Execution : ~A!Crash(x) /\ \A c \in Channel : ~A!Lose(x, c)
        /\ \A i \in A!Events : ~A!Redeliver(i)
    BY <1>B DEF A!Crash, A!Lose, A!Redeliver
  <2>4. /\ A!Heard(e) => \/ event[e].delivered
                         \/ \E x \in Execution : Runs(x, e) /\ handler[x].pc = "send" /\ handler[x].ok # {}
        /\ Runs(Api, e) => event[e].test
        /\ Runs(Api, e) /\ handler[Api].pc = "send" => ~event[e].delivered
    BY <1>2, <2>3 DEF Told
  <2>5. \A w \in AlertWorker : Runs(w, e) => ~event[e].test /\ delivering[e].state = "active" /\ delivering[e].owner = w
    BY <1>S DEF Owned, Linked, Runs
  <2>6. ASSUME NEW x \in Execution, A!Record(x), handler[x].event = e, A!Heard(e)
        PROVE  handler[x].ok # {}
    <3>0. Runs(x, e) /\ handler[x].pc = "send"
      BY <2>6, RecordFields DEF Runs
    <3>1. CASE x = Api
      <4>1. event[e].test /\ ~event[e].delivered
        BY <2>4, <3>0, <3>1
      <4>2. PICK y \in Execution : Runs(y, e) /\ handler[y].ok # {}
        BY <2>4, <2>6, <4>1
      <4>3. y = Api
        BY <2>5, <4>1, <4>2 DEF Execution
      <4> QED BY <3>1, <4>2, <4>3
    <3>2. CASE x # Api
      <4>1. x \in AlertWorker /\ delivering[e].state = "active" /\ delivering[e].owner = x
        BY <2>5, <3>0, <3>2 DEF Execution
      <4>2. PICK c \in Channel : sent[e][c] > 0
        BY <2>6 DEF A!Heard
      <4>3. Account(e, c) <= 1 + Broken
        BY <1>2 DEF Accounted
      <4>4. ~Due(e, c)
        BY <1>S, <2>3, <4>2, <4>3 DEF Account
      <4> QED BY <3>0, <4>1, <4>4 DEF Due
    <3> QED BY <3>1, <3>2
  <2>7. ASSUME NEW x \in Execution, A!Record(x), handler[x].event = e
        PROVE  event'[e].delivered = A!Delivered(handler[x]) /\ handler'[x].pc # "send"
    BY <2>7, RecordFields
  <2>8. ASSUME A!Heard(e)'
        PROVE  \/ event'[e].delivered
               \/ \E x \in Execution : Runs(x, e)' /\ handler'[x].pc = "send" /\ handler'[x].ok # {}
    <3>1. PICK c \in Channel : sent'[e][c] > 0
      BY <2>8 DEF A!Heard
    <3>2. ASSUME NEW x \in Execution, A!Accept(x, c), handler[x].event = e
          PROVE  Runs(x, e)' /\ handler'[x].pc = "send" /\ handler'[x].ok # {}
      BY <3>2, TryFields DEF Runs
    <3>3. CASE sent'[e][c] = sent[e][c]
      <4>0. A!Heard(e)
        BY <3>1, <3>3 DEF A!Heard
      <4>1. CASE \E x \in Execution : A!Record(x) /\ handler[x].event = e
        BY <2>6, <2>7, <4>0, <4>1 DEF A!Delivered
      <4>2. CASE ~\E x \in Execution : A!Record(x) /\ handler[x].event = e
        <5>1. CASE event[e].delivered
          BY <2>0, <4>2, <5>1
        <5>2. CASE ~event[e].delivered
          <6>1. PICK y \in Execution : Runs(y, e) /\ handler[y].pc = "send" /\ handler[y].ok # {}
            BY <2>4, <4>0, <5>2
          <6>2. CASE handler'[y] = handler[y]
            BY <6>1, <6>2 DEF Runs
          <6>3. ~(A!Answer(y) \/ A!Crash(y)) /\ handler[y].pc # "idle" /\ ~A!Record(y)
            BY <2>3, <4>2, <6>1 DEF A!Answer, Runs
          <6>4. ASSUME NEW d \in Channel, A!Accept(y, d) \/ A!Refuse(y, d) \/ A!Lose(y, d)
                PROVE  Runs(y, e)' /\ handler'[y].pc = "send" /\ handler'[y].ok # {}
            <7>1. /\ handler'[y].pc = "send" /\ handler'[y].event = handler[y].event
                  /\ handler'[y].ok \in {handler[y].ok, handler[y].ok \union {d}}
              BY <6>4, TryFields
            <7> QED BY <6>1, <7>1 DEF Runs
          <6> QED BY <6>2, <6>3, <6>4, ExecSteps
        <5> QED BY <5>1, <5>2
      <4> QED BY <4>1, <4>2
    <3> QED BY <1>S, <2>3, <3>2, <3>3, SentGrows
  <2>9. ASSUME Runs(Api, e)'
        PROVE  event'[e].test /\ (handler'[Api].pc = "send" => ~event'[e].delivered)
    <3>1. ~A!SendTest
      <4>1. ASSUME A!SendTest
            PROVE  handler'[Api].event # e
        <5>1. PICK n \in Nat : n = Len(event) + 1
          BY <4>1, TestFields
        <5>2. handler'[Api] = A!Begun(n)
          BY <1>0, <4>1, <5>1, TestFields
        <5>3. n \notin DOMAIN event
          BY <4>1, <5>1, TestFields
        <5> QED BY <1>2, <5>2, <5>3, BegunFields
      <4> QED BY <2>9, <4>1 DEF Runs
    <3>2. Runs(Api, e) /\ (handler'[Api].pc = "send" => handler[Api].pc = "send")
      <4>1. ASSUME NEW d \in Channel, A!Accept(Api, d) \/ A!Refuse(Api, d) \/ A!Lose(Api, d)
            PROVE  handler'[Api].event = handler[Api].event /\ handler[Api].pc = "send"
        BY <1>0, <4>1, TryFields
      <4>2. A!Record(Api) => handler'[Api].event = handler[Api].event /\ handler[Api].pc = "send"
        BY <1>0, RecordFields
      <4>3. handler'[Api].pc # "idle"
        BY <2>9 DEF Runs
      <4> QED BY <1>0, <2>3, <2>9, <3>1, <4>1, <4>2, <4>3, ExecSteps DEF Runs
    <3>3. ASSUME handler'[Api].pc = "send", NEW x \in Execution, A!Record(x), handler[x].event = e
          PROVE  FALSE
      <4>1. x # Api
        BY <2>7, <3>3
      <4>2. Runs(x, e)
        BY <3>3, RecordFields DEF Runs
      <4> QED BY <2>4, <2>5, <3>2, <4>1, <4>2 DEF Execution
    <3> QED BY <2>0, <2>4, <3>2, <3>3
  <2> QED BY <2>8, <2>9
<1> QED BY <1>1, <1>2

-----------------------------------------------------------------------------
(* Theorems                                                                *)

\* Nothing happened, and the invariant holds.
LEMMA InitInv == Apart /\ A!Init => IInv
<1> SUFFICES ASSUME Apart, A!Init
             PROVE  IInv
  OBVIOUS
<1>1. /\ event = <<>> /\ Len(event) = 0 /\ DOMAIN event = {} /\ event \in Seq(A!Event)
      /\ \A v \in Evaluator : eval[v].pc = "idle"
      /\ \A e \in A!Events : delivering[e].state = "none"
      /\ \A x \in Execution : handler[x].pc = "idle" /\ handler[x].ok = {}
      /\ \A e \in A!Events, c \in Channel : sent[e][c] = 0
      /\ spent["events"] = 0
  BY DEF A!Init, A!NoEval, A!NoJob, A!Idle, Execution, A!Bounds
<1>2. A!TypeOK
  <2>1. A!NoEval \in A!Eval /\ A!NoJob \in A!Job /\ A!Idle \in A!Exec
    BY DEF A!NoEval, A!Eval, A!NoJob, A!Job, A!Idle, A!Exec
  <2> QED BY <1>1, <2>1 DEF A!Init, A!TypeOK, Apart, Execution
<1>3. Counted
  <2>1. Pending = {}
    BY <1>1 DEF Pending
  <2> QED BY <1>1, <2>1, FS_EmptySet DEF Counted, Apart
<1>4. Linked /\ Owned /\ Looked /\ A!OneOpenEvent /\ Acked
  BY <1>1 DEF Linked, Owned, Looked, A!OneOpenEvent, Acked, Execution
<1>5. Accounted /\ Told
  BY <1>1 DEF Accounted, Told
<1> QED BY <1>2, <1>3, <1>4, <1>5 DEF IInv

\* The types and the invariant hold in every state.
THEOREM AlertInvariance == ASSUME Apart PROVE A!Spec => []IInv
<1>1. IInv /\ [A!Next]_A!vars => IInv'
  BY Types, NextCounted, NextLinked, NextOwned, NextLooked, NextAcked, NextAccounted, NextTold DEF IInv
<1> QED BY <1>1, InitInv, PTL DEF A!Spec

\* Two events of a rule are open only if their evaluations overlapped or a member opened one
\* again; a channel hears of an alert once and once more for each crash, lost answer or
\* redelivery, whatever is refused and retried; and a row says that the alert was delivered
\* only if somebody heard of it, and does, without those, if somebody did.
THEOREM AlertsAreTruthful == ASSUME Apart PROVE A!Spec => []AlertsTruthful
<1>1. IInv => AlertsTruthful
  <2> SUFFICES ASSUME IInv
               PROVE  AlertsTruthful
    OBVIOUS
  <2>1. A!DeliveryTruthful
    BY DEF IInv, Told, A!DeliveryTruthful, Broken, A!InHand, Runs, Execution
  <2>2. A!RepeatsExplained
    <3> SUFFICES ASSUME NEW e \in DOMAIN event, NEW c \in Channel
                 PROVE  sent[e][c] <= 1 + Broken
      BY DEF A!RepeatsExplained, Broken, IInv, A!TypeOK, A!Bounds, A!Trouble
    <3>1. sent[e][c] \in Nat /\ Broken \in Nat
      <4>1. e \in A!Events
        BY DomainEvents DEF IInv
      <4>2. sent[e] \in [Channel -> Nat]
        BY <4>1 DEF IInv, A!TypeOK
      <4> QED BY <4>2 DEF IInv, A!TypeOK, Broken, A!Bounds, A!Trouble
    <3>2. Account(e, c) <= 1 + Broken
      BY DEF IInv, Accounted
    <3> QED BY <3>1, <3>2 DEF Account
  <2> QED BY <2>1, <2>2 DEF AlertsTruthful, A!AlertsTruthful, IInv
<1> QED BY <1>1, AlertInvariance, PTL
===============================================================================
