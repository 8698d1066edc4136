------------------------- MODULE CrawlFrontierProofs -------------------------
(***************************************************************************)
(* Theorems about the crawl frontier, for every set of rows, lanes and     *)
(* processes, every store answer and every bound.                          *)
(***************************************************************************)
EXTENDS CrawlFrontier, FiniteSetTheorems, TLAPS

\* Every claim a lane holds was handed out at or before the row's last claim.
ClaimBound ==
    \A l \in Lane : lane[l].pc \in Working => lane[l].claim <= task[lane[l].task].attempts

\* failTask's verdict is still right when it is written: attempts only grow.
VerdictJustified == \A l \in Lane : lane[l].pc = "bury" => Spent(task[lane[l].task])

\* The inductive invariant.  ClaimUnique alone is not inductive: a new claim is
\* fresh only because every claim in circulation is bounded by the row's counter.
IInv ==
    /\ TypeOK
    /\ ClaimBound
    /\ ClaimUnique
    /\ VerdictJustified
    /\ BuriedOnlyWhenSpent

-----------------------------------------------------------------------------

\* A row that goes back to the queue keeps its counters, and enters it once.
LEMMA RequeuedRow ==
    ASSUME NEW row \in Row
    PROVE  /\ Requeued(row) \in Row
           /\ Requeued(row).attempts = row.attempts
           /\ Requeued(row).state = "PENDING"
           /\ EntriesClaimedOnce(row) => EntriesClaimedOnce(Requeued(row))
  <1>1. CASE row.state = "PENDING"
    BY <1>1 DEF Requeued
  <1>2. CASE row.state # "PENDING"
    <2> DEFINE back == [row EXCEPT !.state = "PENDING", !.queued = row.queued + 1]
    <2>1. row.attempts \in Nat /\ row.queued \in Nat /\ row.queued + 1 \in Nat
      BY DEF Row
    <2>2. Requeued(row) = back
      BY <1>2 DEF Requeued
    <2>3. back \in Row
      BY <2>1 DEF Row, TaskState
    <2>4. back.attempts = row.attempts /\ back.state = "PENDING" /\ back.queued = row.queued + 1
      BY DEF Row
    <2> QED BY <1>2, <2>1, <2>2, <2>3, <2>4 DEF EntriesClaimedOnce
  <1> QED BY <1>1, <1>2

\* Going back to the queue leaves what the row discovered.
LEMMA RequeuedCount ==
    ASSUME NEW row \in Row
    PROVE  Requeued(row).discovered = row.discovered
  BY DEF Requeued, Row

\* What a step may do to the rows: attempts stay or grow, and every entry into the
\* queue is still claimed at most once.
Advances(rows, rows2) ==
    \A t \in Task : /\ rows2[t].attempts >= rows[t].attempts
                    /\ EntriesClaimedOnce(rows[t]) => EntriesClaimedOnce(rows2[t])

\* The two bulk updates of crawl_tasks claim no row and bury none.
LEMMA BulkUpdates ==
    ASSUME NEW tasks, NEW rows \in [Task -> Row]
    PROVE  /\ Queued(tasks, rows) \in [Task -> Row]
           /\ Released(tasks, rows) \in [Task -> Row]
           /\ Advances(rows, Queued(tasks, rows))
           /\ Advances(rows, Released(tasks, rows))
           /\ \A t \in Task : /\ Queued(tasks, rows)[t].attempts = rows[t].attempts
                              /\ Released(tasks, rows)[t].attempts = rows[t].attempts
                              /\ Queued(tasks, rows)[t].state = "FAILED" => rows[t].state = "FAILED"
                              /\ Released(tasks, rows)[t].state = "FAILED" => rows[t].state = "FAILED"
  <1>1. \A t \in Task : rows[t] \in Row /\ rows[t].attempts \in Nat
    BY DEF Row
  <1>2. \A t \in Task : \/ Queued(tasks, rows)[t] = rows[t]
                        \/ Queued(tasks, rows)[t] = Requeued(rows[t])
    BY DEF Queued
  <1>3. \A t \in Task : \/ Released(tasks, rows)[t] = rows[t]
                        \/ Released(tasks, rows)[t] = Requeued(rows[t])
    BY DEF Released
  <1>4. Queued(tasks, rows) \in [Task -> Row] /\ Released(tasks, rows) \in [Task -> Row]
    BY <1>1, RequeuedRow DEF Queued, Released
  <1> QED
    BY <1>1, <1>2, <1>3, <1>4, RequeuedRow DEF Advances

\* The initial rows and lanes are well formed.
LEMMA InitTypeOK == Init => TypeOK
  BY CrawlAssumption DEF Init, TypeOK, Row, LaneLocals, Idle, TaskState, Pc

\* A lane's own steps keep its locals well formed, and touch no other lane's.
LEMMA LaneStepLocals ==
    ASSUME TypeOK, NEW l \in Lane, LaneStep(l) \/ Throw(l)
    PROVE  /\ lane' \in [Lane -> LaneLocals]
           /\ \A m \in Lane \ {l} : lane'[m] = lane[m]
  <1> DEFINE w == lane[l]
  <1> USE CrawlAssumption DEF TypeOK, Goto, Finish, At
  <1>1. w \in LaneLocals
    OBVIOUS
  <1>2. SUFFICES \E v \in LaneLocals : lane' = [lane EXCEPT ![l] = v]
    OBVIOUS
  <1>3. Idle \in LaneLocals
    BY DEF Idle, LaneLocals, Pc
  <1>4. CASE Pick(l)
    <2>1. PICK t \in Task : lane' = [lane EXCEPT ![l] = [Idle EXCEPT !.pc = "picked", !.task = t]]
      BY <1>4 DEF Pick
    <2>2. [Idle EXCEPT !.pc = "picked", !.task = t] \in LaneLocals
      BY DEF Idle, LaneLocals, Pc
    <2> QED BY <2>1, <2>2
  <1>5. CASE Claim(l)
    <2>1. CASE CanClaim(task[w.task])
      <3>1. w.task \in Task
        BY <1>1, <1>5 DEF Claim, LaneLocals
      <3>2. task[w.task].attempts + 1 \in Nat
        BY <3>1 DEF Row
      <3>3. [w EXCEPT !.pc = "fetch", !.claim = task[w.task].attempts + 1] \in LaneLocals
        BY <1>1, <3>1, <3>2 DEF LaneLocals, Pc, Working
      <3>4. lane' = [lane EXCEPT ![l] = [w EXCEPT !.pc = "fetch", !.claim = task[w.task].attempts + 1]]
        BY <1>5, <2>1 DEF Claim
      <3> QED BY <3>3, <3>4
    <2>2. CASE ~CanClaim(task[w.task])
      BY <1>3, <1>5, <2>2 DEF Claim
    <2> QED BY <2>1, <2>2
  <1>6. CASE Fetch(l)
    <2>1. w.task \in Task
      BY <1>1, <1>6 DEF Fetch, LaneLocals
    <2> DEFINE v == [w EXCEPT !.todo = Suggest[w.task],
                              !.pc = IF Suggest[w.task] = {} THEN "complete" ELSE "lookup"]
    <2>2. v \in LaneLocals
      BY <1>1, <2>1 DEF LaneLocals, Pc, Working
    <2>3. lane' = [lane EXCEPT ![l] = v]
      BY <1>6 DEF Fetch
    <2> QED BY <2>2, <2>3
  <1>7. CASE Lookup(l)
    <2>1. w.task \in Task
      BY <1>1, <1>7 DEF Lookup, LaneLocals
    <2>2. PICK x \in w.todo :
            lane' = [lane EXCEPT ![l] = [w EXCEPT !.term = x, !.todo = @ \ {x},
                                                  !.pc = IF x \in corpus THEN "signal" ELSE "create"]]
      BY <1>7 DEF Lookup
    <2>3. [w EXCEPT !.term = x, !.todo = @ \ {x},
                    !.pc = IF x \in corpus THEN "signal" ELSE "create"] \in LaneLocals
      BY <1>1, <2>1 DEF LaneLocals, Pc, Working
    <2> QED BY <2>2, <2>3
  <1>8. CASE Create(l)
    <2>0. w.pc = "create"
      BY <1>8 DEF Create
    <2>1. [w EXCEPT !.pc = "fail"] \in LaneLocals
      BY <1>1, <2>0 DEF LaneLocals, Pc, Working
    <2>2. [w EXCEPT !.pc = "signal", !.created = @ + 1] \in LaneLocals
      <3>1. w.task \in Task /\ w.term \in Term /\ w.created \in Nat
        BY <1>1, <2>0 DEF LaneLocals
      <3>2. w.created + 1 \in Nat
        BY <3>1
      <3> QED BY <1>1, <3>1, <3>2 DEF LaneLocals, Pc, Working
    <2>3. \/ lane' = [lane EXCEPT ![l] = [w EXCEPT !.pc = "fail"]]
          \/ lane' = [lane EXCEPT ![l] = [w EXCEPT !.pc = "signal", !.created = @ + 1]]
      BY <1>8 DEF Create
    <2> QED BY <2>1, <2>2, <2>3
  <1>9. CASE Signal(l)
    <2> DEFINE v == [w EXCEPT !.pc = IF w.todo = {} THEN "complete" ELSE "lookup", !.term = NoTerm]
    <2>1. v \in LaneLocals
      BY <1>1, <1>9 DEF Signal, LaneLocals, Pc, Working
    <2>2. lane' = [lane EXCEPT ![l] = v]
      BY <1>9 DEF Signal
    <2> QED BY <2>1, <2>2
  <1>10. CASE Complete(l)
    <2>1. [w EXCEPT !.pc = "expand"] \in LaneLocals
      BY <1>1, <1>10 DEF Complete, LaneLocals, Pc, Working
    <2> QED BY <1>10, <2>1 DEF Complete
  <1>11. CASE Expand(l)
    BY <1>3, <1>11 DEF Expand
  <1>12. CASE FailRead(l)
    <2> DEFINE v == [w EXCEPT !.pc = IF Spent(task[w.task]) THEN "bury" ELSE "requeue"]
    <2>1. v \in LaneLocals
      BY <1>1, <1>12 DEF FailRead, LaneLocals, Pc, Working
    <2> QED BY <1>12, <2>1 DEF FailRead
  <1>13. CASE FailWrite(l)
    BY <1>3, <1>13 DEF FailWrite
  <1>14. CASE Throw(l)
    <2>1. [w EXCEPT !.pc = "fail"] \in LaneLocals
      BY <1>1, <1>14 DEF Throw, LaneLocals, Pc, Working
    <2> QED BY <1>3, <1>14, <2>1 DEF Throw
  <1> QED
    BY <1>4, <1>5, <1>6, <1>7, <1>8, <1>9, <1>10, <1>11, <1>12, <1>13, <1>14 DEF LaneStep

\* A lane's step keeps the rows well formed and advances them.  The claim is the
\* one update that uses an entry up, and its where clause is why that is sound.
LEMMA LaneStepRows ==
    ASSUME TypeOK, NEW l \in Lane, LaneStep(l) \/ Throw(l)
    PROVE  task' \in [Task -> Row] /\ Advances(task, task')
  <1> USE CrawlAssumption DEF TypeOK
  <1>1. lane[l].pc # "idle" => lane[l].task \in Task /\ lane[l].created \in Nat
    BY DEF LaneLocals
  <1>2. \A t \in Task : task[t] \in Row /\ task[t].attempts \in Nat /\ task[t].queued \in Nat
    BY DEF Row
  <1>3. ASSUME NEW t \in Task, NEW row \in Row, task' = [task EXCEPT ![t] = row],
               row.attempts >= task[t].attempts,
               EntriesClaimedOnce(task[t]) => EntriesClaimedOnce(row)
        PROVE  task' \in [Task -> Row] /\ Advances(task, task')
    BY <1>2, <1>3 DEF Advances
  <1>4. CASE Claim(l)
    <2> DEFINE t == lane[l].task
    <2>1. t \in Task
      BY <1>1, <1>4 DEF Claim, At
    <2>2. CASE CanClaim(task[t])
      <3> DEFINE row == [task[t] EXCEPT !.state = "RUNNING", !.attempts = task[t].attempts + 1]
      <3>1. task' = [task EXCEPT ![t] = row]
        <4>1. task' = [task EXCEPT ![t].state = "RUNNING", ![t].attempts = @ + 1]
          BY <1>4, <2>2 DEF Claim
        <4>2. t \in Task /\ task \in [Task -> Row]
          BY <2>1
        <4> QED BY ONLY <4>1, <4>2
      <3>2. task[t].attempts + 1 \in Nat /\ task[t].state = "PENDING"
        BY <1>2, <2>1, <2>2 DEF CanClaim
      <3>3. row \in Row /\ row.attempts = task[t].attempts + 1 /\ row.state = "RUNNING"
              /\ row.queued = task[t].queued
        <4>1. task[t] \in Row
          BY <1>2, <2>1
        <4> QED BY ONLY <3>2, <4>1 DEF Row, TaskState
      <3>4. EntriesClaimedOnce(task[t]) => EntriesClaimedOnce(row)
        BY <1>2, <2>1, <3>2, <3>3 DEF EntriesClaimedOnce
      <3>5. row.attempts >= task[t].attempts
        BY <1>2, <2>1, <3>3
      <3> HIDE DEF row, t
      <3> QED BY ONLY <1>3, <2>1, <3>1, <3>3, <3>4, <3>5
    <2>3. CASE ~CanClaim(task[t])
      <3>1. task' = task
        BY <1>4, <2>3 DEF Claim
      <3> QED BY <1>2, <3>1 DEF Advances
    <2> QED BY <2>2, <2>3
  <1>5. CASE Complete(l)
    <2> DEFINE t == lane[l].task
               row == [task[t] EXCEPT !.state = "DONE", !.discovered = lane[l].created]
    <2>1. t \in Task /\ lane[l].created \in Nat
      BY <1>1, <1>5 DEF Complete, At
    <2>2. task' = [task EXCEPT ![t] = row]
      BY <1>5 DEF Complete
    <2>3. row \in Row /\ row.attempts = task[t].attempts /\ row.queued = task[t].queued
            /\ row.state = "DONE"
      BY <1>2, <2>1 DEF Row, TaskState
    <2>4. EntriesClaimedOnce(task[t]) => EntriesClaimedOnce(row)
      BY <1>2, <2>1, <2>3 DEF EntriesClaimedOnce
    <2>5. row.attempts >= task[t].attempts
      BY <1>2, <2>1, <2>3
    <2> HIDE DEF row, t
    <2> QED BY ONLY <1>3, <2>1, <2>2, <2>3, <2>4, <2>5
  <1>6. CASE Expand(l)
    BY <1>2, <1>6, BulkUpdates DEF Expand, Advances
  <1>7. CASE FailWrite(l)
    <2> DEFINE t == lane[l].task
               row == IF At(l, "bury") THEN [task[t] EXCEPT !.state = "FAILED"] ELSE Requeued(task[t])
    <2>1. t \in Task
      BY <1>1, <1>7 DEF FailWrite
    <2>2. task' = [task EXCEPT ![t] = row]
      BY <1>7 DEF FailWrite
    <2>3. row \in Row /\ row.attempts = task[t].attempts
            /\ (EntriesClaimedOnce(task[t]) => EntriesClaimedOnce(row))
      <3>1. CASE At(l, "bury")
        <4>1. row \in Row /\ row.attempts = task[t].attempts /\ row.queued = task[t].queued
                /\ row.state = "FAILED"
          BY <1>2, <2>1, <3>1 DEF Row, TaskState
        <4> QED BY <1>2, <2>1, <4>1 DEF EntriesClaimedOnce
      <3>2. CASE ~At(l, "bury")
        BY <1>2, <2>1, <3>2, RequeuedRow
      <3> QED BY <3>1, <3>2
    <2>4. row.attempts >= task[t].attempts
      BY <1>2, <2>1, <2>3
    <2> HIDE DEF row, t
    <2> QED BY ONLY <1>3, <2>1, <2>2, <2>3, <2>4
  <1>8. CASE UNCHANGED task
    BY <1>2, <1>8 DEF Advances
  <1> QED
    BY <1>4, <1>5, <1>6, <1>7, <1>8
    DEF LaneStep, Pick, Fetch, Lookup, Create, Signal, FailRead, Throw

\* TypeOK is inductive.
LEMMA NextTypeOK == TypeOK /\ [Next]_vars => TypeOK'
  <1> SUFFICES ASSUME TypeOK, [Next]_vars
               PROVE  TypeOK'
    OBVIOUS
  <1> USE CrawlAssumption DEF TypeOK
  <1>1. ASSUME NEW r \in Run, Start(r)
        PROVE  TypeOK'
    BY <1>1, BulkUpdates DEF Start, bounds
  <1>2. ASSUME NEW r \in Run, Stop(r)
        PROVE  TypeOK'
    BY <1>2 DEF Stop
  <1>3. ASSUME NEW r \in Run, Exit(r)
        PROVE  TypeOK'
    BY <1>3, BulkUpdates DEF Exit, bounds
  <1>4. ASSUME NEW r \in Run, Crash(r)
        PROVE  TypeOK'
    <2>1. Idle \in LaneLocals
      BY DEF Idle, LaneLocals, Pc
    <2> QED BY <1>4, <2>1 DEF Crash
  <1>5. ASSUME NEW r \in Run, Maintain(r)
        PROVE  TypeOK'
    BY <1>5, BulkUpdates DEF Maintain, bounds
  <1>6. ASSUME NEW t \in Task, Age(t)
        PROVE  TypeOK'
    BY <1>6 DEF Age
  <1>7. ASSUME NEW l \in Lane, LaneStep(l) \/ Throw(l)
        PROVE  TypeOK'
    <2>1. lane' \in [Lane -> LaneLocals]
      BY <1>7, LaneStepLocals
    <2>2. task' \in [Task -> Row]
      BY <1>7, LaneStepRows
    <2>3. corpus' \subseteq Term /\ signal' \subseteq Task \X Term
      <3>1. CASE Create(l)
        BY <3>1 DEF Create, At, LaneLocals
      <3>2. CASE Signal(l)
        BY <3>2 DEF Signal, At, LaneLocals
      <3> QED
        BY <1>7, <3>1, <3>2
        DEF LaneStep, Pick, Claim, Fetch, Lookup, Complete, Expand, FailRead, FailWrite, Throw
    <2>4. run' = run /\ aged' \subseteq aged /\ errors' \in Nat
            /\ UNCHANGED <<crashes, sleeps, stops>> /\ dropped' \subseteq Task
      <3>1. CASE LaneStep(l)
        <4>1. run' = run /\ aged' \subseteq aged /\ dropped' \subseteq dropped /\ UNCHANGED bounds
          BY <3>1, Zenon DEF LaneStep, Pick, Claim, Fetch, Lookup, Create, Signal, Complete,
                      Expand, FailRead, FailWrite
        <4> QED BY <4>1 DEF bounds
      <3>2. CASE Throw(l)
        <4>1. lane[l].task \in Task
          BY <3>2 DEF Throw, LaneLocals, Working
        <4> QED BY <3>2, <4>1 DEF Throw
      <3> QED BY <1>7, <3>1, <3>2
    <2> QED BY <2>1, <2>2, <2>3, <2>4
  <1>8. CASE UNCHANGED vars
    BY <1>8 DEF vars, bounds
  <1> QED
    BY <1>1, <1>2, <1>3, <1>4, <1>5, <1>6, <1>7, <1>8 DEF Next

\* The rows, the corpus and the lanes' locals always have the types the code gives
\* them; in particular a lane that is not idle has a row in hand.
THEOREM TypeCorrect == Spec => []TypeOK
  BY InitTypeOK, NextTypeOK, PTL DEF Spec

-----------------------------------------------------------------------------

\* The rest of the invariant, one lane step at a time.  Only Claim hands out a
\* claim, only FailRead passes a verdict and only FailWrite buries a row.
LEMMA LaneStepInv ==
    ASSUME IInv, NEW l \in Lane, LaneStep(l) \/ Throw(l), TypeOK'
    PROVE  ClaimBound' /\ ClaimUnique' /\ VerdictJustified' /\ BuriedOnlyWhenSpent'
  <1>1. /\ \A m \in Lane \ {l} : lane'[m] = lane[m]
        /\ \A t \in Task : task'[t].attempts >= task[t].attempts
        /\ \A t \in Task : EntriesClaimedOnce(task'[t])
    BY LaneStepLocals, LaneStepRows DEF IInv, Advances, ClaimUnique
  <1>2. /\ \A m \in Lane : lane[m].pc \in Working => lane[m].task \in Task
        /\ \A m \in Lane : lane'[m].pc \in Working => lane'[m].task \in Task
        /\ \A m \in Lane : lane[m].claim \in Nat /\ lane'[m].claim \in Nat
        /\ \A t \in Task : task[t].attempts \in Nat /\ task'[t].attempts \in Nat
        /\ MaxAttempts \in Nat
    BY CrawlAssumption DEF IInv, TypeOK, LaneLocals, Working, Row
  <1>3. \/ lane'[l].pc \notin Working
        \/ /\ lane[l].pc \in Working
           /\ lane'[l].task = lane[l].task /\ lane'[l].claim = lane[l].claim
        \/ /\ lane'[l].task = lane[l].task /\ lane'[l].claim = task[lane[l].task].attempts + 1
           /\ lane[l].task \in Task
           /\ task'[lane[l].task].attempts = task[lane[l].task].attempts + 1
    <2> USE DEF IInv, TypeOK, At, Goto, Finish
    <2>0. lane[l] \in LaneLocals /\ Idle.pc \notin Working
      BY DEF Idle, Working
    <2>1. CASE Pick(l)
      BY <2>0, <2>1 DEF Pick, Working, Idle
    <2>2. CASE Claim(l)
      <3>1. lane[l].task \in Task /\ task[lane[l].task] \in Row
        BY <2>0, <2>2 DEF Claim, LaneLocals
      <3>2. CASE CanClaim(task[lane[l].task])
        <4>1. /\ lane' = [lane EXCEPT ![l].pc = "fetch",
                                      ![l].claim = task[lane[l].task].attempts + 1]
              /\ task' = [task EXCEPT ![lane[l].task].state = "RUNNING",
                                      ![lane[l].task].attempts = @ + 1]
          BY <2>2, <3>2 DEF Claim
        <4>2. lane'[l].task = lane[l].task /\ lane'[l].claim = task[lane[l].task].attempts + 1
          BY <2>0, <4>1 DEF LaneLocals
        <4>3. task'[lane[l].task].attempts = task[lane[l].task].attempts + 1
          BY <3>1, <4>1 DEF Row
        <4> QED BY <3>1, <4>2, <4>3
      <3>3. CASE ~CanClaim(task[lane[l].task])
        BY <2>0, <2>2, <3>3 DEF Claim
      <3> QED BY <3>2, <3>3
    <2>3. CASE Fetch(l) \/ Lookup(l) \/ Create(l) \/ Signal(l) \/ Complete(l) \/ FailRead(l)
      <3>1. lane[l].pc \in Working
        BY <2>3 DEF Fetch, Lookup, Create, Signal, Complete, FailRead, Working
      <3>2. lane'[l].task = lane[l].task /\ lane'[l].claim = lane[l].claim
        <4> USE <2>0 DEF LaneLocals
        <4>1. CASE Fetch(l)
          BY <4>1 DEF Fetch
        <4>2. CASE Lookup(l)
          BY <4>2 DEF Lookup
        <4>3. CASE Create(l)
          <5>1. CASE lane[l].term \in corpus
            BY <4>3, <5>1 DEF Create
          <5>2. CASE lane[l].term \notin corpus
            BY <4>3, <5>2 DEF Create
          <5> QED BY <5>1, <5>2
        <4>4. CASE Signal(l)
          BY <4>4 DEF Signal
        <4>5. CASE Complete(l) \/ FailRead(l)
          BY <4>5 DEF Complete, FailRead
        <4> QED BY <2>3, <4>1, <4>2, <4>3, <4>4, <4>5
      <3> QED BY <3>1, <3>2
    <2>4. CASE Expand(l) \/ FailWrite(l)
      BY <2>0, <2>4 DEF Expand, FailWrite
    <2>5. CASE Throw(l)
      BY <2>0, <2>5 DEF Throw, LaneLocals
    <2> QED
      BY <2>1, <2>2, <2>3, <2>4, <2>5 DEF LaneStep
  <1>4. ClaimBound'
    BY <1>1, <1>2, <1>3 DEF IInv, ClaimBound
  <1>5. ClaimUnique'
    BY <1>1, <1>2, <1>3 DEF IInv, ClaimBound, ClaimUnique, Works
  <1>6. VerdictJustified'
    <2>1. lane'[l].pc = "bury" => FailRead(l)
      <3> USE DEF IInv, TypeOK, At, Goto, Finish, Idle
      <3>0. lane[l] \in LaneLocals
        OBVIOUS
      <3>1. CASE Pick(l)
        BY <3>0, <3>1 DEF Pick
      <3>2. CASE Claim(l)
        <4>1. CASE CanClaim(task[lane[l].task])
          BY <3>0, <3>2, <4>1 DEF Claim, LaneLocals
        <4>2. CASE ~CanClaim(task[lane[l].task])
          BY <3>2, <4>2 DEF Claim
        <4> QED BY <4>1, <4>2
      <3>5. CASE Fetch(l)
        BY <3>0, <3>5 DEF Fetch, LaneLocals
      <3>6. CASE Lookup(l)
        BY <3>0, <3>6 DEF Lookup, LaneLocals
      <3>3. CASE Create(l)
        <4>1. CASE lane[l].term \in corpus
          BY <3>3, <4>1 DEF Create, LaneLocals
        <4>2. CASE lane[l].term \notin corpus
          BY <3>3, <4>2 DEF Create, LaneLocals
        <4> QED BY <4>1, <4>2
      <3>4. CASE Signal(l) \/ Complete(l) \/ Expand(l) \/ FailWrite(l) \/ Throw(l)
        BY <3>4 DEF Signal, Complete, Expand, FailWrite, Throw, LaneLocals
      <3> QED BY <3>1, <3>2, <3>3, <3>4, <3>5, <3>6 DEF LaneStep
    <2>2. FailRead(l) => /\ task' = task /\ lane'[l].task = lane[l].task
                         /\ lane'[l].pc = "bury" => Spent(task[lane[l].task])
      BY DEF FailRead, Goto, IInv, TypeOK, LaneLocals
    <2>3. \A m \in Lane \ {l} :
            lane'[m].pc = "bury" => lane[m].pc = "bury" /\ lane'[m].task = lane[m].task
      BY <1>1
    <2> QED
      BY <1>1, <1>2, <2>1, <2>2, <2>3 DEF IInv, VerdictJustified, Spent, Working
  <1>7. BuriedOnlyWhenSpent'
    <2>1. ASSUME NEW t \in Task, task'[t].state = "FAILED"
          PROVE  \/ task[t].state = "FAILED"
                 \/ lane[l].pc = "bury" /\ t = lane[l].task
      <3> USE DEF IInv, TypeOK, Row
      <3>1. CASE Claim(l)
        BY <2>1, <3>1 DEF Claim
      <3>2. CASE Complete(l)
        BY <2>1, <3>2 DEF Complete
      <3>3. CASE Expand(l)
        BY <2>1, <3>3, BulkUpdates DEF Expand
      <3>4. CASE FailWrite(l)
        <4>1. \A u \in Task : Requeued(task[u]).state = "PENDING"
          BY RequeuedRow
        <4> QED BY <2>1, <3>4, <4>1 DEF FailWrite, At
      <3>5. CASE UNCHANGED task
        BY <2>1, <3>5
      <3> QED
        BY <3>1, <3>2, <3>3, <3>4, <3>5
        DEF LaneStep, Pick, Fetch, Lookup, Create, Signal, FailRead, Throw
    <2> QED
      BY <1>1, <1>2, <2>1 DEF IInv, VerdictJustified, BuriedOnlyWhenSpent, InState, Spent, Working
  <1> QED
    BY <1>4, <1>5, <1>6, <1>7

\* No claim has been handed out at the start.
LEMMA InitInv == Init => IInv
  BY InitTypeOK
  DEF Init, IInv, ClaimBound, ClaimUnique, EntriesClaimedOnce, VerdictJustified,
      BuriedOnlyWhenSpent, Works, InState, Idle, Working

\* Outside the lanes, a step may only end claims or return rows to the queue.
LEMMA NextInv == IInv /\ [Next]_vars => IInv'
  <1> SUFFICES ASSUME IInv, [Next]_vars
               PROVE  IInv'
    OBVIOUS
  <1>1. TypeOK'
    BY NextTypeOK DEF IInv
  <1>2. ASSUME NEW l \in Lane, LaneStep(l) \/ Throw(l)
        PROVE  IInv'
    BY <1>1, <1>2, LaneStepInv DEF IInv
  <1>3. ASSUME /\ \A m \in Lane : lane'[m] = lane[m] \/ lane'[m] = Idle
               /\ \A t \in Task : /\ task'[t].attempts = task[t].attempts
                                  /\ EntriesClaimedOnce(task[t]) => EntriesClaimedOnce(task'[t])
                                  /\ task'[t].state = "FAILED" => task[t].state = "FAILED"
        PROVE  IInv'
    <2>1. \A m \in Lane : lane'[m].pc \in Working => lane'[m] = lane[m] /\ lane[m].task \in Task
      BY <1>3 DEF IInv, TypeOK, LaneLocals, Idle, Working
    <2>2. ClaimBound'
      BY <1>3, <2>1 DEF IInv, ClaimBound
    <2>3. ClaimUnique'
      BY <1>3, <2>1 DEF IInv, ClaimUnique, Works
    <2>4. VerdictJustified'
      BY <1>3, <2>1 DEF IInv, VerdictJustified, Spent, Working
    <2>5. BuriedOnlyWhenSpent'
      BY <1>3 DEF IInv, BuriedOnlyWhenSpent, InState
    <2> QED
      BY <1>1, <2>2, <2>3, <2>4, <2>5 DEF IInv
  <1>4. ASSUME NEW r \in Run, Start(r) \/ Exit(r) \/ Maintain(r)
        PROVE  IInv'
    <2>1. task \in [Task -> Row] /\ Released(Task, task) \in [Task -> Row]
      BY BulkUpdates DEF IInv, TypeOK
    <2> QED
      BY <1>3, <1>4, <2>1, BulkUpdates DEF Start, Exit, Maintain, Advances
  <1>5. ASSUME NEW r \in Run, Stop(r) \/ Crash(r)
        PROVE  IInv'
    BY <1>3, <1>5 DEF Stop, Crash
  <1>6. ASSUME NEW t \in Task, Age(t)
        PROVE  IInv'
    BY <1>3, <1>6 DEF Age
  <1>7. CASE UNCHANGED vars
    BY <1>3, <1>7 DEF vars
  <1> QED
    BY <1>2, <1>4, <1>5, <1>6, <1>7 DEF Next

\* The inductive invariant holds of every reachable state, with any crashes, stops,
\* releases of live claims and throwing calls.
THEOREM Invariance == Spec => []IInv
  BY InitInv, NextInv, PTL DEF Spec

\* Two lanes never hold the same claim on a row: claimTask's conditional update
\* hands each attempt of a row to one lane, on any number of machines.
THEOREM ClaimsAreExclusive == Spec => []ClaimUnique
  <1>1. IInv => ClaimUnique
    BY DEF IInv
  <1> QED
    BY <1>1, Invariance, PTL

\* failTask buries a row only when its attempts are spent, although it reads the
\* counter and writes the verdict in two separate statements.
THEOREM BurialsAreJustified == Spec => []BuriedOnlyWhenSpent
  <1>1. IInv => BuriedOnlyWhenSpent
    BY DEF IInv
  <1> QED
    BY <1>1, Invariance, PTL

-----------------------------------------------------------------------------
(* The frontier has no holes.                                              *)

\* The two bulk updates leave a row alone or put it in the queue, and createMany
\* leaves none of its rows absent.
LEMMA QueueUpdates ==
    ASSUME NEW tasks, NEW rows \in [Task -> Row], NEW t \in Task
    PROVE  /\ \/ Queued(tasks, rows)[t] = rows[t]
              \/ Queued(tasks, rows)[t].state = "PENDING"
           /\ \/ Released(tasks, rows)[t] = rows[t]
              \/ Released(tasks, rows)[t].state = "PENDING"
           /\ t \in tasks => Queued(tasks, rows)[t].state # "ABSENT"
  <1>1. rows[t] \in Row /\ Requeued(rows[t]).state = "PENDING"
    BY RequeuedRow
  <1>2. /\ Queued(tasks, rows)[t] = IF t \in tasks /\ rows[t].state = "ABSENT"
                                    THEN Requeued(rows[t]) ELSE rows[t]
        /\ Released(tasks, rows)[t] = IF t \in tasks /\ rows[t].state = "RUNNING"
                                      THEN Requeued(rows[t]) ELSE rows[t]
    BY DEF Queued, Released
  <1> QED BY <1>1, <1>2

\* No row is ever deleted, and only completeTask makes a row done: any other row
\* that is done after a step was done before it, with the same count, and whoever
\* dropped it is still on record.
LEMMA RowSteps ==
    ASSUME TypeOK, [Next]_vars, NEW t \in Task
    PROVE  /\ task[t].state # "ABSENT" => task'[t].state # "ABSENT"
           /\ task'[t].state = "DONE" =>
                 \/ /\ task[t].state = "DONE" /\ task'[t].discovered = task[t].discovered
                    /\ t \in dropped => t \in dropped'
                 \/ \E l \in Lane : Complete(l) /\ lane[l].task = t
  <1>1. task \in [Task -> Row] /\ task[t] \in Row
    BY DEF TypeOK
  <1>2. \A tasks \in SUBSET Task :
           /\ \/ Queued(tasks, task)[t] = task[t]
              \/ Queued(tasks, task)[t].state = "PENDING"
           /\ \/ Released(tasks, task)[t] = task[t]
              \/ Released(tasks, task)[t].state = "PENDING"
           /\ Released(tasks, task) \in [Task -> Row]
    BY <1>1, QueueUpdates, BulkUpdates
  <1>3. Root \in SUBSET Task /\ aged \in SUBSET Task /\ \A u \in Task : Children[u] \in SUBSET Task
    BY CrawlAssumption DEF TypeOK
  <1>4. ASSUME NEW r \in Run, Start(r)
        PROVE  task'[t] = task[t] \/ task'[t].state = "PENDING"
    <2>1. Released(Task, task) \in [Task -> Row]
      BY <1>2
    <2>2. \/ Queued(Root, Released(Task, task))[t] = Released(Task, task)[t]
          \/ Queued(Root, Released(Task, task))[t].state = "PENDING"
      BY <2>1, QueueUpdates
    <2> QED BY <1>2, <1>4, <2>2 DEF Start
  <1>5. ASSUME NEW r \in Run, Exit(r) \/ Maintain(r)
        PROVE  task'[t] = task[t] \/ task'[t].state = "PENDING"
    BY <1>2, <1>3, <1>5 DEF Exit, Maintain
  <1>6. ASSUME NEW l \in Lane, Claim(l)
        PROVE  \/ task'[t].state = "RUNNING"
               \/ task'[t] = task[t] /\ (t \in dropped => t \in dropped')
    BY <1>1, <1>6 DEF Claim, TypeOK, Row
  <1>7. ASSUME NEW l \in Lane, Complete(l)
        PROVE  \/ t = lane[l].task /\ task'[t].state = "DONE"
               \/ task'[t] = task[t]
    BY <1>1, <1>7 DEF Complete, TypeOK, Row
  <1>8. ASSUME NEW l \in Lane, Expand(l)
        PROVE  task'[t] = task[t] \/ task'[t].state = "PENDING"
    <2>1. lane[l].task \in Task
      BY <1>8 DEF Expand, At, TypeOK, LaneLocals
    <2> QED BY <1>2, <1>3, <1>8, <2>1 DEF Expand
  <1>9. ASSUME NEW l \in Lane, FailWrite(l)
        PROVE  task'[t] = task[t] \/ task'[t].state \in {"PENDING", "FAILED"}
    <2>1. Requeued(task[t]).state = "PENDING"
      BY <1>1, RequeuedRow
    <2> QED BY <1>1, <1>9, <2>1 DEF FailWrite, TypeOK, Row
  <1>10. (\E l \in Lane : Claim(l)) \/ dropped \subseteq dropped'
    BY Zenon DEF Next, vars, bounds, Start, Stop, Exit, Crash, Maintain, Age, LaneStep, Throw, Pick,
        Fetch, Lookup, Create, Signal, Complete, Expand, FailRead, FailWrite
  <1>11. \/ UNCHANGED task
         \/ \E r \in Run : Start(r) \/ Exit(r) \/ Maintain(r)
         \/ \E l \in Lane : Claim(l) \/ Complete(l) \/ Expand(l) \/ FailWrite(l)
    BY Zenon DEF Next, vars, Stop, Crash, Age, LaneStep, Throw, Pick, Fetch, Lookup, Create, Signal, FailRead
  <1> QED
    BY <1>1, <1>4, <1>5, <1>6, <1>7, <1>8, <1>9, <1>10, <1>11

\* What is left to do for a row that earned its children: they are in the frontier,
\* or a lane has yet to queue them or to hand the row back.
ChildrenIn(t) == \A c \in Children[t] : task[c].state # "ABSENT"
StillOwes(l, t) ==
    /\ Works(l, t)
    /\ lane[l].pc \in {"expand", "fail", "requeue", "bury"}
    /\ Earns(t, lane[l].created)

\* A lane that owes a row its children goes on owing, queues them, takes the row out
\* of DONE or drops it, whoever steps.
LEMMA OwedSteps ==
    ASSUME TypeOK, [Next]_vars, NEW t \in Task, NEW l \in Lane, StillOwes(l, t)
    PROVE  \/ StillOwes(l, t)'
           \/ ChildrenIn(t)'
           \/ task'[t].state # "DONE"
           \/ t \in dropped'
  <1>0. /\ lane[l] \in LaneLocals /\ lane \in [Lane -> LaneLocals]
        /\ task \in [Task -> Row] /\ task[t] \in Row /\ t = lane[l].task
        /\ lane[l].pc \in {"expand", "fail", "requeue", "bury"}
        /\ Earns(t, lane[l].created)
    BY DEF TypeOK, StillOwes, Works
  <1>1. CASE lane'[l] = lane[l]
    BY <1>1 DEF StillOwes, Works
  <1>2. CASE Expand(l)
    <2>1. task' = Queued(Children[t], task) /\ Children[t] \subseteq Task
      BY <1>0, <1>2, CrawlAssumption DEF Expand
    <2>2. \A c \in Children[t] : task'[c].state # "ABSENT"
      BY <1>0, <2>1, QueueUpdates
    <2> QED BY <2>2 DEF ChildrenIn
  <1>3. CASE FailRead(l)
    <2>1. /\ lane'[l].pc \in {"requeue", "bury"}
          /\ lane'[l].task = t /\ lane'[l].created = lane[l].created
      BY <1>0, <1>3 DEF FailRead, Goto, LaneLocals
    <2> QED BY <1>0, <2>1 DEF StillOwes, Works, Working
  <1>4. CASE FailWrite(l)
    <2>1. Requeued(task[t]).state = "PENDING"
      BY <1>0, RequeuedRow
    <2>2. task'[t].state \in {"PENDING", "FAILED"}
      BY <1>0, <1>4, <2>1 DEF FailWrite, At, Row
    <2> QED BY <2>2
  <1>5. CASE Throw(l)
    <2>1. CASE lane[l].pc \in {"fail", "requeue", "bury"}
      BY <1>0, <1>5, <2>1 DEF Throw
    <2>2. CASE lane[l].pc = "expand"
      <3>1. lane'[l].pc = "fail" /\ lane'[l].task = t /\ lane'[l].created = lane[l].created
        BY <1>0, <1>5, <2>2 DEF Throw, Goto, LaneLocals
      <3> QED BY <1>0, <3>1 DEF StillOwes, Works, Working
    <2> QED BY <1>0, <2>1, <2>2
  <1>6. ASSUME NEW m \in Lane \ {l}, LaneStep(m) \/ Throw(m)
        PROVE  lane'[l] = lane[l]
    BY <1>6, LaneStepLocals
  <1>7. ASSUME NEW r \in Run, Crash(r)
        PROVE  lane'[l] = lane[l] \/ t \in dropped'
    BY <1>0, <1>7 DEF Crash, StillOwes
  <1>8. LaneStep(l) => Expand(l) \/ FailRead(l) \/ FailWrite(l)
    BY <1>0 DEF LaneStep, Pick, Claim, Fetch, Lookup, Create, Signal, Complete, At
  <1>9. \/ UNCHANGED lane
        \/ \E r \in Run : Crash(r)
        \/ \E m \in Lane : LaneStep(m) \/ Throw(m)
    BY Zenon DEF Next, vars, Start, Stop, Exit, Maintain, Age
  <1> QED
    BY <1>1, <1>2, <1>3, <1>4, <1>5, <1>6, <1>7, <1>8, <1>9

\* EarnedChildrenQueued is inductive: completeTask hands the duty to its own lane.
LEMMA NextEarned ==
    ASSUME TypeOK, EarnedChildrenQueued, [Next]_vars
    PROVE  EarnedChildrenQueued'
  <1> SUFFICES ASSUME NEW t \in Task, task'[t].state = "DONE", t \notin dropped',
                      Earns(t, task'[t].discovered)
               PROVE  ChildrenIn(t)' \/ \E l \in Lane : StillOwes(l, t)'
    BY Zenon DEF EarnedChildrenQueued, InState, ChildrenIn, StillOwes
  <1>1. ASSUME NEW l \in Lane, Complete(l), lane[l].task = t
        PROVE  StillOwes(l, t)'
    <2>1. task'[t].discovered = lane[l].created
      BY <1>1 DEF Complete, TypeOK, Row
    <2>2. lane'[l].pc = "expand" /\ lane'[l].task = t /\ lane'[l].created = lane[l].created
      BY <1>1 DEF Complete, Goto, TypeOK, LaneLocals
    <2> QED BY <2>1, <2>2 DEF StillOwes, Works, Working
  <1>2. CASE /\ task[t].state = "DONE" /\ task'[t].discovered = task[t].discovered
             /\ t \in dropped => t \in dropped'
    <2>1. ChildrenIn(t) \/ \E l \in Lane : StillOwes(l, t)
      BY <1>2 DEF EarnedChildrenQueued, InState, ChildrenIn, StillOwes
    <2>2. ChildrenIn(t) => ChildrenIn(t)'
      BY RowSteps, CrawlAssumption DEF ChildrenIn
    <2> QED BY <2>1, <2>2, OwedSteps
  <1> QED BY <1>1, <1>2, RowSteps

\* A row that is done and earned its children has them in the frontier, or a lane
\* still owes them or hands the row back, unless a process died with the row in hand
\* or failTask itself threw: however lanes, releases and second claims interleave.
THEOREM NoHoles == Spec => []EarnedChildrenQueued
  <1>1. Init => EarnedChildrenQueued
    BY DEF Init, EarnedChildrenQueued, InState
  <1>2. TypeOK /\ EarnedChildrenQueued /\ [Next]_vars => EarnedChildrenQueued'
    BY NextEarned
  <1> QED BY <1>1, <1>2, TypeCorrect, PTL DEF Spec

-----------------------------------------------------------------------------
(* Terms: each is credited once, and none is lost to the demand index.     *)

\* What each step of a lane does to its own locals, and to the corpus and the signals.
LEMMA LaneFields ==
    ASSUME TypeOK, NEW l \in Lane
    PROVE  /\ Pick(l) => lane'[l].pc = "picked" /\ lane'[l].created = 0
           /\ Claim(l) => \/ lane'[l].pc = "idle"
                          \/ /\ lane[l].pc = "picked" /\ lane'[l].pc = "fetch"
                             /\ lane'[l].created = lane[l].created
           /\ Fetch(l) => /\ lane[l].pc = "fetch" /\ lane'[l].task = lane[l].task
                          /\ lane'[l].created = lane[l].created
                          /\ lane'[l].todo = Suggest[lane[l].task]
                          /\ lane'[l].pc = IF lane'[l].todo = {} THEN "complete" ELSE "lookup"
           /\ Lookup(l) => /\ lane[l].pc = "lookup" /\ lane'[l].task = lane[l].task
                           /\ lane'[l].created = lane[l].created
                           /\ lane'[l].term \in lane[l].todo
                           /\ lane'[l].todo = lane[l].todo \ {lane'[l].term}
                           /\ lane'[l].pc \in {"create", "signal"}
           /\ Create(l) => /\ lane[l].pc = "create" /\ lane'[l].task = lane[l].task
                           /\ lane'[l].todo = lane[l].todo /\ lane'[l].term = lane[l].term
                           /\ \/ lane'[l].pc = "fail" /\ corpus' = corpus
                              \/ /\ lane[l].term \in Term \ corpus
                                 /\ corpus' = corpus \union {lane[l].term}
                                 /\ lane'[l].pc = "signal"
                                 /\ lane'[l].created = lane[l].created + 1
           /\ Signal(l) => /\ lane[l].pc = "signal" /\ lane'[l].task = lane[l].task
                           /\ lane'[l].todo = lane[l].todo /\ lane'[l].created = lane[l].created
                           /\ signal' = signal \union {<<lane[l].task, lane[l].term>>}
                           /\ lane'[l].pc = IF lane[l].todo = {} THEN "complete" ELSE "lookup"
           /\ Complete(l) => lane[l].pc = "complete"
           /\ Complete(l) \/ Expand(l) \/ FailRead(l) \/ FailWrite(l) \/ Throw(l) =>
                lane'[l].pc \in {"idle", "expand", "fail", "requeue", "bury"}
  <1> DEFINE w == lane[l]
  <1>0. /\ w \in LaneLocals /\ lane \in [Lane -> LaneLocals]
        /\ Idle.pc = "idle" /\ Idle.created = 0
    BY DEF TypeOK, Idle
  <1> USE DEF At, Goto, Finish
  <1>1. ASSUME Pick(l)
        PROVE  lane'[l].pc = "picked" /\ lane'[l].created = 0
    BY <1>0, <1>1 DEF Pick, Idle
  <1>2. ASSUME Claim(l)
        PROVE  \/ lane'[l].pc = "idle"
               \/ /\ w.pc = "picked" /\ lane'[l].pc = "fetch"
                  /\ lane'[l].created = w.created
    <2>1. CASE CanClaim(task[w.task])
      BY <1>0, <1>2, <2>1 DEF Claim, LaneLocals
    <2>2. CASE ~CanClaim(task[w.task])
      BY <1>0, <1>2, <2>2 DEF Claim
    <2> QED BY <2>1, <2>2
  <1>3. ASSUME Fetch(l)
        PROVE  /\ w.pc = "fetch" /\ lane'[l].task = w.task
               /\ lane'[l].created = w.created
               /\ lane'[l].todo = Suggest[w.task]
               /\ lane'[l].pc = IF lane'[l].todo = {} THEN "complete" ELSE "lookup"
    BY <1>0, <1>3 DEF Fetch, LaneLocals
  <1>4. ASSUME Lookup(l)
        PROVE  /\ w.pc = "lookup" /\ lane'[l].task = w.task
               /\ lane'[l].created = w.created
               /\ lane'[l].term \in w.todo
               /\ lane'[l].todo = w.todo \ {lane'[l].term}
               /\ lane'[l].pc \in {"create", "signal"}
    <2>1. PICK x \in w.todo :
            lane' = [lane EXCEPT ![l] = [w EXCEPT !.term = x, !.todo = w.todo \ {x},
                                                  !.pc = IF x \in corpus THEN "signal" ELSE "create"]]
      BY <1>4 DEF Lookup
    <2>2. w.pc = "lookup"
      BY <1>4 DEF Lookup
    <2> QED BY <1>0, <2>1, <2>2 DEF LaneLocals
  <1>5. ASSUME Create(l)
        PROVE  /\ w.pc = "create" /\ lane'[l].task = w.task
               /\ lane'[l].todo = w.todo /\ lane'[l].term = w.term
               /\ \/ lane'[l].pc = "fail" /\ corpus' = corpus
                  \/ /\ w.term \in Term \ corpus
                     /\ corpus' = corpus \union {w.term}
                     /\ lane'[l].pc = "signal"
                     /\ lane'[l].created = w.created + 1
    <2>1. w.pc = "create" /\ w.term \in Term
      BY <1>0, <1>5 DEF Create, LaneLocals
    <2>2. CASE w.term \in corpus
      BY <1>0, <1>5, <2>1, <2>2 DEF Create, LaneLocals
    <2>3. CASE w.term \notin corpus
      BY <1>0, <1>5, <2>1, <2>3 DEF Create, LaneLocals
    <2> QED BY <2>2, <2>3
  <1>6. ASSUME Signal(l)
        PROVE  /\ w.pc = "signal" /\ lane'[l].task = w.task
               /\ lane'[l].todo = w.todo /\ lane'[l].created = w.created
               /\ signal' = signal \union {<<w.task, w.term>>}
               /\ lane'[l].pc = IF w.todo = {} THEN "complete" ELSE "lookup"
    BY <1>0, <1>6 DEF Signal, LaneLocals
  <1>7. ASSUME Complete(l) \/ Expand(l) \/ FailRead(l) \/ FailWrite(l) \/ Throw(l)
        PROVE  /\ Complete(l) => w.pc = "complete"
               /\ lane'[l].pc \in {"idle", "expand", "fail", "requeue", "bury"}
    BY <1>0, <1>7 DEF Complete, Expand, FailRead, FailWrite, Throw, LaneLocals
  <1> QED BY <1>1, <1>2, <1>3, <1>4, <1>5, <1>6, <1>7

\* Who moves: a lane by its own step, or a dying process's lanes to idle.
LEMMA LaneMoves ==
    ASSUME TypeOK, [Next]_vars
    PROVE  \/ /\ \A l \in Lane : lane'[l] = lane[l] \/ lane'[l].pc = "idle"
              /\ corpus' = corpus /\ signal' = signal
              /\ \A t \in Task : task'[t].discovered = task[t].discovered
           \/ \E l \in Lane : /\ LaneStep(l) \/ Throw(l)
                              /\ \A m \in Lane \ {l} : lane'[m] = lane[m]
                              /\ Create(l) \/ corpus' = corpus
                              /\ Signal(l) \/ signal' = signal
                              /\ \A t \in Task : \/ task'[t].discovered = task[t].discovered
                                                 \/ Complete(l) /\ t = lane[l].task
  <1>0. lane \in [Lane -> LaneLocals] /\ task \in [Task -> Row] /\ aged \in SUBSET Task
          /\ Root \in SUBSET Task /\ Idle.pc = "idle"
    BY CrawlAssumption DEF TypeOK, Idle
  <1>1. \A rows \in [Task -> Row], tasks \in SUBSET Task, t \in Task :
          /\ Queued(tasks, rows)[t].discovered = rows[t].discovered
          /\ Released(tasks, rows)[t].discovered = rows[t].discovered
    BY RequeuedCount DEF Queued, Released
  <1>2. ASSUME NEW r \in Run, Start(r)
        PROVE  \A t \in Task : task'[t].discovered = task[t].discovered
    <2>1. Released(Task, task) \in [Task -> Row]
      BY <1>0, BulkUpdates
    <2> QED BY <1>0, <1>1, <1>2, <2>1 DEF Start
  <1>3. ASSUME NEW r \in Run, Exit(r) \/ Maintain(r)
        PROVE  \A t \in Task : task'[t].discovered = task[t].discovered
    BY <1>0, <1>1, <1>3 DEF Exit, Maintain
  <1>4. ASSUME NEW r \in Run, Crash(r)
        PROVE  \A l \in Lane : lane'[l] = lane[l] \/ lane'[l].pc = "idle"
    BY <1>0, <1>4 DEF Crash
  <1>5. ASSUME NEW l \in Lane, LaneStep(l) \/ Throw(l), NEW t \in Task
        PROVE  \/ task'[t].discovered = task[t].discovered
               \/ Complete(l) /\ t = lane[l].task
    <2>0. task[t] \in Row /\ (lane[l].pc # "idle" => lane[l].task \in Task)
      BY <1>0 DEF LaneLocals
    <2>1. CASE Claim(l)
      BY <1>0, <2>0, <2>1 DEF Claim, Row
    <2>2. CASE Complete(l)
      BY <1>0, <2>0, <2>2 DEF Complete, Row
    <2>3. CASE Expand(l)
      <3>1. Children[lane[l].task] \in SUBSET Task
        BY <2>0, <2>3, CrawlAssumption DEF Expand, At
      <3> QED BY <1>0, <1>1, <2>3, <3>1 DEF Expand
    <2>4. CASE FailWrite(l)
      BY <1>0, <2>0, <2>4, RequeuedCount DEF FailWrite, Row
    <2>5. CASE UNCHANGED task
      BY <2>5
    <2> QED
      BY <1>5, <2>1, <2>2, <2>3, <2>4, <2>5
      DEF LaneStep, Pick, Fetch, Lookup, Create, Signal, FailRead, Throw
  <1>6. ASSUME NEW l \in Lane, LaneStep(l) \/ Throw(l)
        PROVE  /\ Create(l) \/ corpus' = corpus
               /\ Signal(l) \/ signal' = signal
    BY <1>6, Zenon DEF LaneStep, Throw, Pick, Claim, Fetch, Lookup, Create, Signal, Complete, Expand,
        FailRead, FailWrite
  <1>7. ASSUME NEW l \in Lane, LaneStep(l) \/ Throw(l)
        PROVE  \A m \in Lane \ {l} : lane'[m] = lane[m]
    BY <1>7, LaneStepLocals
  <1>8. \/ \E l \in Lane : LaneStep(l) \/ Throw(l)
        \/ /\ \E r \in Run : Start(r) \/ Exit(r) \/ Maintain(r)
           /\ UNCHANGED <<lane, corpus, signal>>
        \/ /\ \E r \in Run : Crash(r)
           /\ UNCHANGED <<task, corpus, signal>>
        \/ UNCHANGED <<task, lane, corpus, signal>>
    BY Zenon DEF Next, vars, Start, Exit, Maintain, Crash, Stop, Age
  <1> QED BY <1>2, <1>3, <1>4, <1>5, <1>6, <1>7, <1>8

\* A crawl leaves nothing out: each suggestion of its row is still to be written, is
\* being written, or has been observed by that row; at the end all have been.
Observes(w, seen) ==
    w.pc \in {"lookup", "create", "signal", "complete"} =>
        /\ w.todo \subseteq Suggest[w.task]
        /\ w.pc \in {"create", "signal"} => w.term \in Suggest[w.task]
        /\ w.pc = "complete" => w.todo = {}
        /\ \A x \in Suggest[w.task] :
             \/ x \in w.todo
             \/ w.pc \in {"create", "signal"} /\ x = w.term
             \/ <<w.task, x>> \in seen

\* So a row that is done has observed all its suggestions, and a term is in the
\* corpus only because some row suggests it.
Observation ==
    /\ \A l \in Lane : Observes(lane[l], signal)
    /\ \A t \in InState("DONE") : \A x \in Suggest[t] : <<t, x>> \in signal
    /\ \A x \in corpus : \E t \in Task : x \in Suggest[t]

\* Observation is inductive.
LEMMA NextObservation ==
    ASSUME TypeOK, Observation, [Next]_vars
    PROVE  Observation'
  <1>1. signal \subseteq signal'
    BY LaneMoves DEF Signal
  <1>2. ASSUME NEW l \in Lane, lane'[l] = lane[l] \/ lane'[l].pc = "idle"
        PROVE  Observes(lane'[l], signal')
    <2>1. Observes(lane[l], signal)
      BY DEF Observation
    <2> QED BY <1>1, <1>2, <2>1 DEF Observes
  <1>3. ASSUME NEW l \in Lane, LaneStep(l) \/ Throw(l)
        PROVE  Observes(lane'[l], signal')
    <2>0. Observes(lane[l], signal)
      BY DEF Observation
    <2>1. CASE Pick(l) \/ Claim(l) \/ Complete(l) \/ Expand(l) \/ FailRead(l) \/ FailWrite(l) \/ Throw(l)
      <3>1. lane'[l].pc \in {"picked", "fetch", "idle", "expand", "fail", "requeue", "bury"}
        BY <2>1, LaneFields
      <3> QED BY <3>1 DEF Observes
    <2>2. CASE Fetch(l)
      BY <2>2, LaneFields DEF Observes
    <2>3. CASE Lookup(l)
      BY <1>1, <2>0, <2>3, LaneFields DEF Observes
    <2>4. CASE Create(l)
      BY <1>1, <2>0, <2>4, LaneFields DEF Observes
    <2>5. CASE Signal(l)
      BY <2>0, <2>5, LaneFields DEF Observes
    <2> QED BY <1>3, <2>1, <2>2, <2>3, <2>4, <2>5 DEF LaneStep
  <1>4. ASSUME NEW t \in Task, task'[t].state = "DONE", NEW x \in Suggest[t]
        PROVE  <<t, x>> \in signal'
    <2>1. CASE task[t].state = "DONE"
      BY <1>1, <2>1 DEF Observation, InState
    <2>2. ASSUME NEW l \in Lane, Complete(l), lane[l].task = t
          PROVE  <<t, x>> \in signal'
      <3>1. lane[l].pc = "complete" /\ Observes(lane[l], signal)
        BY <2>2, LaneFields DEF Observation
      <3> QED BY <1>1, <2>2, <3>1 DEF Observes
    <2> QED BY <1>4, <2>1, <2>2, RowSteps
  <1>5. ASSUME NEW x \in corpus'
        PROVE  \E t \in Task : x \in Suggest[t]
    <2>1. CASE x \in corpus
      BY <2>1 DEF Observation
    <2>2. ASSUME NEW l \in Lane, Create(l), x \notin corpus
          PROVE  \E t \in Task : x \in Suggest[t]
      <3>1. lane[l].pc = "create" /\ x = lane[l].term /\ Observes(lane[l], signal)
        BY <1>5, <2>2, LaneFields DEF Observation
      <3>2. lane[l].task \in Task
        BY <3>1 DEF TypeOK, LaneLocals
      <3> QED BY <3>1, <3>2 DEF Observes
    <2> QED BY <1>5, <2>1, <2>2, LaneMoves
  <1>6. \A l \in Lane : Observes(lane'[l], signal')
    BY <1>2, <1>3, LaneMoves
  <1> QED BY <1>4, <1>5, <1>6 DEF Observation, InState

\* A term that exists but was observed by no row is still to be observed: the row
\* that suggests it is not done.
LEMMA NothingLost == Observation => NoTermUnobserved
  BY DEF Observation, NoTermUnobserved, InState

\* A crawl starts with nothing created, and the corpus is finite.
Credits ==
    /\ IsFiniteSet(corpus)
    /\ CreditedOnce
    /\ \A l \in Lane : lane[l].pc \in {"picked", "fetch"} => lane[l].created = 0

\* The two ways a charge changes: a new term is charged to a lane, and what was
\* charged to a lane is charged to a row from now on.
ToLane(owner, x, l) ==
    [z \in DOMAIN owner \union {x} |-> IF z = x THEN <<"lane", l>> ELSE owner[z]]
ToRow(owner, l, t) ==
    [z \in DOMAIN owner |-> IF owner[z] = <<"lane", l>> THEN <<"row", t>> ELSE owner[z]]

\* A term that was not in the corpus is charged to the lane that created it.
LEMMA ChargeCreator ==
    ASSUME NEW terms, IsFiniteSet(terms), NEW owner \in [terms -> Account],
           NEW x, x \notin terms, NEW l \in Lane
    PROVE  /\ ToLane(owner, x, l) \in [terms \union {x} -> Account]
           /\ \A a \in Account \ {<<"lane", l>>} : Charged(ToLane(owner, x, l), a) = Charged(owner, a)
           /\ Charged(ToLane(owner, x, l), <<"lane", l>>) = Charged(owner, <<"lane", l>>) + 1
  <1> DEFINE owner2 == [z \in terms \union {x} |-> IF z = x THEN <<"lane", l>> ELSE owner[z]]
             mine == {z \in DOMAIN owner : owner[z] = <<"lane", l>>}
  <1>1. owner2 \in [terms \union {x} -> Account]
    BY DEF Account
  <1>2. ASSUME NEW a \in Account, a # <<"lane", l>>
        PROVE  Charged(owner2, a) = Charged(owner, a)
    <2>1. {z \in DOMAIN owner2 : owner2[z] = a} = {z \in DOMAIN owner : owner[z] = a}
      BY <1>2
    <2> QED BY <2>1 DEF Charged
  <1>3. {z \in DOMAIN owner2 : owner2[z] = <<"lane", l>>} = mine \union {x}
    OBVIOUS
  <1>4. IsFiniteSet(mine) /\ x \notin mine
    BY FS_Subset
  <1>5. Cardinality(mine \union {x}) = Cardinality(mine) + 1 /\ Cardinality(mine) \in Nat
    BY <1>4, FS_AddElement, FS_CardinalityType
  <1>6. Charged(owner2, <<"lane", l>>) = Charged(owner, <<"lane", l>>) + 1
    BY <1>3, <1>5 DEF Charged
  <1>7. ToLane(owner, x, l) = owner2
    BY DEF ToLane
  <1> HIDE DEF owner2
  <1> QED BY <1>1, <1>2, <1>6, <1>7

\* What a lane has created becomes what its row has discovered.
LEMMA ChargeRow ==
    ASSUME NEW terms, IsFiniteSet(terms), NEW owner \in [terms -> Account],
           NEW t \in Task, NEW l \in Lane
    PROVE  /\ ToRow(owner, l, t) \in [terms -> Account]
           /\ \A a \in Account \ {<<"lane", l>>, <<"row", t>>} :
                Charged(ToRow(owner, l, t), a) = Charged(owner, a)
           /\ Charged(owner, <<"lane", l>>) <= Charged(ToRow(owner, l, t), <<"row", t>>)
           /\ Charged(ToRow(owner, l, t), <<"row", t>>) \in Nat
  <1> DEFINE owner2 == [z \in terms |-> IF owner[z] = <<"lane", l>> THEN <<"row", t>> ELSE owner[z]]
             made  == {z \in DOMAIN owner : owner[z] = <<"lane", l>>}
             found == {z \in DOMAIN owner2 : owner2[z] = <<"row", t>>}
  <1>1. owner2 \in [terms -> Account]
    BY DEF Account
  <1>2. ASSUME NEW a \in Account, a # <<"lane", l>>, a # <<"row", t>>
        PROVE  Charged(owner2, a) = Charged(owner, a)
    <2>1. {z \in DOMAIN owner2 : owner2[z] = a} = {z \in DOMAIN owner : owner[z] = a}
      BY <1>2
    <2> QED BY <2>1 DEF Charged
  <1>3. made \subseteq found /\ found \subseteq terms
    OBVIOUS
  <1>4. /\ Cardinality(made) \in Nat /\ Cardinality(found) \in Nat
        /\ Cardinality(made) <= Cardinality(found)
    BY <1>3, FS_Subset, FS_CardinalityType
  <1>5. /\ Charged(owner, <<"lane", l>>) <= Charged(owner2, <<"row", t>>)
        /\ Charged(owner2, <<"row", t>>) \in Nat
    BY <1>4 DEF Charged
  <1>6. ToRow(owner, l, t) = owner2
    BY DEF ToRow
  <1> HIDE DEF owner2
  <1> QED BY <1>1, <1>2, <1>5, <1>6

\* Credits is inductive: a created term is charged to its lane, a completed crawl's
\* terms to its row, and any other step leaves what is credited alone or starts at 0.
LEMMA NextCredits ==
    ASSUME TypeOK, Credits, [Next]_vars
    PROVE  Credits'
  <1>0. /\ \A l \in Lane : /\ lane[l].created \in Nat /\ lane'[l].created \in Nat
                           /\ lane[l].pc # "idle" => lane[l].task \in Task
        /\ \A t \in Task : task[t].discovered \in Nat /\ task'[t].discovered \in Nat
    BY NextTypeOK DEF TypeOK, LaneLocals, Row
  <1>1. PICK owner \in [corpus -> Account] :
          /\ \A t \in Task : task[t].discovered <= Charged(owner, <<"row", t>>)
          /\ \A l \in Lane : Crawling(l) => lane[l].created <= Charged(owner, <<"lane", l>>)
    BY DEF Credits, CreditedOnce
  <1>2. \A a \in Account : Charged(owner, a) \in Nat
    BY FS_Subset, FS_CardinalityType DEF Charged, Credits
  <1>3. /\ \A t \in Task : <<"row", t>> \in Account
        /\ \A l \in Lane : <<"lane", l>> \in Account
        /\ \A t \in Task, l \in Lane : <<"row", t>> # <<"lane", l>>
    BY DEF Account
  <1>4. ASSUME corpus' = corpus,
               \A t \in Task : task'[t].discovered = task[t].discovered,
               \A l \in Lane : \/ lane'[l] = lane[l]
                               \/ ~Crawling(l)'
                               \/ Crawling(l) /\ lane'[l].created = lane[l].created
                               \/ lane'[l].created = 0
        PROVE  IsFiniteSet(corpus)' /\ CreditedOnce'
    <2>1. \A l \in Lane : Crawling(l)' => lane'[l].created <= Charged(owner, <<"lane", l>>)
      BY <1>0, <1>1, <1>2, <1>3, <1>4 DEF Crawling
    <2>2. \A t \in Task : task'[t].discovered <= Charged(owner, <<"row", t>>)
      BY <1>1, <1>4
    <2> QED BY <1>1, <1>4, <2>1, <2>2 DEF CreditedOnce, Credits
  <1>5. ASSUME NEW l \in Lane, Create(l), lane'[l].pc = "signal", lane[l].pc = "create",
               lane[l].term \in Term \ corpus, corpus' = corpus \union {lane[l].term},
               lane'[l].created = lane[l].created + 1,
               \A m \in Lane \ {l} : lane'[m] = lane[m],
               \A t \in Task : task'[t].discovered = task[t].discovered
        PROVE  IsFiniteSet(corpus)' /\ CreditedOnce'
    <2> DEFINE owner2 == ToLane(owner, lane[l].term, l)
    <2>1. /\ owner2 \in [corpus' -> Account]
          /\ \A a \in Account \ {<<"lane", l>>} : Charged(owner2, a) = Charged(owner, a)
          /\ Charged(owner2, <<"lane", l>>) = Charged(owner, <<"lane", l>>) + 1
      <3>1. IsFiniteSet(corpus) /\ lane[l].term \notin corpus
        BY <1>5 DEF Credits
      <3>2. /\ owner2 \in [corpus \union {lane[l].term} -> Account]
            /\ \A a \in Account \ {<<"lane", l>>} : Charged(owner2, a) = Charged(owner, a)
            /\ Charged(owner2, <<"lane", l>>) = Charged(owner, <<"lane", l>>) + 1
        <4>1. PICK x : x = lane[l].term
          OBVIOUS
        <4>2. /\ ToLane(owner, x, l) \in [corpus \union {x} -> Account]
              /\ \A a \in Account \ {<<"lane", l>>} : Charged(ToLane(owner, x, l), a) = Charged(owner, a)
              /\ Charged(ToLane(owner, x, l), <<"lane", l>>) = Charged(owner, <<"lane", l>>) + 1
          BY <3>1, <4>1, ChargeCreator
        <4> QED BY <4>1, <4>2
      <3> QED BY <1>5, <3>2
    <2> HIDE DEF owner2
    <2>2. \A t \in Task : task'[t].discovered <= Charged(owner2, <<"row", t>>)
      BY <1>1, <1>3, <1>5, <2>1
    <2>3. ASSUME NEW m \in Lane, Crawling(m)'
          PROVE  lane'[m].created <= Charged(owner2, <<"lane", m>>)
      <3>1. CASE m = l
        BY <1>0, <1>1, <1>2, <1>3, <1>5, <2>1, <3>1 DEF Crawling
      <3>2. CASE m # l
        <4>1. <<"lane", m>> # <<"lane", l>> /\ Crawling(m) /\ lane'[m] = lane[m]
          BY <1>5, <2>3, <3>2 DEF Crawling
        <4> QED BY <1>1, <1>3, <2>1, <4>1
      <3> QED BY <3>1, <3>2
    <2>4. IsFiniteSet(corpus)'
      BY <1>5, FS_AddElement DEF Credits
    <2> QED BY <2>1, <2>2, <2>3, <2>4 DEF CreditedOnce
  <1>6. ASSUME NEW l \in Lane, Complete(l), lane[l].pc = "complete", lane'[l].pc = "expand",
               corpus' = corpus, \A m \in Lane \ {l} : lane'[m] = lane[m],
               \A t \in Task \ {lane[l].task} : task'[t].discovered = task[t].discovered
        PROVE  IsFiniteSet(corpus)' /\ CreditedOnce'
    <2> DEFINE r == lane[l].task
               owner2 == ToRow(owner, l, r)
    <2>0. r \in Task /\ task'[r].discovered = lane[l].created /\ Crawling(l)
      BY <1>0, <1>6 DEF Complete, TypeOK, Row, Crawling
    <2>1. /\ owner2 \in [corpus' -> Account]
          /\ \A a \in Account \ {<<"lane", l>>, <<"row", r>>} : Charged(owner2, a) = Charged(owner, a)
          /\ Charged(owner, <<"lane", l>>) <= Charged(owner2, <<"row", r>>)
          /\ Charged(owner2, <<"row", r>>) \in Nat
      <3>1. IsFiniteSet(corpus)
        BY DEF Credits
      <3>2. /\ owner2 \in [corpus -> Account]
            /\ \A a \in Account \ {<<"lane", l>>, <<"row", r>>} : Charged(owner2, a) = Charged(owner, a)
            /\ Charged(owner, <<"lane", l>>) <= Charged(owner2, <<"row", r>>)
            /\ Charged(owner2, <<"row", r>>) \in Nat
        BY <2>0, <3>1, ChargeRow
      <3> QED BY <1>6, <3>2
    <2> HIDE DEF owner2, r
    <2>2. ASSUME NEW t \in Task
          PROVE  task'[t].discovered <= Charged(owner2, <<"row", t>>)
      <3>1. CASE t = r
        BY <1>0, <1>1, <1>2, <1>3, <2>0, <2>1, <3>1
      <3>2. CASE t # r
        <4>1. <<"row", t>> # <<"row", r>> /\ task'[t].discovered = task[t].discovered
          BY <1>6, <3>2 DEF r
        <4> QED BY <1>1, <1>3, <2>1, <4>1
      <3> QED BY <3>1, <3>2
    <2>3. ASSUME NEW m \in Lane, Crawling(m)'
          PROVE  lane'[m].created <= Charged(owner2, <<"lane", m>>)
      <3>1. m # l
        BY <1>6, <2>3 DEF Crawling
      <3>2. <<"lane", m>> # <<"lane", l>> /\ Crawling(m) /\ lane'[m] = lane[m]
        BY <1>6, <2>3, <3>1 DEF Crawling
      <3> QED BY <1>1, <1>3, <2>0, <2>1, <3>2
    <2> QED BY <1>6, <2>1, <2>2, <2>3 DEF CreditedOnce, Credits
  <1>7. ASSUME NEW l \in Lane, LaneStep(l) \/ Throw(l)
        PROVE  \/ Create(l) /\ lane'[l].pc = "signal"
               \/ Complete(l)
               \/ ~Crawling(l)'
               \/ Crawling(l) /\ lane'[l].created = lane[l].created
               \/ lane'[l].created = 0
    <2>1. CASE Pick(l) \/ Claim(l) \/ Expand(l) \/ FailRead(l) \/ FailWrite(l) \/ Throw(l)
      BY <2>1, LaneFields DEF Crawling
    <2>2. CASE Fetch(l)
      BY <2>2, LaneFields DEF Credits
    <2>3. CASE Lookup(l) \/ Signal(l)
      BY <2>3, LaneFields DEF Crawling
    <2>4. CASE Create(l)
      BY <2>4, LaneFields DEF Crawling
    <2> QED BY <1>7, <2>1, <2>2, <2>3, <2>4 DEF LaneStep
  <1>8. IsFiniteSet(corpus)' /\ CreditedOnce'
    <2>1. CASE /\ \A l \in Lane : lane'[l] = lane[l] \/ lane'[l].pc = "idle"
               /\ corpus' = corpus
               /\ \A t \in Task : task'[t].discovered = task[t].discovered
      BY <1>4, <2>1 DEF Crawling
    <2>2. ASSUME NEW l \in Lane, LaneStep(l) \/ Throw(l),
                 \A m \in Lane \ {l} : lane'[m] = lane[m],
                 Create(l) \/ corpus' = corpus,
                 \A t \in Task : \/ task'[t].discovered = task[t].discovered
                                 \/ Complete(l) /\ t = lane[l].task
          PROVE  IsFiniteSet(corpus)' /\ CreditedOnce'
      <3>1. CASE Create(l) /\ lane'[l].pc = "signal"
        <4>1. ~Complete(l)
          BY <3>1 DEF Create, Complete, At
        <4> QED BY <1>5, <2>2, <3>1, <4>1, LaneFields
      <3>2. CASE Complete(l)
        <4>1. /\ lane[l].pc = "complete" /\ lane'[l].pc = "expand" /\ corpus' = corpus
          BY <3>2 DEF Complete, At, Goto, TypeOK, LaneLocals
        <4> QED BY <1>6, <2>2, <3>2, <4>1
      <3>3. CASE ~(Create(l) /\ lane'[l].pc = "signal") /\ ~Complete(l)
        <4>1. corpus' = corpus
          BY <2>2, <3>3, LaneFields
        <4> QED BY <1>4, <1>7, <2>2, <3>3, <4>1
      <3> QED BY <3>1, <3>2, <3>3
    <2> QED BY <2>1, <2>2, LaneMoves
  <1>9. ASSUME NEW l \in Lane, lane'[l].pc \in {"picked", "fetch"}
        PROVE  lane'[l].created = 0
    <2>1. CASE lane'[l] = lane[l] \/ lane'[l].pc = "idle"
      BY <1>9, <2>1 DEF Credits
    <2>2. CASE LaneStep(l) \/ Throw(l)
      <3>1. CASE Pick(l) \/ Claim(l)
        BY <1>9, <3>1, LaneFields DEF Credits
      <3>2. CASE Fetch(l) \/ Lookup(l) \/ Create(l) \/ Signal(l)
        BY <1>9, <3>2, LaneFields
      <3>3. CASE Complete(l) \/ Expand(l) \/ FailRead(l) \/ FailWrite(l) \/ Throw(l)
        BY <1>9, <3>3, LaneFields
      <3> QED BY <2>2, <3>1, <3>2, <3>3 DEF LaneStep
    <2> QED BY <2>1, <2>2, LaneMoves
  <1> QED BY <1>8, <1>9 DEF Credits

\* A new term is credited to one execution only, whoever raced to create it, and a
\* term that was created is observed or still to be observed by a row that is not
\* done: the corpus neither feeds its own growth nor hides terms from the index.
THEOREM TermsAreAccounted == Spec => []TermsAccounted
  <1>1. Init => Observation /\ Credits
    <2>1. ASSUME Init
          PROVE  CreditedOnce
      <3>1. /\ corpus = {} /\ \A t \in Task : task[t].discovered = 0
            /\ \A l \in Lane : ~Crawling(l)
        BY <2>1 DEF Init, Crawling, Idle
      <3>2. PICK owner \in [corpus -> Account] : TRUE
        <4>1. [x \in corpus |-> x] \in [corpus -> Account]
          BY <3>1
        <4> QED BY <4>1
      <3>3. ASSUME NEW t \in Task
            PROVE  task[t].discovered <= Charged(owner, <<"row", t>>)
        <4>1. {x \in DOMAIN owner : owner[x] = <<"row", t>>} = {}
          BY <3>1, <3>2
        <4>2. Charged(owner, <<"row", t>>) = 0
          BY <4>1, FS_EmptySet DEF Charged
        <4> QED BY <3>1, <4>2
      <3> QED BY <3>1, <3>2, <3>3, Zenon DEF CreditedOnce
    <2> QED
      BY <2>1, FS_EmptySet DEF Init, Observation, Observes, Credits, InState, Idle
  <1>2. TypeOK /\ Observation /\ Credits /\ [Next]_vars => Observation' /\ Credits'
    BY NextObservation, NextCredits
  <1>3. Observation /\ Credits => TermsAccounted
    BY NothingLost DEF Credits, TermsAccounted
  <1> QED BY <1>1, <1>2, <1>3, TypeCorrect, PTL DEF Spec
=============================================================================
