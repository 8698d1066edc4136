---------------------------- MODULE BackgroundProofs ----------------------------
(***************************************************************************)
(* What runs behind the pages: a host sees one call an interval, for any   *)
(* number of callers, any interval and any short sleep; a periodic job is  *)
(* kept up and a request for it heard, for any number of attempts, of      *)
(* other jobs and of hours; a digest goes out once a period and skips no   *)
(* day, whatever its hour, the number of attempts and what goes wrong; the *)
(* cache serves nothing older than two ttls and a load; and a rate limit   *)
(* lets twice its limit through in a window's length at most.              *)
(***************************************************************************)
EXTENDS MCBackground, Sequences, FiniteSetTheorems, TLAPS

-----------------------------------------------------------------------------
(* The slot of a host                                                      *)

Lanes == [Lane -> [at : {"away", "set", "pttl", "asleep"}, sleep : Nat]]

\* The key and the clock since the last call are one: the slot is free exactly when a
\* whole interval has passed.  Nobody sleeps longer than there is a key to wait for.
IInv ==
    /\ lane \in Lanes
    /\ slot \in Nat /\ since \in Nat /\ slot + since = Interval
    /\ close = Interval
    /\ \A l \in Lane : lane[l].sleep <= slot \/ lane[l].sleep <= Short

-----------------------------------------------------------------------------

\* Nobody calls at first, and the slot is free.
LEMMA InitIInv == ASSUME Interval \in Nat, Short \in Nat, Init PROVE IInv
  BY DEF Init, IInv, Lanes, Away

\* A caller's own step, other than taking the slot, changes what it does and nothing else.
LEMMA LaneStep ==
    ASSUME NEW l \in Lane, NEW new \in [at : {"away", "set", "pttl", "asleep"}, sleep : Nat],
           Interval \in Nat, Short \in Nat, IInv, lane' = [lane EXCEPT ![l] = new],
           new.sleep <= slot \/ new.sleep <= Short,
           UNCHANGED <<slot, since, close>>
    PROVE  IInv'
  <1>1. lane' \in Lanes
    BY DEF IInv, Lanes
  <1>2. \A k \in Lane : lane'[k] = IF k = l THEN new ELSE lane[k]
    BY DEF IInv, Lanes
  <1> QED
    BY <1>1, <1>2 DEF IInv

\* The steps of a caller.
LEMMA CallerIInv ==
    ASSUME NEW l \in Lane, Interval \in Nat, Short \in Nat, IInv,
           Want(l) \/ Take(l) \/ Miss(l) \/ ReadTtl(l) \/ Wake(l)
    PROVE  IInv'
  <1> DEFINE Kind == [at : {"away", "set", "pttl", "asleep"}, sleep : Nat]
  <1>1. lane[l] \in Kind /\ slot \in Nat
    BY DEF IInv, Lanes
  <1>2. CASE Want(l)
    <2> DEFINE new == [lane[l] EXCEPT !.at = "set"]
    <2>1. new \in Kind /\ new.sleep = lane[l].sleep
      BY <1>1
    <2>2. lane' = [lane EXCEPT ![l] = new] /\ UNCHANGED <<slot, since, close>>
      BY <1>2 DEF Want
    <2> QED
      BY <2>1, <2>2, LaneStep DEF IInv
  <1>3. CASE Take(l)
    <2>1. slot = 0 /\ slot' = Interval /\ since' = 0 /\ lane' = [lane EXCEPT ![l] = Away]
      BY <1>3 DEF Take, Free
    <2>2. since = Interval /\ close' = Interval
      BY <1>3, <2>1 DEF Take, IInv
    <2>3. lane' \in Lanes
      BY <2>1 DEF IInv, Lanes, Away
    <2>4. ASSUME NEW k \in Lane PROVE lane'[k].sleep <= slot' \/ lane'[k].sleep <= Short
      <3>1. lane'[k].sleep = IF k = l THEN 0 ELSE lane[k].sleep
        BY <2>1 DEF IInv, Lanes, Away
      <3>2. lane[k].sleep \in Nat /\ (lane[k].sleep <= slot \/ lane[k].sleep <= Short)
        BY DEF IInv, Lanes
      <3> QED
        BY <2>1, <3>1, <3>2
    <2> QED
      BY <2>1, <2>2, <2>3, <2>4 DEF IInv
  <1>4. CASE Miss(l)
    <2> DEFINE new == [lane[l] EXCEPT !.at = "pttl"]
    <2>1. new \in Kind /\ new.sleep = lane[l].sleep
      BY <1>1
    <2>2. lane' = [lane EXCEPT ![l] = new] /\ UNCHANGED <<slot, since, close>>
      BY <1>4 DEF Miss
    <2> QED
      BY <2>1, <2>2, LaneStep DEF IInv
  <1>5. CASE ReadTtl(l)
    <2> DEFINE new == Asleep(IF slot > 0 THEN slot ELSE Short)
    <2>1. new \in Kind /\ (new.sleep <= slot \/ new.sleep <= Short)
      BY <1>1 DEF Asleep
    <2>2. lane' = [lane EXCEPT ![l] = new] /\ UNCHANGED <<slot, since, close>>
      BY <1>5 DEF ReadTtl
    <2> QED
      BY <2>1, <2>2, LaneStep
  <1>6. CASE Wake(l)
    <2> DEFINE new == [lane[l] EXCEPT !.at = "set"]
    <2>1. new \in Kind /\ new.sleep = lane[l].sleep
      BY <1>1
    <2>2. lane' = [lane EXCEPT ![l] = new] /\ UNCHANGED <<slot, since, close>>
      BY <1>6 DEF Wake
    <2> QED
      BY <2>1, <2>2, LaneStep DEF IInv
  <1> QED
    BY <1>2, <1>3, <1>4, <1>5, <1>6

\* A millisecond takes one off the key and off every sleep, and adds one since the last call.
LEMMA TickIInv ==
    ASSUME Interval \in Nat, Short \in Nat, IInv, Tick
    PROVE  IInv'
  <1>1. slot' \in Nat /\ since' \in Nat /\ slot' + since' = Interval
    BY DEF IInv, Tick
  <1>2. lane' = [l \in Lane |-> IF lane[l].sleep > 0 THEN Asleep(lane[l].sleep - 1) ELSE lane[l]]
    BY DEF Tick
  <1>3. ASSUME NEW l \in Lane
        PROVE  /\ lane'[l] \in [at : {"away", "set", "pttl", "asleep"}, sleep : Nat]
               /\ lane'[l].sleep <= slot' \/ lane'[l].sleep <= Short
    <2>1. lane[l] \in [at : {"away", "set", "pttl", "asleep"}, sleep : Nat]
      BY DEF IInv, Lanes
    <2>2. lane[l].sleep <= slot \/ lane[l].sleep <= Short
      BY DEF IInv
    <2>3. CASE lane[l].sleep > 0
      <3>1. lane'[l] = [at |-> "asleep", sleep |-> lane[l].sleep - 1]
        BY <1>2, <2>3 DEF Asleep
      <3>2. slot \in Nat /\ slot' = IF slot > 0 THEN slot - 1 ELSE 0
        BY DEF Tick, IInv
      <3> QED
        BY <2>1, <2>2, <2>3, <3>1, <3>2
    <2>4. CASE ~(lane[l].sleep > 0)
      <3>1. lane'[l] = lane[l] /\ lane[l].sleep = 0
        BY <1>2, <2>1, <2>4
      <3> QED
        BY <2>1, <3>1
    <2> QED
      BY <2>3, <2>4
  <1>4. lane' \in Lanes
    BY <1>2, <1>3 DEF Lanes
  <1>5. close' = Interval
    BY DEF Tick, IInv
  <1> QED
    BY <1>1, <1>3, <1>4, <1>5 DEF IInv

\* IInv is inductive.
LEMMA NextIInv ==
    ASSUME Interval \in Nat, Short \in Nat, IInv, [Next]_vars
    PROVE  IInv'
  <1>1. CASE \E l \in Lane : Want(l) \/ Take(l) \/ Miss(l) \/ ReadTtl(l) \/ Wake(l)
    BY <1>1, CallerIInv
  <1>2. CASE Tick
    BY <1>2, TickIInv
  <1>3. CASE UNCHANGED vars
    BY <1>3 DEF IInv, vars
  <1> QED
    BY <1>1, <1>2, <1>3 DEF Next

\* throttleHost paces a host, and lets nobody sleep past the slot it waits for.
THEOREM HostPaced == Spec => []Paced
  <1>1. Init => IInv
    BY InitIInv, HostAssumption
  <1>2. IInv /\ [Next]_vars => IInv'
    BY NextIInv, HostAssumption
  <1>3. IInv => Paced
    BY HostAssumption DEF IInv, Paced, Lanes
  <1> QED
    BY <1>1, <1>2, <1>3, PTL DEF Spec

-----------------------------------------------------------------------------
(* The schedule.  A slot is served in its hour or ignored, and it is       *)
(* ignored only because the job before it is still known.  Three jobs      *)
(* complete in an hour and one of them keeps 24, so a completed job is     *)
(* known in the nine hours after its own and no longer.                    *)

Queueing == Attempts \in Nat /\ OtherJobs \subseteq Nat

Phases == {"tick", "added", "first", "second", "over"}
Troubles == {"faults", "tickFaults", "presses", "outages"}
Record == [st : {"none", "waiting", "active", "completed", "failed"}, at : Nat, made : Nat]

QueueTypes ==
    /\ period \in {6, 12, 24}
    /\ hour \in Nat
    /\ phase \in Phases
    /\ worker \in BOOLEAN
    /\ record \in Record
    /\ newer \in 0 .. 48
    /\ fresh \in Nat
    /\ lastRun \in Int /\ lastRun >= -1
    /\ slotRuns \in Nat
    /\ unheard \in BOOLEAN
    /\ spent \in [Troubles -> Nat]

\* Jobs that complete in every hour, up to a phase of it.
Done(ph) == IF ph = "over" THEN 3 ELSE IF ph = "second" THEN 2 ELSE IF ph = "first" THEN 1 ELSE 0

Quiet == spent["outages"] = 0
Smooth == Quiet /\ spent["faults"] < Attempts
Busy == record.st \in {"waiting", "active"}
Tallied == IF Busy THEN 1 ELSE 0
Presses == IF period = 24 THEN spent["presses"] ELSE 0

\* Hours since the latest slot.
Since(n) == (n + 15) % period

\* What is known of a completed job.
Aged ==
    record.st = "completed" =>
        /\ record.at <= hour /\ record.at <= lastRun
        /\ Quiet /\ record.at < hour => newer >= 3 * (hour - record.at - 1) + Done(phase)
        /\ Quiet => hour - record.at <= IF phase \in {"tick", "added"} THEN 9 ELSE 8

\* Unless it was asked for under its id, the job is of a slot.
OnSlot ==
    Presses = 0 /\ Quiet =>
        /\ record.st = "completed" => Since(record.at) = 0
        /\ Busy => Since(hour) = 0

Unfailing == Smooth => record.st # "failed" /\ (Busy => record.made <= spent["faults"])

\* How many hours late it may be ignored, and what is served when its slot is over.
Slack == IF period = 6 THEN 6 ELSE IF Presses > 0 THEN 9 ELSE 0
Pending == Since(hour) = 0 /\ (phase = "tick" \/ Busy)
Late == IF Pending THEN period ELSE Since(hour)
Served == Smooth => hour < Late \/ hour - Late - Slack <= lastRun

Once ==
    /\ slotRuns + Tallied <= 1 + Presses
    /\ phase \in {"tick", "added"} =>
         \/ slotRuns = 0
         \/ slotRuns = 1 /\ record.st = "completed" /\ record.at = hour

Heard ==
    /\ period # 24 /\ unheard => fresh > 0
    /\ period = 24 /\ unheard /\ Smooth => Busy \/ lastRun # -1

QueueInv ==
    /\ QueueTypes /\ (Quiet => worker)
    /\ Aged /\ OnSlot /\ Unfailing /\ Served /\ Once /\ Heard

\* The slots of a period.
LEMMA Slots ==
    ASSUME NEW p \in {6, 12, 24}, NEW n \in Nat
    PROVE  /\ (n + 15) % p \in 0 .. p - 1
           /\ (n + 1 + 15) % p = IF (n + 15) % p = p - 1 THEN 0 ELSE ((n + 15) % p) + 1
           /\ (n + 17) % p = 2 <=> (n + 15) % p = 0
           /\ \A k \in Nat : k <= n /\ n - k <= 9 /\ (n + 15) % p = 0 /\ (k + 15) % p = 0 =>
                n = k \/ (p = 6 /\ n - k = 6)
  <1>1. CASE p = 6
    BY <1>1
  <1>2. CASE p = 12
    BY <1>2
  <1>3. CASE p = 24
    BY <1>3
  <1> QED
    BY <1>1, <1>2, <1>3

\* Nothing is due before the first slot.
LEMMA QueueInit == ASSUME Queueing, Q!Init PROVE QueueInv
  <1>1. /\ period \in {6, 12, 24} /\ hour = 0 /\ phase = "tick" /\ worker = TRUE
        /\ newer = 0 /\ fresh = 0 /\ lastRun = -1 /\ slotRuns = 0 /\ unheard = FALSE
    BY DEF Q!Init, Q!Never
  <1>2. record.st = "none" /\ record.at = 0 /\ record \in Record
    BY DEF Q!Init, Q!Forgotten, Record
  <1>3. spent \in [Troubles -> Nat] /\ spent["presses"] = 0 /\ spent["faults"] = 0
    BY DEF Q!Init, Troubles
  <1>4. phase \in Phases /\ newer \in 0 .. 48 /\ lastRun \in Int /\ lastRun >= -1
    BY <1>1 DEF Phases
  <1>5. QueueTypes
    BY <1>1, <1>2, <1>3, <1>4 DEF QueueTypes
  <1>6. ~Busy /\ Tallied = 0 /\ Presses = 0
    BY <1>2, <1>3 DEF Busy, Tallied, Presses
  <1>7. (0 + 15) % period \in {3, 15}
    <2>1. CASE period = 6
      BY <2>1
    <2>2. CASE period = 12
      BY <2>2
    <2>3. CASE period = 24
      BY <2>3
    <2> QED
      BY <1>1, <2>1, <2>2, <2>3
  <1>8. Served
    BY <1>1, <1>7 DEF Served, Late, Pending, Since
  <1> QED
    BY <1>1, <1>2, <1>5, <1>6, <1>8 DEF QueueInv, Aged, OnSlot, Unfailing, Once, Heard

\* What is spent is counted.
LEMMA QueueSpends ==
    ASSUME spent \in [Troubles -> Nat], NEW b \in Troubles, Q!Spend(b)
    PROVE  /\ spent' \in [Troubles -> Nat]
           /\ \A c \in Troubles : spent'[c] = IF c = b THEN spent[c] + 1 ELSE spent[c]
  <1>1. spent' = [spent EXCEPT ![b] = spent[b] + 1] /\ spent[b] + 1 \in Nat
    BY DEF Q!Spend
  <1> QED
    BY <1>1

\* Other jobs complete: a job that is still known as completed has not been pushed out.
LEMMA Completes ==
    ASSUME QueueInv, NEW n \in Nat, NEW keeps \in Nat, Q!Completed(n, keeps)
    PROVE  /\ record' \in Record /\ newer' \in 0 .. 48
           /\ record' = record \/ (record.st = "completed" /\ record'.st = "none")
           /\ record'.st = "completed" =>
                /\ newer + n < keeps
                /\ newer' = IF newer + n > 48 THEN 48 ELSE newer + n
           /\ record.st = "completed" /\ record.at = hour /\ newer + n < keeps => record' = record
  <1>1. record \in Record /\ newer \in 0 .. 48 /\ hour \in Nat
    BY DEF QueueInv, QueueTypes
  <1>2. Q!Forgotten \in Record /\ Q!Forgotten.st = "none"
    BY DEF Q!Forgotten, Record
  <1>3. record.at \in Nat
    BY <1>1 DEF Record
  <1>4. /\ record' \in {record, Q!Forgotten}
        /\ record' = record \/ record.st = "completed"
        /\ record.st = "completed" /\ newer + n >= keeps => record' = Q!Forgotten
        /\ record.st = "completed" /\ record.at = hour /\ newer + n < keeps => record' = record
    BY <1>1, <1>3 DEF Q!Completed, Q!Left, Q!CompletedAge
  <1>5. newer' = IF record'.st = "completed" THEN IF newer + n > 48 THEN 48 ELSE newer + n ELSE 0
    BY DEF Q!Completed, Q!Capped, Q!AlertsKeep
  <1> QED
    BY <1>1, <1>2, <1>4, <1>5

\* The tick of the hour is over; alerts are evaluated; what was asked for by hand has run.
LEMMA QueueCompletes ==
    ASSUME Queueing, QueueInv, Q!TickDone \/ (\E n \in OtherJobs : Q!AlertsDone(n)) \/ Q!PressedRun
    PROVE  QueueInv'
  <1>1. /\ QueueTypes /\ record \in Record /\ newer \in 0 .. 48 /\ hour \in Nat /\ phase \in Phases
        /\ spent \in [Troubles -> Nat] /\ period \in {6, 12, 24} /\ lastRun \in Int /\ lastRun >= -1
    BY DEF QueueInv, QueueTypes
  <1>2. record.at \in Nat /\ Since(hour) \in 0 .. period - 1
    BY <1>1, Slots DEF Record, Since
  <1>3. PICK n \in Nat, keeps \in Nat :
          /\ Q!Completed(n, keeps)
          /\ \/ phase = "added" /\ phase' = "first" /\ n = 1 /\ keeps = 24
             \/ phase = "first" /\ phase' = "second" /\ n >= 1
             \/ phase = "second" /\ phase' = "over" /\ n >= 1
             \/ phase' = phase /\ n >= 0 /\ keeps = 1000
    <2>1. CASE Q!TickDone
      BY <2>1 DEF Q!TickDone, Q!TickKeeps
    <2>2. CASE \E n \in OtherJobs : Q!AlertsDone(n)
      <3>1. PICK n \in OtherJobs : Q!AlertsDone(n)
        BY <2>2
      <3>2. n \in Nat /\ n + 1 \in Nat /\ n + 1 >= 1
        BY DEF Queueing
      <3>3. Q!Completed(n + 1, 48) /\ phase \in {"first", "second"}
            /\ phase' = IF phase = "first" THEN "second" ELSE "over"
        BY <3>1 DEF Q!AlertsDone, Q!AlertsKeep
      <3> QED
        BY <3>2, <3>3
    <2>3. CASE Q!PressedRun
      BY <2>3 DEF Q!PressedRun, Q!DefaultKeeps
    <2> QED
      BY <2>1, <2>2, <2>3
  <1>4. /\ UNCHANGED <<period, hour, worker, slotRuns, spent>>
        /\ \/ fresh' = fresh /\ lastRun' = lastRun /\ unheard' = unheard
           \/ fresh' \in Nat /\ lastRun' = hour /\ unheard' = FALSE
    <2>1. CASE Q!TickDone \/ (\E m \in OtherJobs : Q!AlertsDone(m))
      BY <2>1 DEF Q!TickDone, Q!AlertsDone
    <2>2. CASE Q!PressedRun
      <3>1. fresh \in Nat /\ fresh > 0 /\ fresh' = fresh - 1
        BY <1>1, <2>2 DEF Q!PressedRun, QueueTypes
      <3>2. fresh' \in Nat
        BY <3>1
      <3> QED
        BY <2>2, <3>2 DEF Q!PressedRun
    <2> QED
      BY <2>1, <2>2
  <1>5. /\ record' \in Record /\ newer' \in 0 .. 48
        /\ record' = record \/ (record.st = "completed" /\ record'.st = "none")
        /\ record'.st = "completed" =>
             /\ newer + n < keeps
             /\ newer' = IF newer + n > 48 THEN 48 ELSE newer + n
        /\ record.st = "completed" /\ record.at = hour /\ newer + n < keeps => record' = record
    BY <1>3, Completes
  <1>6. /\ (Busy' <=> Busy) /\ Tallied' = Tallied /\ Presses' = Presses /\ Slack' = Slack
        /\ (Quiet' <=> Quiet) /\ (Smooth' <=> Smooth)
        /\ \A h : Since(h)' = Since(h)
    BY <1>4, <1>5 DEF Busy, Tallied, Presses, Slack, Quiet, Smooth, Since
  <1>7. phase' \in Phases /\ (phase' \in {"tick", "added"} => phase' = phase)
    BY <1>1, <1>3 DEF Phases
  <1>8. QueueTypes'
    <2>1. fresh' \in Nat /\ unheard' \in BOOLEAN
      BY <1>1, <1>4 DEF QueueTypes
    <2>3. lastRun' \in Int /\ lastRun' >= -1
      BY <1>1, <1>4
    <2> QED
      BY <1>1, <1>4, <1>5, <1>7, <2>1, <2>3 DEF QueueTypes
  <1>9. Aged'
    <2> SUFFICES ASSUME record'.st = "completed" PROVE Aged'
      BY DEF Aged
    <2>1. record' = record /\ record.st = "completed"
      BY <1>5
    <2>2. record.at <= hour /\ record.at <= lastRun /\ record.at <= lastRun'
      BY <1>4, <2>1 DEF QueueInv, Aged
    <2>3. ASSUME Quiet, record.at < hour PROVE newer' >= 3 * (hour - record.at - 1) + Done(phase')
      <3>1. newer >= 3 * (hour - record.at - 1) + Done(phase) /\ hour - record.at <= 9
            /\ (phase \notin {"tick", "added"} => hour - record.at <= 8)
        <4>1. Aged
          BY DEF QueueInv
        <4> QED
          BY <1>1, <1>2, <2>1, <2>3, <4>1 DEF Aged
      <3>2. newer' = IF newer + n > 48 THEN 48 ELSE newer + n
        BY <1>5
      <3> QED
        BY <1>1, <1>2, <1>3, <3>1, <3>2 DEF Done, Phases
    <2>4. ASSUME Quiet PROVE hour - record.at <= IF phase' \in {"tick", "added"} THEN 9 ELSE 8
      <3>1. /\ hour - record.at <= IF phase \in {"tick", "added"} THEN 9 ELSE 8
            /\ record.at < hour => newer >= 3 * (hour - record.at - 1) + Done(phase)
        BY <2>1, <2>4 DEF QueueInv, Aged
      <3>2. newer + n < keeps
        BY <1>5
      <3> QED
        BY <1>1, <1>2, <1>3, <2>2, <3>1, <3>2 DEF Done, Phases
    <2> QED
      BY <1>4, <1>6, <2>1, <2>2, <2>3, <2>4 DEF Aged
  <1>10. OnSlot' /\ Unfailing'
    <2>1. OnSlot'
      BY <1>4, <1>5, <1>6 DEF QueueInv, OnSlot, Since
    <2>2. Unfailing'
      BY <1>4, <1>5, <1>6 DEF QueueInv, Unfailing, Busy
    <2> QED
      BY <2>1, <2>2
  <1>11. Served'
    <2>1. (Pending' <=> Pending) /\ Late' = Late
      BY <1>3, <1>4, <1>6, <1>1 DEF Pending, Late, Phases
    <2>2. Late \in 0 .. period /\ Slack \in 0 .. 9
      BY <1>1, <1>2 DEF Late, Slack
    <2> QED
      BY <1>1, <1>4, <1>6, <2>1, <2>2 DEF QueueInv, Served
  <1>12. Once'
    <2>1. CASE phase' \notin {"tick", "added"}
      BY <1>4, <1>6, <2>1 DEF QueueInv, Once
    <2>2. CASE phase' \in {"tick", "added"}
      <3>1. phase' = phase /\ phase \in {"tick", "added"}
        BY <1>7, <2>2
      <3>2. n = 1 \/ keeps = 1000
        BY <1>3, <3>1
      <3>3. slotRuns = 1 /\ record.st = "completed" /\ record.at = hour => record' = record
        <4>1. Q!PressedRun
          BY <3>1 DEF Q!TickDone, Q!AlertsDone
        <4>2. Q!Completed(1, 1000)
          BY <4>1 DEF Q!PressedRun, Q!DefaultKeeps
        <4>3. newer + 1 < 1000
          BY <1>1
        <4> QED
          BY <4>2, <4>3, Completes
      <3> QED
        BY <1>4, <1>6, <3>1, <3>3 DEF QueueInv, Once
    <2> QED
      BY <2>1, <2>2
  <1>13. Heard'
    BY <1>1, <1>4, <1>6 DEF QueueInv, Heard
  <1> QED
    BY <1>4, <1>6, <1>8, <1>9, <1>10, <1>11, <1>12, <1>13 DEF QueueInv

\* An add does nothing to an id that is known.
LEMMA AddedIs ==
    ASSUME QueueTypes
    PROVE  /\ Q!Added \in Record
           /\ record.st # "none" => Q!Added = record
           /\ record.st = "none" => Q!Added.st = "waiting" /\ Q!Added.made = 0
  BY DEF QueueTypes, Q!Added, Q!Known, Record

\* The tick of the hour: a slot is served, or ignored because the job of the one before is
\* still known.
LEMMA QueueTicks == ASSUME Queueing, QueueInv, Q!Tick PROVE QueueInv'
  <1>1. /\ QueueTypes /\ record \in Record /\ newer \in 0 .. 48 /\ hour \in Nat
        /\ spent \in [Troubles -> Nat] /\ period \in {6, 12, 24} /\ lastRun \in Int /\ lastRun >= -1
        /\ slotRuns \in Nat
    BY DEF QueueInv, QueueTypes
  <1>2. /\ record.at \in Nat /\ Since(hour) \in 0 .. period - 1
        /\ (Q!Due <=> Since(hour) = 0)
    <2>1. record.at \in Nat
      BY <1>1 DEF Record
    <2>2. /\ (hour + 15) % period \in 0 .. period - 1
          /\ (hour + 17) % period = 2 <=> (hour + 15) % period = 0
      BY <1>1, Slots
    <2> QED
      BY <2>1, <2>2 DEF Since, Q!Due
  <1>3. /\ phase = "tick" /\ phase' = "added"
        /\ record' = IF Since(hour) = 0 THEN Q!Added ELSE record
        /\ UNCHANGED <<period, hour, worker, newer, fresh, lastRun, slotRuns, unheard, spent>>
    BY <1>2 DEF Q!Tick
  <1>4. /\ record' \in Record
        /\ record.st # "none" => record' = record
        /\ record.st = "none" /\ Since(hour) = 0 => record'.st = "waiting" /\ record'.made = 0
        /\ Since(hour) # 0 => record' = record
    BY <1>1, <1>3, AddedIs
  <1>5. /\ Presses' = Presses /\ Slack' = Slack /\ (Quiet' <=> Quiet) /\ (Smooth' <=> Smooth)
        /\ \A h : Since(h)' = Since(h)
    BY <1>3 DEF Presses, Slack, Quiet, Smooth, Since
  <1>6. QueueTypes'
    BY <1>1, <1>3, <1>4 DEF QueueTypes, Phases
  <1>7. /\ Busy' /\ ~Busy => Since(hour) = 0 /\ record'.made = 0
        /\ Busy => Busy' /\ record' = record
        /\ record'.st = "completed" => record' = record
        /\ record'.st = "failed" => record.st = "failed"
    BY <1>4 DEF Busy
  <1>8. Aged'
    BY <1>3, <1>5, <1>7 DEF QueueInv, Aged, Done
  <1>9. OnSlot'
    BY <1>3, <1>5, <1>7 DEF QueueInv, OnSlot, Since
  <1>10. Unfailing'
    <2>1. spent["faults"] \in Nat
      BY <1>1 DEF Troubles
    <2> QED
      BY <1>3, <1>5, <1>7, <2>1 DEF QueueInv, Unfailing
  <1>11. Served'
    <2> SUFFICES ASSUME Smooth PROVE hour < Late' \/ hour - Late' - Slack <= lastRun
      BY <1>3, <1>5 DEF Served
    <2>1. Late' = IF Since(hour) = 0 /\ Busy' THEN period ELSE Since(hour)
      BY <1>3, <1>5 DEF Late, Pending
    <2>2. Late = IF Since(hour) = 0 THEN period ELSE Since(hour)
      BY <1>3 DEF Late, Pending
    <2>3. CASE Since(hour) # 0 \/ Busy'
      BY <2>1, <2>2, <2>3 DEF QueueInv, Served
    <2>4. CASE Since(hour) = 0 /\ ~Busy'
      <3>1. record.st = "completed"
        BY <1>1, <1>4, <1>7, <2>4 DEF QueueInv, Unfailing, Busy, Record
      <3>2. record.at <= hour /\ record.at <= lastRun /\ hour - record.at <= 9
        BY <1>3, <3>1 DEF QueueInv, Aged, Smooth
      <3>3. hour - record.at <= Slack
        <4>1. CASE Presses = 0
          <5>1. Since(record.at) = 0
            BY <3>1, <4>1 DEF QueueInv, OnSlot, Smooth
          <5>2. hour = record.at \/ (period = 6 /\ hour - record.at = 6)
            BY <1>1, <1>2, <2>4, <3>2, <5>1, Slots DEF Since
          <5> QED
            BY <1>1, <1>2, <4>1, <5>2 DEF Slack
        <4>2. CASE Presses # 0
          <5>1. Slack = 9
            BY <1>1, <4>2 DEF Slack, Presses, Troubles
          <5> QED
            BY <3>2, <5>1
        <4> QED
          BY <4>1, <4>2
      <3>4. Slack \in Nat
        BY DEF Slack
      <3> QED
        BY <1>1, <1>2, <2>1, <2>4, <3>2, <3>3, <3>4
    <2> QED
      BY <2>3, <2>4
  <1>12. Once'
    <2>1. slotRuns = 0 \/ (slotRuns = 1 /\ record.st = "completed" /\ record.at = hour)
      BY <1>3 DEF QueueInv, Once
    <2>2. Presses \in Nat /\ Tallied' \in {0, 1}
      BY <1>1 DEF Presses, Tallied, Troubles
    <2>3. slotRuns = 1 => Tallied' = 0 /\ record' = record
      BY <1>4, <2>1 DEF Tallied, Busy
    <2>4. slotRuns + Tallied' <= 1 + Presses
      <3>1. slotRuns + Tallied' <= 1
        <4>1. CASE Tallied' = 0
          BY <2>1, <4>1
        <4>2. CASE Tallied' = 1
          BY <2>1, <2>3, <4>2
        <4> QED
          BY <2>2, <4>1, <4>2
      <3>2. Tallied' \in Nat
        BY <2>2
      <3>3. \A n, a, b \in Nat : a + b <= 1 => a + b <= 1 + n
        OBVIOUS
      <3> QED
        BY <1>1, <2>2, <3>1, <3>2, <3>3
    <2> QED
      BY <1>3, <1>5, <2>1, <2>3, <2>4 DEF Once
  <1>13. Heard'
    BY <1>3, <1>5, <1>7 DEF QueueInv, Heard
  <1> QED
    BY <1>3, <1>5, <1>6, <1>8, <1>9, <1>10, <1>11, <1>12, <1>13 DEF QueueInv

\* A tick that is attempted again.
LEMMA QueueTicksAgain == ASSUME Queueing, QueueInv, Q!TickFails PROVE QueueInv'
  <1>1. /\ QueueTypes /\ record \in Record /\ hour \in Nat
        /\ spent \in [Troubles -> Nat] /\ period \in {6, 12, 24} /\ lastRun \in Int
    BY DEF QueueInv, QueueTypes
  <1>2. record.at \in Nat /\ Since(hour) \in 0 .. period - 1
    BY <1>1, Slots DEF Record, Since
  <1>3. /\ phase = "added" /\ phase' = "tick"
        /\ UNCHANGED <<period, hour, worker, record, newer, fresh, lastRun, slotRuns, unheard>>
    BY DEF Q!TickFails
  <1>4. /\ spent' \in [Troubles -> Nat] /\ spent'["presses"] = spent["presses"]
        /\ spent'["outages"] = spent["outages"] /\ spent'["faults"] = spent["faults"]
    BY <1>1, QueueSpends DEF Q!TickFails, Troubles
  <1>5. /\ Presses' = Presses /\ Slack' = Slack /\ (Quiet' <=> Quiet) /\ (Smooth' <=> Smooth)
        /\ (Busy' <=> Busy) /\ Tallied' = Tallied
        /\ \A h : Since(h)' = Since(h)
    BY <1>3, <1>4 DEF Presses, Slack, Quiet, Smooth, Since, Busy, Tallied
  <1>6. QueueTypes'
    BY <1>1, <1>3, <1>4 DEF QueueTypes, Phases
  <1>7. Aged' /\ OnSlot' /\ Unfailing' /\ Once' /\ Heard'
    BY <1>3, <1>4, <1>5 DEF QueueInv, Aged, OnSlot, Unfailing, Once, Heard, Done, Since
  <1>8. Served'
    <2>1. /\ Late' = IF Since(hour) = 0 THEN period ELSE Since(hour)
          /\ Late = IF Since(hour) = 0 /\ Busy THEN period ELSE Since(hour)
      BY <1>3, <1>5 DEF Late, Pending
    <2>2. Slack \in Nat
      BY DEF Slack
    <2> QED
      BY <1>1, <1>2, <1>3, <1>5, <2>1, <2>2 DEF QueueInv, Served
  <1> QED
    BY <1>3, <1>5, <1>6, <1>7, <1>8 DEF QueueInv

\* What the worker does with the job; another job fails for good.
LEMMA QueueWorks ==
    ASSUME Queueing, QueueInv, Q!Begin \/ Q!Succeed \/ Q!Fail \/ Q!OtherFails
    PROVE  QueueInv'
  <1>1. /\ QueueTypes /\ record \in Record /\ newer \in 0 .. 48 /\ hour \in Nat
        /\ spent \in [Troubles -> Nat] /\ period \in {6, 12, 24} /\ lastRun \in Int /\ lastRun >= -1
        /\ slotRuns \in Nat /\ spent["faults"] \in Nat /\ spent["presses"] \in Nat
    BY DEF QueueInv, QueueTypes, Troubles
  <1>2. record.at \in Nat /\ record.made \in Nat
    BY <1>1 DEF Record
  <1>3. Since(hour) \in 0 .. period - 1 /\ Slack \in Nat /\ Presses \in Nat
    BY <1>1, Slots DEF Since, Slack, Presses
  <1>4. CASE Q!Begin
    <2> DEFINE new == [record EXCEPT !.st = "active"]
    <2>1. /\ record.st = "waiting" /\ record' = new /\ unheard' = FALSE
          /\ UNCHANGED <<period, hour, phase, worker, newer, fresh, lastRun, slotRuns, spent>>
      BY <1>4 DEF Q!Begin
    <2>2. new \in Record /\ new.st = "active" /\ new.at = record.at /\ new.made = record.made
      BY <1>1 DEF Record
    <2> HIDE DEF new
    <2>3. Busy /\ Busy' /\ Tallied' = Tallied /\ Presses' = Presses /\ Slack' = Slack
          /\ (Quiet' <=> Quiet) /\ (Smooth' <=> Smooth)
      BY <2>1, <2>2 DEF Busy, Tallied, Presses, Slack, Quiet, Smooth
    <2>4. QueueTypes'
      BY <1>1, <2>1, <2>2 DEF QueueTypes
    <2>5. Aged' /\ OnSlot' /\ Unfailing' /\ Once' /\ Heard'
      BY <2>1, <2>2, <2>3 DEF QueueInv, Aged, OnSlot, Unfailing, Once, Heard, Since
    <2>6. Served'
      BY <2>1, <2>3 DEF QueueInv, Served, Late, Pending, Since
    <2> QED
      BY <2>1, <2>3, <2>4, <2>5, <2>6 DEF QueueInv
  <1>5. CASE Q!Succeed
    <2> DEFINE new == [record EXCEPT !.st = "completed", !.at = hour]
    <2>1. /\ record.st = "active" /\ record' = new /\ newer' = 0 /\ lastRun' = hour
          /\ slotRuns' = slotRuns + 1
          /\ UNCHANGED <<period, hour, phase, worker, fresh, unheard, spent>>
      BY <1>5 DEF Q!Succeed
    <2>2. new \in Record /\ new.st = "completed" /\ new.at = hour
      BY <1>1 DEF Record
    <2> HIDE DEF new
    <2>3. Busy /\ ~Busy' /\ Tallied = 1 /\ Tallied' = 0 /\ Presses' = Presses /\ Slack' = Slack
          /\ (Quiet' <=> Quiet) /\ (Smooth' <=> Smooth)
      BY <2>1, <2>2 DEF Busy, Tallied, Presses, Slack, Quiet, Smooth
    <2>4. QueueTypes'
      <3>1. newer' \in 0 .. 48 /\ lastRun' \in Int /\ lastRun' >= -1 /\ slotRuns' \in Nat
        BY <1>1, <2>1
      <3> QED
        BY <1>1, <2>1, <2>2, <3>1 DEF QueueTypes
    <2>5. Aged'
      BY <1>1, <2>1, <2>2 DEF Aged
    <2>6. OnSlot' /\ Unfailing'
      BY <2>1, <2>2, <2>3 DEF QueueInv, OnSlot, Unfailing, Since
    <2>7. Once'
      <3>1. slotRuns + 1 <= 1 + Presses /\ (phase \in {"tick", "added"} => slotRuns = 0)
        BY <2>1, <2>3 DEF QueueInv, Once
      <3>2. slotRuns' + Tallied' <= 1 + Presses
        BY <1>1, <1>3, <2>1, <2>3, <3>1
      <3> QED
        BY <2>1, <2>2, <2>3, <3>1, <3>2 DEF Once
    <2>8. Heard'
      BY <1>1, <2>1 DEF QueueInv, Heard
    <2>9. Served'
      <3>1. Late' \in Nat
        BY <1>1, <1>3, <2>1 DEF Late, Pending, Since
      <3>2. \A n, a, s \in Nat : n - a - s <= n
        OBVIOUS
      <3>3. hour - Late' - Slack <= hour
        BY <1>1, <1>3, <3>1, <3>2
      <3> QED
        BY <2>1, <2>3, <3>3 DEF Served
    <2> QED
      BY <2>1, <2>3, <2>4, <2>5, <2>6, <2>7, <2>8, <2>9 DEF QueueInv
  <1>6. CASE Q!Fail
    <2> DEFINE made == record.made + 1
               st == IF made < Attempts THEN "waiting" ELSE "failed"
    <2>1. /\ record.st = "active" /\ record' = [st |-> st, at |-> hour, made |-> made]
          /\ UNCHANGED <<period, hour, phase, worker, newer, fresh, lastRun, slotRuns, unheard>>
      BY <1>6 DEF Q!Fail, Q!Retried
    <2>2. made \in Nat /\ st \in {"waiting", "failed"} /\ made = record.made + 1
      BY <1>2
    <2>3. made < Attempts <=> st = "waiting"
      OBVIOUS
    <2> HIDE DEF made, st
    <2>4. record' \in Record /\ record'.st = st /\ record'.made = made
      BY <1>1, <2>1, <2>2 DEF Record
    <2>5. /\ spent' \in [Troubles -> Nat] /\ spent'["presses"] = spent["presses"]
          /\ spent'["outages"] = spent["outages"] /\ spent'["faults"] = spent["faults"] + 1
      BY <1>1, <1>6, QueueSpends DEF Q!Fail, Troubles
    <2>6. Presses' = Presses /\ Slack' = Slack /\ (Quiet' <=> Quiet) /\ Busy /\ Tallied = 1
      BY <2>1, <2>5 DEF Presses, Slack, Quiet, Busy, Tallied
    <2>7. Smooth' => Smooth /\ st = "waiting" /\ made <= spent'["faults"]
      <3> SUFFICES ASSUME Smooth' PROVE Smooth /\ st = "waiting" /\ made <= spent'["faults"]
        OBVIOUS
      <3>1. Smooth /\ spent["faults"] + 1 < Attempts
        BY <1>1, <2>5 DEF Queueing, Smooth, Quiet
      <3>2. record.made <= spent["faults"]
        BY <2>6, <3>1 DEF QueueInv, Unfailing
      <3> QED
        BY <1>1, <1>2, <2>2, <2>3, <2>5, <3>1, <3>2 DEF Queueing
    <2>8. QueueTypes'
      BY <1>1, <2>1, <2>4, <2>5 DEF QueueTypes
    <2>9. Aged' /\ OnSlot' /\ Unfailing'
      BY <2>1, <2>2, <2>4, <2>6, <2>7 DEF QueueInv, Aged, OnSlot, Unfailing, Since
    <2>10. Once'
      <3>1. slotRuns + 1 <= 1 + Presses /\ (phase \in {"tick", "added"} => slotRuns = 0)
        BY <2>1, <2>6 DEF QueueInv, Once
      <3>2. slotRuns + Tallied' <= 1 + Presses
        <4>1. Tallied' = 0 \/ Tallied' = 1
          BY DEF Tallied
        <4> QED
          BY <1>1, <1>3, <3>1, <4>1
      <3> QED
        BY <2>1, <2>6, <3>1, <3>2 DEF Once
    <2>11. Heard'
      BY <2>1, <2>4, <2>7 DEF QueueInv, Heard, Busy
    <2>12. Served'
      BY <2>1, <2>4, <2>6, <2>7 DEF QueueInv, Served, Late, Pending, Since, Busy
    <2> QED
      BY <2>1, <2>6, <2>8, <2>9, <2>10, <2>11, <2>12 DEF QueueInv
  <1>7. CASE Q!OtherFails
    <2>1. /\ record.st = "failed" /\ record' = Q!Forgotten
          /\ UNCHANGED <<period, hour, phase, worker, newer, fresh, lastRun, slotRuns, unheard, spent>>
      BY <1>7 DEF Q!OtherFails
    <2>2. Q!Forgotten \in Record /\ Q!Forgotten.st = "none"
      BY DEF Q!Forgotten, Record
    <2>3. ~Smooth /\ ~Smooth'
      BY <2>1 DEF QueueInv, Unfailing, Smooth, Quiet
    <2>4. Tallied' = Tallied /\ Presses' = Presses /\ ~Busy' /\ (Quiet' <=> Quiet)
      BY <2>1, <2>2 DEF Tallied, Presses, Busy, Quiet
    <2>5. QueueTypes'
      BY <1>1, <2>1, <2>2 DEF QueueTypes
    <2>6. Aged' /\ OnSlot' /\ Unfailing' /\ Served' /\ Heard'
      BY <2>1, <2>2, <2>3, <2>4 DEF QueueInv, Aged, OnSlot, Unfailing, Served, Heard
    <2>7. Once'
      BY <2>1, <2>4 DEF QueueInv, Once
    <2> QED
      BY <2>1, <2>4, <2>5, <2>6, <2>7 DEF QueueInv
  <1> QED
    BY <1>4, <1>5, <1>6, <1>7

\* A request by hand.
LEMMA QueuePressed == ASSUME Queueing, QueueInv, Q!Press PROVE QueueInv'
  <1>1. /\ QueueTypes /\ record \in Record /\ hour \in Nat /\ fresh \in Nat
        /\ spent \in [Troubles -> Nat] /\ period \in {6, 12, 24} /\ lastRun \in Int /\ lastRun >= -1
        /\ slotRuns \in Nat /\ spent["faults"] \in Nat /\ spent["presses"] \in Nat
    BY DEF QueueInv, QueueTypes, Troubles
  <1>2. record.at \in Nat /\ Presses \in Nat
    BY <1>1 DEF Record, Presses
  <1>3. Since(hour) \in 0 .. period - 1 /\ Slack \in 0 .. 9
    BY <1>1, Slots DEF Since, Slack
  <1>4. /\ unheard' = TRUE /\ UNCHANGED <<period, hour, phase, worker, newer, lastRun, slotRuns>>
        /\ period # 24 => fresh' = fresh + 1 /\ record' = record
        /\ period = 24 => record' = Q!Added /\ fresh' = fresh
    BY DEF Q!Press, Q!PressedIdFresh
  <1>5. /\ spent' \in [Troubles -> Nat] /\ spent'["presses"] = spent["presses"] + 1
        /\ spent'["outages"] = spent["outages"] /\ spent'["faults"] = spent["faults"]
    BY <1>1, QueueSpends DEF Q!Press, Troubles
  <1>6. /\ Q!Added \in Record
        /\ record.st # "none" => Q!Added = record
        /\ record.st = "none" => Q!Added.st = "waiting" /\ Q!Added.made = 0
    BY <1>1, AddedIs
  <1>7. (Quiet' <=> Quiet) /\ (Smooth' <=> Smooth)
    BY <1>5 DEF Quiet, Smooth
  <1>8. CASE period # 24
    <2>1. Presses = 0 /\ Presses' = 0 /\ Slack' = Slack /\ (Busy' <=> Busy) /\ Tallied' = Tallied
      BY <1>4, <1>8 DEF Presses, Slack, Busy, Tallied
    <2>2. fresh' \in Nat /\ fresh' > 0
      BY <1>1, <1>4, <1>8
    <2>3. QueueTypes'
      BY <1>1, <1>4, <1>5, <1>8, <2>2 DEF QueueTypes
    <2>4. Aged' /\ OnSlot' /\ Unfailing' /\ Once' /\ Heard'
      BY <1>4, <1>5, <1>7, <1>8, <2>1, <2>2 DEF QueueInv, Aged, OnSlot, Unfailing, Once, Heard, Since
    <2>5. Served'
      BY <1>4, <1>7, <2>1 DEF QueueInv, Served, Late, Pending, Since
    <2> QED
      BY <1>4, <1>7, <2>3, <2>4, <2>5 DEF QueueInv
  <1>9. CASE period = 24
    <2>1. Presses' = Presses + 1 /\ Slack' = 9
      BY <1>1, <1>4, <1>5, <1>9 DEF Presses, Slack
    <2>2. /\ record' \in Record
          /\ record.st # "none" => record' = record
          /\ record.st = "none" => record'.st = "waiting" /\ record'.made = 0
      BY <1>4, <1>6, <1>9
    <2>3. /\ Busy => Busy' /\ record' = record
          /\ Busy' /\ ~Busy => record'.made = 0
          /\ record'.st = "completed" => record' = record
          /\ record'.st = "failed" => record' = record
          /\ ~Busy' => record' = record /\ record.st \in {"completed", "failed"}
      BY <1>1, <2>2 DEF Busy, Record
    <2>4. QueueTypes'
      BY <1>1, <1>4, <1>5, <1>9, <2>2 DEF QueueTypes
    <2>5. Aged'
      BY <1>4, <1>7, <2>3 DEF QueueInv, Aged
    <2>6. OnSlot'
      BY <1>2, <2>1 DEF OnSlot
    <2>7. Unfailing'
      BY <1>1, <1>5, <1>7, <2>3 DEF QueueInv, Unfailing
    <2>8. Once'
      <3>1. slotRuns + Tallied <= 1 + Presses
        BY DEF QueueInv, Once
      <3>2. Tallied \in {0, 1} /\ Tallied' \in {0, 1}
        BY DEF Tallied
      <3>3. \A a, s, t, n \in Nat : a + s <= 1 + n /\ t <= 1 => a + t <= 1 + (n + 1)
        OBVIOUS
      <3>4. slotRuns + Tallied' <= 1 + (Presses + 1)
        <4>1. Tallied \in Nat /\ Tallied' \in Nat /\ Tallied' <= 1
          BY <3>2
        <4> QED
          BY <1>1, <1>2, <3>1, <3>3, <4>1
      <3>5. slotRuns = 1 /\ record.st = "completed" => record' = record
        BY <2>2
      <3> QED
        BY <1>4, <2>1, <3>4, <3>5 DEF QueueInv, Once
    <2>9. Heard'
      <3>1. Smooth /\ ~Busy' => lastRun >= record.at
        BY <2>3 DEF QueueInv, Unfailing, Aged
      <3> QED
        BY <1>1, <1>2, <1>4, <1>7, <1>9, <3>1 DEF Heard
    <2>10. Served'
      <3>1. Late \in 0 .. 24 /\ Late' \in 0 .. 24 /\ Late' >= Late
        <4>1. Late = IF Since(hour) = 0 /\ (phase = "tick" \/ Busy) THEN 24 ELSE Since(hour)
          BY <1>9 DEF Late, Pending
        <4>2. Late' = IF Since(hour) = 0 /\ (phase = "tick" \/ Busy') THEN 24 ELSE Since(hour)
          BY <1>4, <1>9 DEF Late, Pending, Since
        <4>3. Since(hour) \in 0 .. 23
          BY <1>3, <1>9
        <4> QED
          BY <2>3, <4>1, <4>2, <4>3
      <3>2. Smooth => hour < Late \/ hour - Late - Slack <= lastRun
        BY DEF QueueInv, Served
      <3>3. \A n, a, b, s \in Nat, r \in Int :
              (n < a \/ n - a - s <= r) /\ a <= b /\ s <= 9 => n < b \/ n - b - 9 <= r
        OBVIOUS
      <3>4. Late \in Nat /\ Late' \in Nat /\ Slack \in Nat /\ Slack <= 9 /\ Late <= Late'
        BY <1>3, <3>1
      <3>5. Smooth => hour < Late' \/ hour - Late' - 9 <= lastRun
        BY <1>1, <3>2, <3>3, <3>4
      <3> QED
        BY <1>4, <1>7, <2>1, <3>5 DEF Served
    <2> QED
      BY <1>4, <1>7, <2>4, <2>5, <2>6, <2>7, <2>8, <2>9, <2>10 DEF QueueInv
  <1> QED
    BY <1>8, <1>9

\* The worker is stopped and started.
LEMMA QueueOutage == ASSUME Queueing, QueueInv, Q!Stop \/ Q!Start PROVE QueueInv'
  <1>1. /\ QueueTypes /\ spent \in [Troubles -> Nat] /\ record \in Record
        /\ spent["outages"] \in Nat /\ worker \in BOOLEAN
    BY DEF QueueInv, QueueTypes, Troubles
  <1>2. UNCHANGED <<period, hour, phase, record, newer, fresh, lastRun, slotRuns, unheard>>
    BY DEF Q!Stop, Q!Start
  <1>3. /\ spent' \in [Troubles -> Nat] /\ spent'["presses"] = spent["presses"]
        /\ spent'["faults"] = spent["faults"] /\ worker' \in BOOLEAN
        /\ spent'["outages"] = spent["outages"] \/ spent'["outages"] = spent["outages"] + 1
        /\ spent'["outages"] # spent["outages"] \/ worker' = TRUE
    <2>1. CASE Q!Stop
      <3>1. spent' \in [Troubles -> Nat] /\ spent' = [spent EXCEPT !["outages"] = spent["outages"] + 1]
        BY <1>1, <2>1, QueueSpends DEF Q!Stop, Q!Spend, Troubles
      <3>2. spent'["outages"] = spent["outages"] + 1 /\ spent'["presses"] = spent["presses"]
            /\ spent'["faults"] = spent["faults"]
        BY <1>1, <3>1 DEF Troubles
      <3>3. worker' = FALSE /\ worker' \in BOOLEAN
        BY <2>1 DEF Q!Stop
      <3> QED
        BY <1>1, <3>1, <3>2, <3>3
    <2>2. CASE Q!Start
      BY <1>1, <2>2 DEF Q!Start, Troubles
    <2> QED
      BY <2>1, <2>2
  <1>4. /\ Presses' = Presses /\ Slack' = Slack /\ (Quiet' => Quiet /\ worker') /\ (Smooth' => Smooth)
        /\ (Busy' <=> Busy) /\ Tallied' = Tallied /\ Late' = Late
    BY <1>1, <1>2, <1>3 DEF Presses, Slack, Quiet, Smooth, Busy, Tallied, Late, Pending, Since
  <1>5. QueueTypes'
    BY <1>1, <1>2, <1>3 DEF QueueTypes
  <1>6. Aged' /\ OnSlot' /\ Unfailing' /\ Once' /\ Heard' /\ Served'
    BY <1>2, <1>3, <1>4 DEF QueueInv, Aged, OnSlot, Unfailing, Once, Heard, Served, Since
  <1> QED
    BY <1>4, <1>5, <1>6 DEF QueueInv

\* An hour ends, and with a worker up what waited in it is done.
LEMMA QueueHour == ASSUME Queueing, QueueInv, Q!Hour PROVE QueueInv'
  <1>1. /\ QueueTypes /\ record \in Record /\ newer \in 0 .. 48 /\ hour \in Nat
        /\ period \in {6, 12, 24} /\ lastRun \in Int /\ lastRun >= -1
    BY DEF QueueInv, QueueTypes
  <1>2. record.at \in Nat
    BY <1>1 DEF Record
  <1>3. /\ hour' = hour + 1 /\ phase' = "tick" /\ slotRuns' = 0
        /\ UNCHANGED <<period, worker, record, newer, fresh, lastRun, unheard, spent>>
    BY DEF Q!Hour
  <1>4. Quiet => phase = "over" /\ ~Busy
    BY DEF QueueInv, Q!Hour, Busy
  <1>5. /\ Presses' = Presses /\ Slack' = Slack /\ (Quiet' <=> Quiet) /\ (Smooth' <=> Smooth)
        /\ (Busy' <=> Busy) /\ Tallied' = Tallied /\ \A h : Since(h)' = Since(h)
    BY <1>3 DEF Presses, Slack, Quiet, Smooth, Busy, Tallied, Since
  <1>6. QueueTypes'
    BY <1>1, <1>3 DEF QueueTypes, Phases
  <1>7. Aged'
    <2> SUFFICES ASSUME record.st = "completed" PROVE Aged'
      BY <1>3 DEF Aged
    <2>1. record.at <= hour /\ record.at <= lastRun
      BY DEF QueueInv, Aged
    <2>2. ASSUME Quiet
          PROVE  hour - record.at <= 8 /\ newer >= 3 * (hour + 1 - record.at - 1)
      <3>1. hour - record.at <= 8 /\ (record.at < hour => newer >= 3 * (hour - record.at - 1) + 3)
        BY <1>4, <2>2 DEF QueueInv, Aged, Done
      <3> QED
        BY <1>1, <1>2, <2>1, <3>1
    <2> QED
      BY <1>1, <1>2, <1>3, <1>5, <2>1, <2>2 DEF Aged, Done
  <1>8. OnSlot' /\ Unfailing' /\ Heard'
    BY <1>3, <1>4, <1>5 DEF QueueInv, OnSlot, Unfailing, Heard, Smooth, Since
  <1>9. Once'
    <2>1. Tallied \in {0, 1} /\ Presses \in Nat
      BY <1>1 DEF Tallied, Presses, QueueTypes, Troubles
    <2> QED
      BY <1>3, <1>5, <2>1 DEF Once
  <1>10. Served'
    <2>1. Smooth => hour < Since(hour) \/ hour - Since(hour) - Slack <= lastRun
      BY <1>4 DEF Late, Pending, QueueInv, Served, Smooth
    <2>2. /\ Since(hour) \in 0 .. period - 1
          /\ Since(hour + 1) = IF Since(hour) = period - 1 THEN 0 ELSE Since(hour) + 1
      BY <1>1, Slots DEF Since
    <2>3. Late' = Since(hour) + 1
      <3>1. Late' = IF Since(hour + 1) = 0 THEN period ELSE Since(hour + 1)
        BY <1>3, <1>5 DEF Late, Pending, Since
      <3> QED
        BY <1>1, <2>2, <3>1
    <2>4. Since(hour) \in Nat /\ Slack \in Nat
      BY <1>1, <2>2 DEF Slack
    <2>5. \A n, s, k \in Nat, r \in Int :
             n < s \/ n - s - k <= r => n + 1 < s + 1 \/ n + 1 - (s + 1) - k <= r
      OBVIOUS
    <2>6. Smooth => hour + 1 < Since(hour) + 1 \/ hour + 1 - (Since(hour) + 1) - Slack <= lastRun
      BY <1>1, <2>1, <2>4, <2>5
    <2>7. hour' = hour + 1 /\ lastRun' = lastRun /\ (Smooth' <=> Smooth) /\ Slack' = Slack
      BY <1>3, <1>5
    <2> QED
      BY <1>1, <2>3, <2>4, <2>6, <2>7 DEF Served
  <1> QED
    BY <1>3, <1>5, <1>6, <1>7, <1>8, <1>9, <1>10 DEF QueueInv

\* QueueInv is inductive.
LEMMA QueueNext == ASSUME Queueing, QueueInv, [Q!Next]_Q!vars PROVE QueueInv'
  <1>1. CASE UNCHANGED Q!vars
    BY <1>1 DEF Q!vars, QueueInv, QueueTypes, Quiet, Aged, OnSlot, Unfailing, Served, Once, Heard,
       Smooth, Busy, Tallied, Presses, Since, Slack, Late, Pending
  <1>2. CASE Q!Next
    BY <1>2, QueueTicks, QueueTicksAgain, QueueCompletes, QueueWorks, QueuePressed, QueueOutage,
       QueueHour DEF Q!Next
  <1> QED
    BY <1>1, <1>2

\* How late the work may be.
LEMMA InTime ==
    ASSUME QueueInv, Smooth, lastRun # -1
    PROVE  hour - lastRun <= Q!Gap
  <1>1. /\ hour \in Nat /\ period \in {6, 12, 24} /\ lastRun \in Int /\ lastRun >= -1
        /\ spent["presses"] \in Nat
    BY DEF QueueInv, QueueTypes, Troubles
  <1>2. Late \in 0 .. period
    BY <1>1, Slots DEF Late, Since
  <1>3. Q!Gap = period + Slack
    BY <1>1 DEF Q!Gap, Slack, Presses
  <1>4. Slack \in Nat
    BY DEF Slack
  <1>5. hour < Late \/ hour - Late - Slack <= lastRun
    BY DEF QueueInv, Served
  <1>6. \A n, a, s, p \in Nat, r \in Int :
           (n < a \/ n - a - s <= r) /\ a <= p /\ r >= 0 => n - r <= p + s
    OBVIOUS
  <1>7. Late \in Nat /\ Late <= period /\ period \in Nat /\ lastRun >= 0
    BY <1>1, <1>2
  <1> QED
    BY <1>1, <1>3, <1>4, <1>5, <1>6, <1>7

\* scheduleTick and the procedures that ask for a sync: the work is done every 12, 12 or 24
\* hours, 33 if it was asked for by hand under the schedule's id, and once an hour, unless a
\* worker was stopped or a last attempt failed.
THEOREM WorkIsKeptUp == ASSUME Queueing PROVE Q!Spec => []KeptUp
  <1>1. ASSUME QueueInv PROVE KeptUp
    <2>1. lastRun # Q!Never /\ spent["outages"] = 0 /\ spent["faults"] < Attempts
            => hour - lastRun <= Q!Gap
      BY <1>1, InTime DEF Q!Never, Smooth, Quiet
    <2>2. slotRuns <= IF Q!PressedIdFresh THEN 1 ELSE 1 + spent["presses"]
      <3>1. slotRuns + Tallied <= 1 + Presses /\ slotRuns \in Nat /\ Tallied \in Nat /\ Presses \in Nat
        BY <1>1 DEF QueueInv, QueueTypes, Once, Tallied, Presses, Troubles
      <3>2. slotRuns <= 1 + Presses
        BY <3>1
      <3>3. CASE period = 24
        BY <3>2, <3>3 DEF Presses, Q!PressedIdFresh
      <3>4. CASE period # 24
        BY <3>1, <3>2, <3>4 DEF Presses, Q!PressedIdFresh
      <3> QED
        BY <3>3, <3>4
    <2> QED
      BY <2>1, <2>2 DEF KeptUp, Q!KeptUp
  <1> QED
    BY <1>1, QueueInit, QueueNext, PTL DEF Q!Spec

\* Who is told that a job is queued sees it run within the hour; one under the schedule's id
\* may be ignored, and its work is recent then.
THEOREM RequestsAreHeard == ASSUME Queueing PROVE Q!Spec => PressHeard
  <1> DEFINE Answers == hour' > hour /\ worker /\ unheard =>
                /\ ~Q!PressedIdFresh
                /\ spent["outages"] = 0 /\ spent["faults"] < Attempts => hour - lastRun <= Q!Gap
  <1>1. ASSUME QueueInv, [Q!Next]_Q!vars PROVE [Answers]_Q!vars
    <2> SUFFICES ASSUME hour' > hour, worker, unheard PROVE Answers
      OBVIOUS
    <2>1. hour \in Nat
      BY <1>1 DEF QueueInv, QueueTypes
    <2>2. hour' # hour
      BY <2>1
    <2>3. Q!Hour
      BY <1>1, <2>2 DEF Q!Next, Q!vars, Q!Tick, Q!TickFails, Q!TickDone, Q!AlertsDone, Q!Begin,
         Q!Succeed, Q!Fail, Q!OtherFails, Q!Press, Q!PressedRun, Q!Stop, Q!Start
    <2>4. ~Busy /\ fresh = 0
      BY <2>3 DEF Q!Hour, Busy
    <2>5. period = 24 /\ (Smooth => lastRun # -1)
      BY <1>1, <2>4 DEF QueueInv, Heard
    <2>6. Smooth => hour - lastRun <= Q!Gap
      BY <1>1, <2>5, InTime
    <2> QED
      BY <2>5, <2>6 DEF Q!PressedIdFresh, Smooth, Quiet
  <1> QED
    BY <1>1, QueueInit, QueueNext, PTL DEF Q!Spec, PressHeard, Q!PressHeard

-----------------------------------------------------------------------------
(* The digest.  Every delivery is stamped within its hour or made again,   *)
(* so that a dispatch decides from the time of the last one; and a job     *)
(* that is queued is delivered unless its attempts run out.                *)

Digesting == SendHour \in 0 .. 23 /\ Attempts \in Nat \ {0}

Mishaps == {"faults", "manual", "outages", "crashes"}
DigestJob == [hour : Nat, made : Nat]
Sending == [at : Nat, by : {"job", "late", "hand"}]

DigestTypes ==
    /\ cadence \in {"DAILY", "WEEKLY"}
    /\ now \in Nat
    /\ up \in BOOLEAN
    /\ ticked \in {"no", "yes", "missed"}
    /\ lastSent \in Nat \union {-1}
    /\ decided \in BOOLEAN
    /\ known \subseteq 0 .. now
    /\ jobs \subseteq DigestJob
    /\ sends \in Seq(Sending)
    /\ stamping \subseteq known \union {-1}
    /\ used \in [Mishaps -> Nat]

Attended == used["outages"] = 0
Lasting == used["faults"] < Attempts
Unharmed == used["crashes"] = 0

Sent == sends # <<>>
Last == sends[Len(sends)].at

\* Ids are of hours in which the digest may go out, and an attempt is made of each.
Queued ==
    /\ decided => now % 24 = SendHour
    /\ \A h \in known : h % 24 = SendHour
    /\ \A j \in jobs : j.hour \in known /\ j.made <= used["faults"]
    /\ Lasting /\ now \in known => jobs # {} \/ (Sent /\ Last = now)

\* No tick is missed and no job outlasts its hour while a worker runs.
Prompt ==
    Attended =>
        /\ up /\ ticked # "missed"
        /\ \A j \in jobs : j.hour = now
        /\ stamping \subseteq {now, -1}
        /\ used["manual"] = 0 /\ Sent => Last % 24 = SendHour

\* What was delivered and when.
Told ==
    /\ \A i, k \in DOMAIN sends : i < k => sends[i].at <= sends[k].at
    /\ \A i \in DOMAIN sends : sends[i].at <= now /\ (sends[i].by = "job" => sends[i].at \in known)
    /\ lastSent <= now /\ (lastSent # -1 => Sent)
    /\ stamping # {} => Sent /\ Last = now

Stamped ==
    /\ Lasting /\ Sent /\ jobs = {} /\ stamping = {} => lastSent = Last
    /\ Unharmed =>
         /\ Sent /\ stamping = {} => lastSent = Last
         /\ \A i \in DOMAIN sends : sends[i].at < now => sends[i].at <= lastSent

\* Nothing else delivers a second time.
Spaced ==
    Unharmed =>
        /\ \A j, k \in jobs : j.hour = k.hour => j = k
        /\ (decided /\ now \notin known) \/ (\E j \in jobs : j.hour = now) =>
             \A i \in DOMAIN sends : sends[i].by = "job" => now - sends[i].at >= D!MinimumGap
        /\ \A i, k \in DOMAIN sends :
             i < k /\ sends[i].by = "job" /\ sends[k].by = "job" =>
                 sends[k].at - sends[i].at >= D!MinimumGap

\* What the tick of the hour has found, and that no hour of the digest was let go by.
Found ==
    Lasting /\ ticked = "yes" /\ now % 24 = SendHour =>
        \/ decided \/ jobs # {}
        \/ ~Sent /\ D!Weekly
        \/ Sent /\ now - Last <= D!MinimumGap

Kept ==
    Lasting /\ Attended /\ Sent =>
        \A h \in 0 .. now - 1 : h % 24 = SendHour => h - Last <= D!MinimumGap

DigestInv ==
    /\ DigestTypes /\ Queued /\ Prompt /\ Told /\ Stamped /\ Spaced /\ Found /\ Kept
    /\ D!NoDaySkipped

\* The hours of the days.
LEMMA DayHours ==
    ASSUME NEW n \in Nat
    PROVE  n \div 24 \in Nat /\ 24 * (n \div 24) <= n /\ n <= 24 * (n \div 24) + 23
  OBVIOUS

LEMMA HourOfDay ==
    ASSUME NEW q \in Nat, NEW h \in 0 .. 23
    PROVE  24 * q + h \in Nat /\ (24 * q + h) % 24 = h
  OBVIOUS

\* An hour of a day is what is left of it.
LEMMA DayAndHour ==
    ASSUME NEW n \in Nat
    PROVE  n = 24 * (n \div 24) + (n % 24)
  OBVIOUS

\* When no hour of the digest was let go by, the delivery after the last one is of its day,
\* or within a period of it.
LEMMA WithinPeriod ==
    ASSUME NEW n \in Nat, NEW l \in Nat, NEW days \in {1, 7}, NEW gap \in Nat, SendHour \in 0 .. 23,
           days = 7 => gap = 144, days = 1 => gap = 20 /\ l % 24 = SendHour,
           \A h \in 0 .. n - 1 : h % 24 = SendHour => h - l <= gap
    PROVE  n \div 24 <= l \div 24 + days
  <1> DEFINE d == n \div 24
             q == l \div 24
             r == l % 24
  <1>1. d \in Nat /\ 24 * d <= n /\ q \in Nat /\ 24 * q <= l /\ l <= 24 * q + 23
    BY DayHours
  <1>2. l = 24 * q + r
    BY DayAndHour
  <1> HIDE DEF d, q, r
  <1> SUFFICES ASSUME d > q + days PROVE FALSE
    BY <1>1 DEF d, q
  <1> DEFINE h == 24 * (q + days) + SendHour
  <1>3. h \in Nat /\ h % 24 = SendHour
    BY <1>1, HourOfDay
  <1>4. h \in 0 .. n - 1
    BY <1>1, <1>3
  <1>5. h - l <= gap
    BY <1>3, <1>4
  <1>6. CASE days = 7
    BY <1>1, <1>5, <1>6
  <1>7. CASE days = 1
    <2>1. r = SendHour
      BY <1>7 DEF r
    <2> QED
      BY <1>1, <1>2, <1>5, <1>7, <2>1
  <1> QED
    BY <1>6, <1>7

\* What goes wrong is counted, and what has gone wrong stays so.
LEMMA DigestSpends ==
    ASSUME used \in [Mishaps -> Nat], NEW b \in Mishaps, D!Spend(b)
    PROVE  /\ used' \in [Mishaps -> Nat]
           /\ \A c \in Mishaps : used'[c] = IF c = b THEN used[c] + 1 ELSE used[c]
           /\ \A c \in Mishaps : used'[c] >= used[c]
  <1>1. used' = [used EXCEPT ![b] = used[b] + 1] /\ used[b] + 1 \in Nat
    BY DEF D!Spend
  <1> QED
    BY <1>1

LEMMA Worse ==
    ASSUME Attempts \in Nat, used \in [Mishaps -> Nat], used' \in [Mishaps -> Nat],
           \A c \in Mishaps : used'[c] >= used[c]
    PROVE  /\ Attended' => Attended
           /\ Lasting' => Lasting
           /\ Unharmed' => Unharmed
           /\ used'["manual"] = 0 => used["manual"] = 0
           /\ used["faults"] \in Nat /\ used'["faults"] \in Nat /\ used'["faults"] >= used["faults"]
  BY DEF Attended, Lasting, Unharmed, Mishaps

\* Where nothing is delivered no day is skipped.
LEMMA NoneSkipped ==
    ASSUME D!NoDaySkipped, UNCHANGED <<sends, cadence>>, Attended' => Attended, Lasting' => Lasting,
           used'["manual"] = 0 => used["manual"] = 0
    PROVE  D!NoDaySkipped'
  BY DEF D!NoDaySkipped, D!Reported, D!Day, D!Days, D!Weekly, Attended, Lasting

\* A delivery is the last one.
LEMMA Delivered ==
    ASSUME sends \in Seq(Sending), NEW e \in Sending, sends' = Append(sends, e)
    PROVE  /\ sends' \in Seq(Sending) /\ Sent' /\ Last' = e.at
           /\ DOMAIN sends = 1 .. Len(sends) /\ DOMAIN sends' = 1 .. Len(sends) + 1
           /\ Len(sends) \in Nat /\ Len(sends') = Len(sends) + 1
           /\ \A i \in DOMAIN sends : sends'[i] = sends[i] /\ sends[i] \in Sending
           /\ sends'[Len(sends) + 1] = e
  BY DEF Sent, Last

\* Some delivery was the last one.
LEMMA Latest ==
    ASSUME sends \in Seq(Sending), Sent
    PROVE  /\ Len(sends) \in DOMAIN sends /\ Last = sends[Len(sends)].at /\ Last \in Nat
           /\ \A i \in DOMAIN sends : i = Len(sends) \/ i < Len(sends)
  <1>1. Len(sends) \in Nat /\ Len(sends) # 0 /\ DOMAIN sends = 1 .. Len(sends)
    BY DEF Sent
  <1>2. sends[Len(sends)] \in Sending
    BY <1>1
  <1> QED
    BY <1>1, <1>2 DEF Last, Sending

\* The gap of the cadence.
LEMMA Gaps ==
    ASSUME cadence \in {"DAILY", "WEEKLY"}
    PROVE  /\ D!MinimumGap \in Nat
           /\ D!Weekly => D!MinimumGap = 144 /\ D!Days = 7
           /\ ~D!Weekly => D!MinimumGap = 20 /\ D!Days = 1
  BY DEF D!MinimumGap, D!Weekly, D!Days

\* Nothing has happened at first.
LEMMA DigestInit == ASSUME Digesting, D!Init PROVE DigestInv
  <1>1. /\ cadence \in {"DAILY", "WEEKLY"} /\ now = 0 /\ up = TRUE /\ ticked = "no"
        /\ lastSent = -1 /\ decided = FALSE /\ known = {} /\ jobs = {} /\ sends = <<>>
        /\ stamping = {}
    BY DEF D!Init, D!Never
  <1>2. used \in [Mishaps -> Nat] /\ used["manual"] = 0
    BY DEF D!Init, Mishaps
  <1>3. ~Sent /\ sends \in Seq(Sending) /\ DOMAIN sends = {}
    BY <1>1 DEF Sent
  <1>4. DigestTypes
    BY <1>1, <1>2, <1>3 DEF DigestTypes
  <1>5. Queued /\ Prompt /\ Told
    BY <1>1, <1>3 DEF Queued, Prompt, Told
  <1>6. Stamped /\ Spaced /\ Found /\ Kept
    BY <1>1, <1>3 DEF Stamped, Spaced, Found, Kept
  <1>7. D!NoDaySkipped
    BY <1>1 DEF D!NoDaySkipped
  <1> QED
    BY <1>4, <1>5, <1>6, <1>7 DEF DigestInv

\* What a dispatch goes by.
LEMMA Decides ==
    ASSUME DigestTypes
    PROVE  /\ D!Due /\ lastSent # -1 => now - lastSent >= D!MinimumGap
           /\ ~D!Due \/ D!MayPass =>
                \/ lastSent = -1 /\ D!Weekly
                \/ lastSent # -1 /\ now - lastSent <= D!MinimumGap
  <1>1. D!MinimumGap \in Nat /\ now \in Nat /\ lastSent \in Nat \union {-1}
    BY Gaps DEF DigestTypes
  <1>2. CASE lastSent = -1
    BY <1>2 DEF D!Due, D!MayPass, D!Never
  <1>3. CASE lastSent # -1
    <2>1. now - lastSent \in Int
      BY <1>1
    <2>2. FALSE \in D!TooSoon(now - lastSent) => now - lastSent >= D!MinimumGap
      <3>1. now - lastSent < D!MinimumGap => D!TooSoon(now - lastSent) = {TRUE}
        BY DEF D!TooSoon
      <3>2. now - lastSent >= D!MinimumGap \/ now - lastSent < D!MinimumGap
        BY <1>1, <2>1
      <3> QED
        BY <3>1, <3>2
    <2>3. TRUE \in D!TooSoon(now - lastSent) => now - lastSent <= D!MinimumGap
      <3>1. ~(now - lastSent < D!MinimumGap) /\ now - lastSent # D!MinimumGap
              => D!TooSoon(now - lastSent) = {FALSE}
        BY DEF D!TooSoon
      <3>2. now - lastSent < D!MinimumGap \/ now - lastSent = D!MinimumGap
              => now - lastSent <= D!MinimumGap
        BY <1>1, <2>1
      <3> QED
        BY <3>1, <3>2
    <2>4. D!TooSoon(now - lastSent) \in {{TRUE}, {FALSE}, BOOLEAN}
      BY DEF D!TooSoon
    <2> QED
      BY <1>3, <2>2, <2>3, <2>4 DEF D!Due, D!MayPass, D!Never
  <1> QED
    BY <1>2, <1>3

\* A dispatch decides unless the last delivery is recent.
LEMMA DigestDispatches == ASSUME Digesting, DigestInv, D!Dispatch PROVE DigestInv'
  <1>1. /\ ticked' = "yes"
        /\ UNCHANGED <<cadence, now, up, lastSent, known, jobs, sends, stamping, used>>
    BY DEF D!Dispatch
  <1>2. \/ now % 24 = SendHour /\ D!Due /\ decided' = TRUE
        \/ (now % 24 # SendHour \/ ~D!Due \/ D!MayPass) /\ decided' = decided
    BY DEF D!Dispatch
  <1>3. DigestTypes /\ decided = FALSE
    BY DEF DigestInv, DigestTypes, D!Dispatch
  <1>4. /\ D!MinimumGap' = D!MinimumGap /\ (D!Weekly' <=> D!Weekly) /\ D!MinimumGap \in Nat
        /\ (Sent' <=> Sent) /\ Last' = Last /\ (Attended' <=> Attended)
        /\ (Lasting' <=> Lasting) /\ (Unharmed' <=> Unharmed)
    BY <1>1, <1>3, Gaps DEF D!MinimumGap, D!Weekly, Sent, Last, Attended, Lasting, Unharmed, DigestTypes
  <1>5. DigestTypes' /\ Queued' /\ Prompt' /\ Told' /\ Stamped' /\ Kept'
    <2>1. DigestTypes'
      BY <1>1, <1>2, <1>3 DEF DigestTypes
    <2>2. Queued' /\ Prompt'
      BY <1>1, <1>2, <1>3, <1>4 DEF DigestInv, Queued, Prompt
    <2>3. Told' /\ Stamped' /\ Kept'
      BY <1>1, <1>4 DEF DigestInv, Told, Stamped, Kept
    <2> QED
      BY <2>1, <2>2, <2>3
  <1>6. Spaced'
    <2> SUFFICES ASSUME Unharmed PROVE Spaced'
      BY <1>4 DEF Spaced
    <2>1. ASSUME decided', now \notin known, NEW i \in DOMAIN sends, sends[i].by = "job"
          PROVE  now - sends[i].at >= D!MinimumGap
      <3>1. sends[i].at <= now /\ sends[i].at \in known /\ known \subseteq 0 .. now
        BY <2>1 DEF DigestInv, DigestTypes, Told
      <3>2. sends[i].at \in Nat /\ sends[i].at < now /\ now \in Nat
        <4>1. now \in Nat /\ sends[i].at \in 0 .. now /\ sends[i].at # now
          BY <1>3, <2>1, <3>1 DEF DigestTypes
        <4> QED
          BY <4>1
      <3>3. sends[i].at <= lastSent
        BY <3>2 DEF DigestInv, Stamped
      <3>4. lastSent \in Nat
        BY <1>3, <3>2, <3>3 DEF DigestTypes
      <3>5. now - lastSent >= D!MinimumGap
        <4>1. D!Due
          BY <1>2, <1>3, <2>1
        <4>2. lastSent # -1
          BY <3>4
        <4> QED
          BY <1>3, <4>1, <4>2, Decides
      <3> QED
        BY <1>4, <3>2, <3>3, <3>4, <3>5
    <2> QED
      BY <1>1, <1>4, <2>1 DEF DigestInv, Spaced
  <1>7. Found'
    <2> SUFFICES ASSUME Lasting, now % 24 = SendHour, ~decided', jobs = {}
                 PROVE  (~Sent /\ D!Weekly) \/ (Sent /\ now - Last <= D!MinimumGap)
      BY <1>1, <1>4 DEF Found
    <2>1. \/ lastSent = -1 /\ D!Weekly
          \/ lastSent # -1 /\ now - lastSent <= D!MinimumGap
      BY <1>2, <1>3, Decides
    <2>2. lastSent # -1 => Sent
      BY DEF DigestInv, Told
    <2>3. stamping # {} => Sent /\ Last = now
      BY DEF DigestInv, Told
    <2>4. stamping = {} /\ Sent => lastSent = Last
      BY DEF DigestInv, Stamped
    <2>5. Sent => Last \in Nat
      BY <1>3, Latest DEF DigestTypes
    <2> QED
      BY <1>3, <1>4, <2>1, <2>2, <2>3, <2>4, <2>5 DEF DigestTypes
  <1>8. D!NoDaySkipped'
    BY <1>1, <1>4, NoneSkipped DEF DigestInv
  <1> QED
    BY <1>5, <1>6, <1>7, <1>8 DEF DigestInv

\* A job is queued under the hour, unless the hour has had one.
LEMMA DigestEnqueues == ASSUME Digesting, DigestInv, D!Enqueue PROVE DigestInv'
  <1> DEFINE new == [hour |-> now, made |-> 0]
  <1>1. /\ decided = TRUE /\ decided' = FALSE /\ known' = known \union {now}
        /\ jobs' = IF now \in known THEN jobs ELSE jobs \union {new}
        /\ UNCHANGED <<cadence, now, up, ticked, lastSent, sends, stamping, used>>
    BY DEF D!Enqueue, D!JobId, DigestInv, DigestTypes
  <1>2. DigestTypes /\ new \in DigestJob /\ new.hour = now /\ new.made = 0
    BY DEF DigestInv, DigestTypes, DigestJob
  <1> HIDE DEF new
  <1>3. /\ D!MinimumGap' = D!MinimumGap /\ (D!Weekly' <=> D!Weekly) /\ D!MinimumGap \in Nat
        /\ (Sent' <=> Sent) /\ Last' = Last /\ (Attended' <=> Attended)
        /\ (Lasting' <=> Lasting) /\ (Unharmed' <=> Unharmed)
    BY <1>1, <1>2, Gaps DEF D!MinimumGap, D!Weekly, Sent, Last, Attended, Lasting, Unharmed, DigestTypes
  <1>4. \A j \in jobs' : j \in jobs \/ (j = new /\ now \notin known)
    BY <1>1
  <1>5. jobs \subseteq jobs' /\ (now \notin known => new \in jobs')
    BY <1>1
  <1>6. DigestTypes'
    <2>1. known' \subseteq 0 .. now' /\ jobs' \subseteq DigestJob /\ stamping' \subseteq known' \union {-1}
      BY <1>1, <1>2 DEF DigestTypes
    <2> QED
      BY <1>1, <1>2, <2>1 DEF DigestTypes
  <1>7. Queued'
    <2>1. \A h \in known' : h % 24 = SendHour
      BY <1>1 DEF DigestInv, Queued
    <2>2. used["faults"] \in Nat
      BY <1>2 DEF DigestTypes, Mishaps
    <2>3. ASSUME NEW j \in jobs' PROVE j.hour \in known' /\ j.made <= used["faults"]
      BY <1>1, <1>2, <1>4, <2>2 DEF DigestInv, Queued
    <2>4. Lasting /\ now \in known' => jobs' # {} \/ (Sent /\ Last = now)
      BY <1>1, <1>5 DEF DigestInv, Queued
    <2> QED
      BY <1>1, <1>3, <2>1, <2>3, <2>4 DEF Queued
  <1>8. Prompt' /\ Told' /\ Stamped'
    <2>1. Prompt'
      BY <1>1, <1>2, <1>3, <1>4 DEF DigestInv, Prompt
    <2>2. Told'
      BY <1>1, <1>3 DEF DigestInv, Told
    <2>3. jobs' = {} => jobs = {}
      BY <1>5
    <2>4. Stamped'
      BY <1>1, <1>3, <2>3 DEF DigestInv, Stamped
    <2> QED
      BY <2>1, <2>2, <2>4
  <1>9. Spaced'
    <2> SUFFICES ASSUME Unharmed PROVE Spaced'
      BY <1>3 DEF Spaced
    <2>1. \A j, k \in jobs' : j.hour = k.hour => j = k
      BY <1>2, <1>4 DEF DigestInv, Queued, Spaced
    <2>2. (\E j \in jobs' : j.hour = now) =>
             \A i \in DOMAIN sends : sends[i].by = "job" => now - sends[i].at >= D!MinimumGap
      BY <1>1, <1>4 DEF DigestInv, Spaced
    <2> QED
      BY <1>1, <1>3, <2>1, <2>2 DEF DigestInv, Spaced
  <1>10. Found'
    <2>1. Lasting => jobs' # {} \/ (Sent /\ Last = now)
      BY <1>1, <1>5 DEF DigestInv, Queued
    <2>2. Sent /\ Last = now => now - Last <= D!MinimumGap
      BY <1>2, <1>3 DEF DigestTypes
    <2> QED
      BY <1>1, <1>3, <2>1, <2>2 DEF Found
  <1>11. Kept' /\ D!NoDaySkipped'
    BY <1>1, <1>3, NoneSkipped DEF DigestInv, Kept
  <1> QED
    BY <1>6, <1>7, <1>8, <1>9, <1>10, <1>11 DEF DigestInv

\* After a delivery there is one of this hour, and it will be stamped.
LEMMA DigestGoesOut ==
    ASSUME Digesting, DigestInv, NEW e \in Sending, e.at = now, e.by = "job" => now \in known,
           NEW x \in known \union {-1}, sends' = Append(sends, e), stamping' = stamping \union {x},
           used' \in [Mishaps -> Nat], \A c \in Mishaps : used'[c] >= used[c],
           UNCHANGED <<cadence, now, up, ticked, lastSent, decided, known>>
    PROVE  /\ Told' /\ Stamped' /\ Found' /\ Kept' /\ D!NoDaySkipped'
           /\ sends' \in Seq(Sending) /\ stamping' \subseteq known \union {-1}
  <1>1. DigestTypes /\ now \in Nat /\ Attempts \in Nat /\ sends \in Seq(Sending)
    BY DEF DigestInv, DigestTypes, Digesting
  <1>2. /\ Attended' => Attended
        /\ Lasting' => Lasting
        /\ Unharmed' => Unharmed
        /\ used'["manual"] = 0 => used["manual"] = 0
    BY <1>1, Worse DEF DigestTypes
  <1>3. /\ sends' \in Seq(Sending) /\ Sent' /\ Last' = now
        /\ DOMAIN sends = 1 .. Len(sends) /\ DOMAIN sends' = 1 .. Len(sends) + 1
        /\ Len(sends) \in Nat /\ Len(sends') = Len(sends) + 1
        /\ \A i \in DOMAIN sends : sends'[i] = sends[i] /\ sends[i] \in Sending
        /\ sends'[Len(sends) + 1] = e
    BY <1>1, Delivered
  <1>4. \A i \in DOMAIN sends' : i \in DOMAIN sends \/ i = Len(sends) + 1
    BY <1>3
  <1>5. stamping' # {} /\ stamping' \subseteq known \union {-1}
    BY <1>1 DEF DigestTypes
  <1>6. D!MinimumGap' = D!MinimumGap /\ (D!Weekly' <=> D!Weekly) /\ D!MinimumGap \in Nat
    BY <1>1, Gaps DEF D!MinimumGap, D!Weekly, DigestTypes
  <1>7. Told'
    <2>1. \A i, k \in DOMAIN sends : i < k => sends[i].at <= sends[k].at
      BY DEF DigestInv, Told
    <2>2. \A i \in DOMAIN sends : sends[i].at <= now /\ (sends[i].by = "job" => sends[i].at \in known)
      BY DEF DigestInv, Told
    <2>3. ASSUME NEW i \in DOMAIN sends', NEW k \in DOMAIN sends', i < k
          PROVE  sends'[i].at <= sends'[k].at
      <3>1. i \in DOMAIN sends
        BY <1>3, <2>3
      <3>2. CASE k \in DOMAIN sends
        BY <1>3, <2>1, <2>3, <3>1, <3>2
      <3>3. CASE k = Len(sends) + 1
        BY <1>3, <2>2, <3>1, <3>3
      <3> QED
        BY <1>4, <3>2, <3>3
    <2>4. ASSUME NEW i \in DOMAIN sends'
          PROVE  sends'[i].at <= now /\ (sends'[i].by = "job" => sends'[i].at \in known)
      <3>1. CASE i \in DOMAIN sends
        BY <1>3, <2>2, <3>1
      <3>2. CASE i = Len(sends) + 1
        BY <1>1, <1>3, <3>2
      <3> QED
        BY <1>4, <3>1, <3>2
    <2>5. lastSent <= now
      BY DEF DigestInv, Told
    <2> QED
      BY <1>3, <2>3, <2>4, <2>5 DEF Told
  <1>8. Stamped'
    <2>1. ASSUME Unharmed', NEW i \in DOMAIN sends', sends'[i].at < now
          PROVE  sends'[i].at <= lastSent
      <3>1. i \in DOMAIN sends
        BY <1>1, <1>3, <1>4, <2>1
      <3> QED
        BY <1>2, <1>3, <2>1, <3>1 DEF DigestInv, Stamped
    <2> QED
      BY <1>5, <2>1 DEF Stamped
  <1>9. Found' /\ Kept'
    <2>1. now - Last' <= D!MinimumGap
      BY <1>1, <1>3, <1>6
    <2>2. \A h \in 0 .. now - 1 : h - Last' <= D!MinimumGap
      BY <1>1, <1>3, <1>6
    <2> QED
      BY <1>3, <1>6, <2>1, <2>2 DEF Found, Kept
  <1>10. D!NoDaySkipped'
    <2>1. D!Days' = D!Days /\ D!Days \in {1, 7} /\ D!Days \in Nat
      BY DEF D!Days, D!Weekly
    <2>2. \A i \in DOMAIN sends : D!Day(sends[i].at) \in Nat /\ D!Day(sends[i].at) = sends[i].at \div 24
      BY <1>3, DayHours DEF D!Day, Sending
    <2>3. D!Day(now) = now \div 24 /\ D!Day(now) \in Nat
      BY <1>1, DayHours DEF D!Day
    <2>4. ASSUME used'["outages"] = 0, used'["faults"] < Attempts,
                 used'["manual"] = 0 \/ D!Weekly,
                 NEW d \in D!Day(sends'[1].at) .. D!Day(now)
          PROVE  \E i \in DOMAIN sends' : D!Day(sends'[i].at) \in d .. d + D!Days - 1
      <3>1. Len(sends) + 1 \in DOMAIN sends' /\ sends'[Len(sends) + 1].at = now
        BY <1>3
      <3>2. 1 \in DOMAIN sends' /\ D!Day(sends'[1].at) \in Nat
        <4>1. CASE 1 \in DOMAIN sends
          BY <1>3, <2>2, <4>1
        <4>2. CASE Len(sends) + 1 = 1
          BY <1>3, <2>3, <4>2
        <4> QED
          BY <1>3, <4>1, <4>2
      <3>3. d \in Nat /\ d <= D!Day(now)
        BY <2>3, <3>2
      <3>4. CASE D!Day(now) <= d + D!Days - 1
        <4>1. D!Day(now) \in d .. d + D!Days - 1
          BY <2>1, <2>3, <3>3, <3>4
        <4> QED
          BY <3>1, <4>1
      <3>5. CASE ~(D!Day(now) <= d + D!Days - 1)
        <4>1. Sent
          <5> SUFFICES ASSUME ~Sent PROVE FALSE
            OBVIOUS
          <5>1. Len(sends) = 0
            BY <1>1 DEF Sent
          <5>2. d >= D!Day(now)
            BY <1>3, <2>3, <3>2, <5>1
          <5> QED
            BY <2>1, <2>3, <3>3, <3>5, <5>2
        <4>2. /\ Len(sends) \in DOMAIN sends /\ 1 \in DOMAIN sends /\ Last = sends[Len(sends)].at
              /\ Last \in Nat /\ sends'[1] = sends[1]
          BY <1>1, <1>3, <4>1, Latest
        <4>3. Lasting /\ Attended /\ (used["manual"] = 0 \/ D!Weekly)
          BY <1>2, <2>4 DEF Lasting, Attended
        <4>4. /\ D!Days = 7 => D!MinimumGap = 144
              /\ D!Days = 1 => D!MinimumGap = 20 /\ Last % 24 = SendHour
          BY <1>1, <4>1, <4>3, Gaps DEF DigestTypes, DigestInv, Prompt
        <4>5. \A h \in 0 .. now - 1 : h % 24 = SendHour => h - Last <= D!MinimumGap
          BY <4>1, <4>3 DEF DigestInv, Kept
        <4>6. now \div 24 <= Last \div 24 + D!Days
          BY <1>1, <1>6, <2>1, <4>2, <4>4, <4>5, WithinPeriod DEF Digesting
        <4>7. d \in D!Day(sends[1].at) .. D!Day(sends[Len(sends)].at)
          BY <2>1, <2>2, <2>3, <2>4, <3>3, <3>5, <4>2, <4>6
        <4>8. D!Reported(d)
          BY <4>1, <4>3, <4>7 DEF DigestInv, D!NoDaySkipped, Sent, Lasting, Attended
        <4>9. PICK i \in DOMAIN sends : D!Day(sends[i].at) \in d .. d + D!Days - 1
          BY <4>8 DEF D!Reported
        <4>10. i \in DOMAIN sends' /\ sends'[i] = sends[i]
          BY <1>3
        <4> QED
          BY <4>9, <4>10
      <3> QED
        BY <3>4, <3>5
    <2>5. sends'[Len(sends')].at = now
      BY <1>3
    <2> QED
      BY <1>6, <2>1, <2>4, <2>5 DEF D!NoDaySkipped, D!Reported, D!Day
  <1> QED
    BY <1>3, <1>5, <1>7, <1>8, <1>9, <1>10

\* A job delivers; nothing was delivered for its hour before.
LEMMA DigestDelivers ==
    ASSUME Digesting, DigestInv, NEW j \in jobs, D!Deliver(j)
    PROVE  DigestInv'
  <1> DEFINE e == [at |-> now, by |-> IF now = j.hour THEN "job" ELSE "late"]
  <1>1. /\ up = TRUE /\ jobs' = jobs \ {j} /\ sends' = Append(sends, e)
        /\ stamping' = stamping \union {j.hour}
        /\ UNCHANGED <<cadence, now, up, ticked, lastSent, decided, known, used>>
    BY DEF D!Deliver, DigestInv, DigestTypes
  <1>2. DigestTypes /\ now \in Nat /\ j \in DigestJob /\ j.hour \in known /\ j.hour % 24 = SendHour
    BY DEF DigestInv, DigestTypes, Queued
  <1>3. e \in Sending /\ e.at = now /\ (e.by = "job" <=> now = j.hour)
    BY <1>2 DEF Sending
  <1> HIDE DEF e
  <1>4. used' \in [Mishaps -> Nat] /\ \A c \in Mishaps : used'[c] >= used[c]
    BY <1>1, <1>2 DEF DigestTypes
  <1>5. /\ Told' /\ Stamped' /\ Found' /\ Kept' /\ D!NoDaySkipped'
        /\ sends' \in Seq(Sending) /\ stamping' \subseteq known \union {-1}
    BY <1>1, <1>2, <1>3, <1>4, DigestGoesOut
  <1>6. /\ sends' \in Seq(Sending) /\ Sent' /\ Last' = now
        /\ DOMAIN sends = 1 .. Len(sends) /\ DOMAIN sends' = 1 .. Len(sends) + 1
        /\ Len(sends) \in Nat /\ Len(sends') = Len(sends) + 1
        /\ \A i \in DOMAIN sends : sends'[i] = sends[i] /\ sends[i] \in Sending
        /\ sends'[Len(sends) + 1] = e
    BY <1>1, <1>2, <1>3, Delivered DEF DigestTypes
  <1>7. /\ (Attended' <=> Attended) /\ (Lasting' <=> Lasting) /\ (Unharmed' <=> Unharmed)
        /\ D!MinimumGap' = D!MinimumGap /\ D!MinimumGap \in Nat
    BY <1>1, <1>2, Gaps DEF Attended, Lasting, Unharmed, D!MinimumGap, D!Weekly, DigestTypes
  <1>8. DigestTypes'
    BY <1>1, <1>2, <1>5 DEF DigestTypes
  <1>9. Queued' /\ Prompt'
    <2>1. Queued'
      BY <1>1, <1>6, <1>7 DEF DigestInv, Queued
    <2>2. Attended => j.hour = now
      BY DEF DigestInv, Prompt
    <2> QED
      BY <1>1, <1>2, <1>6, <1>7, <2>1, <2>2 DEF DigestInv, Prompt
  <1>10. Spaced'
    <2> SUFFICES ASSUME Unharmed PROVE Spaced'
      BY <1>7 DEF Spaced
    <2>1. \A k, m \in jobs' : k.hour = m.hour => k = m
      BY <1>1 DEF DigestInv, Spaced
    <2>2. \A i \in DOMAIN sends' : i \in DOMAIN sends \/ i = Len(sends) + 1
      BY <1>6
    <2>3. (\E k \in jobs : k.hour = now) =>
             \A i \in DOMAIN sends : sends[i].by = "job" => now - sends[i].at >= D!MinimumGap
      BY DEF DigestInv, Spaced
    <2>4. now = j.hour => ~(\E k \in jobs' : k.hour = now) /\ now \in known
      BY <1>1, <1>2 DEF DigestInv, Spaced
    <2>5. (decided /\ now \notin known) \/ (\E k \in jobs' : k.hour = now) =>
             \A i \in DOMAIN sends' : sends'[i].by = "job" => now - sends'[i].at >= D!MinimumGap
      <3> SUFFICES ASSUME (decided /\ now \notin known) \/ (\E k \in jobs' : k.hour = now),
                          NEW i \in DOMAIN sends', sends'[i].by = "job"
                   PROVE  now - sends'[i].at >= D!MinimumGap
        OBVIOUS
      <3>1. i \in DOMAIN sends
        BY <1>3, <1>6, <2>2, <2>4
      <3>2. \A m \in DOMAIN sends : sends[m].by = "job" => now - sends[m].at >= D!MinimumGap
        BY <1>1, <2>3 DEF DigestInv, Spaced
      <3> QED
        BY <1>6, <3>1, <3>2
    <2>6. ASSUME NEW i \in DOMAIN sends', NEW k \in DOMAIN sends', i < k,
                 sends'[i].by = "job", sends'[k].by = "job"
          PROVE  sends'[k].at - sends'[i].at >= D!MinimumGap
      <3>1. i \in DOMAIN sends
        BY <1>6, <2>6
      <3>2. CASE k \in DOMAIN sends
        BY <1>6, <2>6, <3>1, <3>2 DEF DigestInv, Spaced
      <3>3. CASE k = Len(sends) + 1
        <4>1. now = j.hour /\ sends'[k].at = now
          BY <1>3, <1>6, <2>6, <3>3
        <4> QED
          BY <1>6, <2>3, <2>6, <3>1, <4>1
      <3> QED
        BY <2>2, <3>2, <3>3
    <2> QED
      BY <1>1, <1>7, <2>1, <2>5, <2>6 DEF Spaced
  <1> QED
    BY <1>5, <1>8, <1>9, <1>10 DEF DigestInv

\* A member sends it at once.
LEMMA DigestSentNow == ASSUME Digesting, DigestInv, D!SendNow PROVE DigestInv'
  <1> DEFINE e == [at |-> now, by |-> "hand"]
  <1>1. /\ sends' = Append(sends, e) /\ stamping' = stamping \union {-1}
        /\ UNCHANGED <<cadence, now, up, ticked, lastSent, decided, known, jobs>>
    BY DEF D!SendNow, D!Never
  <1>2. DigestTypes /\ now \in Nat /\ Attempts \in Nat
    BY DEF DigestInv, DigestTypes, Digesting
  <1>3. e \in Sending /\ e.at = now /\ e.by = "hand"
    BY <1>2 DEF Sending
  <1> HIDE DEF e
  <1>4. /\ used' \in [Mishaps -> Nat] /\ used'["manual"] = used["manual"] + 1
        /\ \A c \in Mishaps : used'[c] >= used[c]
    BY <1>2, DigestSpends DEF D!SendNow, DigestTypes, Mishaps
  <1>5. /\ Told' /\ Stamped' /\ Found' /\ Kept' /\ D!NoDaySkipped'
        /\ sends' \in Seq(Sending) /\ stamping' \subseteq known \union {-1}
    BY <1>1, <1>2, <1>3, <1>4, DigestGoesOut
  <1>6. /\ sends' \in Seq(Sending) /\ Sent' /\ Last' = now
        /\ DOMAIN sends = 1 .. Len(sends) /\ DOMAIN sends' = 1 .. Len(sends) + 1
        /\ Len(sends) \in Nat /\ Len(sends') = Len(sends) + 1
        /\ \A i \in DOMAIN sends : sends'[i] = sends[i] /\ sends[i] \in Sending
        /\ sends'[Len(sends) + 1] = e
    BY <1>1, <1>2, <1>3, Delivered DEF DigestTypes
  <1>7. /\ Attended' => Attended
        /\ Lasting' => Lasting
        /\ Unharmed' => Unharmed
        /\ used["faults"] \in Nat /\ used'["faults"] \in Nat /\ used'["faults"] >= used["faults"]
    BY <1>2, <1>4, Worse DEF DigestTypes
  <1>8. D!MinimumGap' = D!MinimumGap
    BY <1>1 DEF D!MinimumGap, D!Weekly
  <1>9. DigestTypes'
    BY <1>1, <1>2, <1>4, <1>5 DEF DigestTypes
  <1>10. Queued'
    <2>1. ASSUME NEW k \in jobs PROVE k.hour \in known /\ k.made <= used'["faults"]
      BY <1>2, <1>7 DEF DigestInv, Queued, DigestTypes, DigestJob
    <2> QED
      BY <1>1, <1>6, <1>7, <2>1 DEF DigestInv, Queued
  <1>11. Prompt'
    <2>1. used'["manual"] # 0
      BY <1>2, <1>4 DEF DigestTypes, Mishaps
    <2> QED
      BY <1>1, <1>7, <2>1 DEF DigestInv, Prompt
  <1>12. Spaced'
    <2>1. \A i \in DOMAIN sends' : sends'[i].by = "job" => i \in DOMAIN sends
      BY <1>3, <1>6
    <2> QED
      BY <1>1, <1>6, <1>7, <1>8, <2>1 DEF DigestInv, Spaced
  <1> QED
    BY <1>5, <1>9, <1>10, <1>11, <1>12 DEF DigestInv

\* Every channel fails: the job has another attempt, or had its last.
LEMMA DigestDeliveryFails ==
    ASSUME Digesting, DigestInv, NEW j \in jobs, D!DeliverFails(j)
    PROVE  DigestInv'
  <1> DEFINE again == [j EXCEPT !.made = j.made + 1]
  <1>1. /\ jobs' = IF j.made + 1 < Attempts THEN (jobs \ {j}) \union {again} ELSE jobs \ {j}
        /\ UNCHANGED <<cadence, now, up, ticked, lastSent, decided, known, sends, stamping>>
    BY DEF D!DeliverFails
  <1>2. DigestTypes /\ now \in Nat /\ Attempts \in Nat /\ j \in DigestJob /\ j.made \in Nat
    BY DEF DigestInv, DigestTypes, Digesting, DigestJob
  <1>3. again \in DigestJob /\ again.hour = j.hour /\ again.made = j.made + 1
    BY <1>2 DEF DigestJob
  <1> HIDE DEF again
  <1>4. /\ used' \in [Mishaps -> Nat] /\ used'["faults"] = used["faults"] + 1
        /\ \A c \in Mishaps : used'[c] >= used[c]
    BY <1>2, DigestSpends DEF D!DeliverFails, DigestTypes, Mishaps
  <1>5. /\ Attended' => Attended
        /\ Lasting' => Lasting
        /\ Unharmed' => Unharmed
        /\ used'["manual"] = 0 => used["manual"] = 0
        /\ used["faults"] \in Nat
    BY <1>2, <1>4, Worse DEF DigestTypes
  <1>6. /\ D!MinimumGap' = D!MinimumGap /\ (D!Weekly' <=> D!Weekly)
        /\ (Sent' <=> Sent) /\ Last' = Last
    BY <1>1 DEF D!MinimumGap, D!Weekly, Sent, Last
  <1>7. \A k \in jobs' : (k \in jobs /\ k # j) \/ k = again
    BY <1>1
  <1>8. j.hour \in known /\ j.made <= used["faults"]
    BY DEF DigestInv, Queued
  <1>9. Lasting' => jobs' # {}
    <2>1. Lasting' => j.made + 1 < Attempts
      BY <1>2, <1>4, <1>5, <1>8 DEF Lasting
    <2> QED
      BY <1>1, <2>1
  <1>10. DigestTypes'
    <2>1. jobs' \subseteq DigestJob
      BY <1>2, <1>3, <1>7 DEF DigestTypes
    <2> QED
      BY <1>1, <1>2, <1>4, <2>1 DEF DigestTypes
  <1>11. Queued'
    <2>1. ASSUME NEW k \in jobs' PROVE k.hour \in known /\ k.made <= used'["faults"]
      <3>1. CASE k \in jobs
        <4>1. k.made <= used["faults"] /\ k.made \in Nat /\ k.hour \in known
          BY <1>2, <3>1 DEF DigestInv, Queued, DigestTypes, DigestJob
        <4> QED
          BY <1>4, <1>5, <4>1
      <3>2. CASE k = again
        BY <1>2, <1>3, <1>4, <1>5, <1>8, <3>2
      <3> QED
        BY <1>7, <3>1, <3>2
    <2> QED
      BY <1>1, <1>9, <2>1 DEF DigestInv, Queued
  <1>12. Prompt'
    <2>1. Attended => \A k \in jobs' : k.hour = now
      BY <1>3, <1>7 DEF DigestInv, Prompt
    <2> QED
      BY <1>1, <1>5, <1>6, <2>1 DEF DigestInv, Prompt
  <1>13. Told' /\ Kept' /\ D!NoDaySkipped'
    <2>1. Told'
      BY <1>1, <1>6 DEF DigestInv, Told
    <2>2. Kept'
      BY <1>1, <1>5, <1>6 DEF DigestInv, Kept
    <2>3. D!NoDaySkipped'
      BY <1>1, <1>5, NoneSkipped DEF DigestInv
    <2> QED
      BY <2>1, <2>2, <2>3
  <1>14. Stamped' /\ Found'
    BY <1>1, <1>5, <1>6, <1>9 DEF DigestInv, Stamped, Found
  <1>15. Spaced'
    <2> SUFFICES ASSUME Unharmed PROVE Spaced'
      BY <1>5 DEF Spaced
    <2>1. \A k, m \in jobs' : k.hour = m.hour => k = m
      BY <1>3, <1>7 DEF DigestInv, Spaced
    <2>2. (\E k \in jobs' : k.hour = now) => \E k \in jobs : k.hour = now
      BY <1>3, <1>7
    <2> QED
      BY <1>1, <1>6, <2>1, <2>2 DEF DigestInv, Spaced
  <1> QED
    BY <1>10, <1>11, <1>12, <1>13, <1>14, <1>15 DEF DigestInv

\* A delivery is stamped in its hour.
LEMMA DigestIsStamped ==
    ASSUME Digesting, DigestInv, NEW h \in stamping, D!Stamp(h)
    PROVE  DigestInv'
  <1>1. /\ lastSent' = now /\ stamping' = stamping \ {h}
        /\ UNCHANGED <<cadence, now, up, ticked, decided, known, jobs, sends, used>>
    BY DEF D!Stamp, D!Stamped
  <1>2. DigestTypes /\ now \in Nat /\ Sent /\ Last = now
    BY DEF DigestInv, DigestTypes, Told
  <1>3. /\ D!MinimumGap' = D!MinimumGap /\ (D!Weekly' <=> D!Weekly)
        /\ (Sent' <=> Sent) /\ Last' = Last /\ (Attended' <=> Attended)
        /\ (Lasting' <=> Lasting) /\ (Unharmed' <=> Unharmed)
    BY <1>1 DEF D!MinimumGap, D!Weekly, Sent, Last, Attended, Lasting, Unharmed
  <1>4. DigestTypes'
    BY <1>1, <1>2 DEF DigestTypes
  <1>5. Queued' /\ Prompt'
    BY <1>1, <1>3 DEF DigestInv, Queued, Prompt
  <1>6. Told'
    BY <1>1, <1>2, <1>3 DEF DigestInv, Told
  <1>7. Stamped'
    <2>1. \A i \in DOMAIN sends : sends[i].at < now => sends[i].at <= now
      BY DEF DigestInv, Told
    <2> QED
      BY <1>1, <1>2, <1>3, <2>1 DEF Stamped
  <1>8. Spaced' /\ Found' /\ Kept'
    BY <1>1, <1>3 DEF DigestInv, Spaced, Found, Kept
  <1>9. D!NoDaySkipped'
    BY <1>1, <1>3, NoneSkipped DEF DigestInv
  <1> QED
    BY <1>4, <1>5, <1>6, <1>7, <1>8, <1>9 DEF DigestInv

\* The worker dies before it can stamp, and the job is delivered again.
LEMMA DigestCrashes ==
    ASSUME Digesting, DigestInv, NEW h \in stamping, D!CrashUnstamped(h)
    PROVE  DigestInv'
  <1> DEFINE again == [hour |-> h, made |-> 0]
  <1>1. /\ h # -1 /\ stamping' = stamping \ {h} /\ jobs' = jobs \union {again}
        /\ UNCHANGED <<cadence, now, up, ticked, lastSent, decided, known, sends>>
    BY DEF D!CrashUnstamped, D!Never
  <1>2. DigestTypes /\ now \in Nat /\ Attempts \in Nat /\ h \in known /\ h \in Nat
    BY <1>1 DEF DigestInv, DigestTypes, Digesting
  <1>3. again \in DigestJob /\ again.hour = h /\ again.made = 0
    BY <1>2 DEF DigestJob
  <1> HIDE DEF again
  <1>4. /\ used' \in [Mishaps -> Nat] /\ used'["crashes"] # 0 /\ used'["faults"] = used["faults"]
        /\ \A c \in Mishaps : used'[c] >= used[c]
    <2>1. /\ used' \in [Mishaps -> Nat] /\ \A c \in Mishaps : used'[c] >= used[c]
          /\ \A c \in Mishaps : used'[c] = IF c = "crashes" THEN used[c] + 1 ELSE used[c]
      BY <1>2, DigestSpends DEF D!CrashUnstamped, DigestTypes, Mishaps
    <2>2. used["crashes"] \in Nat
      BY <1>2 DEF DigestTypes, Mishaps
    <2> QED
      BY <2>1, <2>2 DEF Mishaps
  <1>5. /\ Attended' => Attended
        /\ Lasting' => Lasting
        /\ used'["manual"] = 0 => used["manual"] = 0
        /\ used["faults"] \in Nat /\ ~Unharmed'
    BY <1>2, <1>4, Worse DEF DigestTypes, Unharmed
  <1>6. /\ D!MinimumGap' = D!MinimumGap /\ (D!Weekly' <=> D!Weekly)
        /\ (Sent' <=> Sent) /\ Last' = Last
    BY <1>1 DEF D!MinimumGap, D!Weekly, Sent, Last
  <1>7. jobs' # {} /\ (\A k \in jobs' : k \in jobs \/ k = again)
    BY <1>1
  <1>8. DigestTypes'
    <2>1. jobs' \subseteq DigestJob /\ stamping' \subseteq known \union {-1}
      BY <1>1, <1>2, <1>3 DEF DigestTypes
    <2> QED
      BY <1>1, <1>2, <1>4, <2>1 DEF DigestTypes
  <1>9. Queued'
    <2>1. \A k \in jobs' : k.hour \in known /\ k.made <= used["faults"]
      BY <1>2, <1>3, <1>5, <1>7 DEF DigestInv, Queued
    <2> QED
      BY <1>1, <1>4, <1>7, <2>1 DEF DigestInv, Queued
  <1>10. Prompt'
    <2>1. Attended => h = now
      BY <1>1 DEF DigestInv, Prompt
    <2>2. Attended => \A k \in jobs' : k.hour = now
      BY <1>3, <1>7, <2>1 DEF DigestInv, Prompt
    <2> QED
      BY <1>1, <1>5, <1>6, <2>2 DEF DigestInv, Prompt
  <1>11. Told' /\ Stamped' /\ Spaced' /\ Found' /\ Kept'
    <2>1. Told'
      BY <1>1, <1>6 DEF DigestInv, Told
    <2>2. Stamped' /\ Spaced' /\ Found'
      BY <1>5, <1>7 DEF Stamped, Spaced, Found
    <2>3. Kept'
      BY <1>1, <1>5, <1>6 DEF DigestInv, Kept
    <2> QED
      BY <2>1, <2>2, <2>3
  <1>12. D!NoDaySkipped'
    BY <1>1, <1>5, NoneSkipped DEF DigestInv
  <1> QED
    BY <1>8, <1>9, <1>10, <1>11, <1>12 DEF DigestInv

\* The worker is stopped and started.
LEMMA DigestOutage == ASSUME Digesting, DigestInv, D!Stop \/ D!Start PROVE DigestInv'
  <1>1. UNCHANGED <<cadence, now, lastSent, decided, known, jobs, sends, stamping>>
    BY DEF D!Stop, D!Start
  <1>2. DigestTypes /\ Attempts \in Nat
    BY DEF DigestInv, DigestTypes, Digesting
  <1>3. /\ used' \in [Mishaps -> Nat] /\ used'["faults"] = used["faults"]
        /\ \A c \in Mishaps : used'[c] >= used[c]
        /\ up' \in BOOLEAN /\ ticked' \in {"no", "yes", "missed"}
        /\ ticked' = "yes" => ticked = "yes"
        /\ ~Attended'
    <2>1. CASE D!Stop
      <3>1. /\ used' \in [Mishaps -> Nat] /\ \A c \in Mishaps : used'[c] >= used[c]
            /\ \A c \in Mishaps : used'[c] = IF c = "outages" THEN used[c] + 1 ELSE used[c]
        BY <1>2, <2>1, DigestSpends DEF D!Stop, DigestTypes, Mishaps
      <3>2. used["outages"] \in Nat
        BY <1>2 DEF DigestTypes, Mishaps
      <3>3. up' = FALSE /\ ticked' = ticked
        BY <2>1 DEF D!Stop
      <3>4. used'["outages"] = used["outages"] + 1 /\ used'["faults"] = used["faults"]
        BY <3>1 DEF Mishaps
      <3>5. ~Attended'
        BY <3>2, <3>4 DEF Attended
      <3> QED
        BY <1>2, <3>1, <3>3, <3>4, <3>5 DEF DigestTypes
    <2>2. CASE D!Start
      <3>1. used' = used /\ up' = TRUE /\ ~up /\ ticked' = IF ticked = "yes" THEN "yes" ELSE "missed"
        BY <2>2 DEF D!Start
      <3>2. ~Attended
        BY <3>1 DEF DigestInv, Prompt
      <3> QED
        BY <1>2, <3>1, <3>2 DEF DigestTypes, Mishaps, Attended
    <2> QED
      BY <2>1, <2>2
  <1>4. /\ Lasting' => Lasting
        /\ Unharmed' => Unharmed
    BY <1>2, <1>3, Worse DEF DigestTypes
  <1>5. /\ D!MinimumGap' = D!MinimumGap /\ (D!Weekly' <=> D!Weekly)
        /\ (Sent' <=> Sent) /\ Last' = Last
    BY <1>1 DEF D!MinimumGap, D!Weekly, Sent, Last
  <1>6. DigestTypes'
    BY <1>1, <1>2, <1>3 DEF DigestTypes
  <1>7. Queued' /\ Told' /\ Stamped' /\ Spaced'
    <2>1. Queued'
      BY <1>1, <1>3, <1>4, <1>5 DEF DigestInv, Queued
    <2>2. Told'
      BY <1>1, <1>5 DEF DigestInv, Told
    <2>3. Stamped'
      BY <1>1, <1>4, <1>5 DEF DigestInv, Stamped
    <2>4. Spaced'
      BY <1>1, <1>4, <1>5 DEF DigestInv, Spaced
    <2> QED
      BY <2>1, <2>2, <2>3, <2>4
  <1>8. Found'
    BY <1>1, <1>3, <1>4, <1>5 DEF DigestInv, Found
  <1>9. Prompt' /\ Kept' /\ D!NoDaySkipped'
    BY <1>3 DEF Prompt, Kept, D!NoDaySkipped, Attended
  <1> QED
    BY <1>6, <1>7, <1>8, <1>9 DEF DigestInv

\* An hour ends.
LEMMA DigestHour == ASSUME Digesting, DigestInv, D!Hour PROVE DigestInv'
  <1>1. /\ decided = FALSE /\ stamping = {} /\ now' = now + 1 /\ ticked' = "no"
        /\ (up => jobs = {} /\ ticked # "no")
        /\ UNCHANGED <<cadence, up, lastSent, decided, known, jobs, sends, stamping, used>>
    BY DEF D!Hour, DigestInv, DigestTypes
  <1>2. DigestTypes /\ now \in Nat /\ now' \in Nat
    BY <1>1 DEF DigestInv, DigestTypes
  <1>3. /\ D!MinimumGap' = D!MinimumGap /\ (D!Weekly' <=> D!Weekly) /\ D!MinimumGap \in Nat
        /\ (Sent' <=> Sent) /\ Last' = Last /\ (Attended' <=> Attended)
        /\ (Lasting' <=> Lasting) /\ (Unharmed' <=> Unharmed)
    BY <1>1, <1>2, Gaps DEF D!MinimumGap, D!Weekly, Sent, Last, Attended, Lasting, Unharmed, DigestTypes
  <1>4. known \subseteq 0 .. now /\ known \subseteq 0 .. now + 1 /\ now + 1 \notin known
    BY <1>2 DEF DigestTypes
  <1>5. \A i \in DOMAIN sends : sends[i].at \in Nat /\ sends[i].at <= now
    <2>1. \A i \in DOMAIN sends : sends[i] \in Sending
      BY <1>2 DEF DigestTypes
    <2> QED
      BY <2>1 DEF DigestInv, Told, Sending
  <1>6. Sent => Last \in Nat /\ Last <= now
    BY <1>2, <1>5, Latest DEF DigestTypes
  <1>7. DigestTypes'
    BY <1>1, <1>2, <1>4 DEF DigestTypes
  <1>8. Queued' /\ Prompt'
    BY <1>1, <1>3, <1>4 DEF DigestInv, Queued, Prompt
  <1>9. Told'
    <2>1. lastSent <= now /\ lastSent \in Int
      BY <1>2 DEF DigestInv, Told, DigestTypes
    <2>2. \A i \in DOMAIN sends : sends[i].at <= now + 1
      BY <1>2, <1>5
    <2> QED
      BY <1>1, <1>2, <1>3, <2>1, <2>2 DEF DigestInv, Told
  <1>10. Stamped'
    <2>1. Unharmed => \A i \in DOMAIN sends : sends[i].at <= lastSent
      <3> SUFFICES ASSUME Unharmed, NEW i \in DOMAIN sends PROVE sends[i].at <= lastSent
        OBVIOUS
      <3>1. Sent
        BY <1>2 DEF Sent, DigestTypes
      <3>2. lastSent = Last /\ Last \in Nat
        BY <1>1, <1>6, <3>1 DEF DigestInv, Stamped
      <3>3. i = Len(sends) \/ (i < Len(sends) /\ Len(sends) \in DOMAIN sends)
        BY <1>2, <3>1, Latest DEF DigestTypes
      <3>4. sends[i].at <= Last
        BY <1>5, <3>2, <3>3 DEF DigestInv, Told, Last
      <3> QED
        BY <3>2, <3>4
    <2> QED
      BY <1>1, <1>3, <2>1 DEF DigestInv, Stamped
  <1>11. Spaced'
    <2>1. \A k \in jobs : k.hour # now + 1
      BY <1>4 DEF DigestInv, Queued
    <2> QED
      BY <1>1, <1>3, <2>1 DEF DigestInv, Spaced
  <1>12. Found'
    BY <1>1 DEF Found
  <1>13. Kept'
    <2> SUFFICES ASSUME Lasting, Attended, Sent, NEW h \in 0 .. now, h % 24 = SendHour
                 PROVE  h - Last <= D!MinimumGap
      BY <1>1, <1>2, <1>3 DEF Kept
    <2>1. CASE h # now
      <3>1. h \in 0 .. now - 1
        BY <1>2, <2>1
      <3> QED
        BY <3>1 DEF DigestInv, Kept
    <2>2. CASE h = now
      <3>1. up /\ ticked = "yes"
        BY <1>1, <1>2 DEF DigestInv, Prompt, DigestTypes
      <3> QED
        BY <1>1, <2>2, <3>1 DEF DigestInv, Found
    <2> QED
      BY <2>1, <2>2
  <1>14. D!NoDaySkipped'
    BY <1>1, <1>3, NoneSkipped DEF DigestInv
  <1> QED
    BY <1>7, <1>8, <1>9, <1>10, <1>11, <1>12, <1>13, <1>14 DEF DigestInv

\* DigestInv is inductive.
LEMMA DigestNext == ASSUME Digesting, DigestInv, [D!Next]_D!vars PROVE DigestInv'
  <1>1. CASE UNCHANGED D!vars
    BY <1>1 DEF D!vars, DigestInv, DigestTypes, Queued, Prompt, Told, Stamped, Spaced, Found, Kept,
       D!NoDaySkipped, D!Reported, D!Day, D!Days, D!Weekly, D!MinimumGap, Attended, Lasting,
       Unharmed, Sent, Last
  <1>2. CASE D!Next
    BY <1>2, DigestDispatches, DigestEnqueues, DigestDelivers, DigestDeliveryFails, DigestSentNow,
       DigestIsStamped, DigestCrashes, DigestOutage, DigestHour DEF D!Next
  <1> QED
    BY <1>1, <1>2

\* A digest is sent once a period, or again for a reason the code has, and no period is
\* skipped without cause.
THEOREM DigestsCoverEachDay == ASSUME Digesting PROVE D!Spec => []OneEachPeriod
  <1>1. ASSUME DigestInv PROVE OneEachPeriod
    <2>1. D!OncePerPeriod
      <3> SUFFICES ASSUME NEW i \in DOMAIN sends, NEW k \in DOMAIN sends,
                          i < k /\ sends[i].by = "job" /\ sends[k].by = "job"
                   PROVE  sends[k].at - sends[i].at >= D!MinimumGap \/ used["crashes"] > 0
        BY DEF D!OncePerPeriod
      <3>1. used["crashes"] = 0 \/ used["crashes"] > 0
        BY <1>1 DEF DigestInv, DigestTypes, Mishaps
      <3> QED
        BY <1>1, <3>1 DEF DigestInv, Spaced, Unharmed
    <2> QED
      BY <1>1, <2>1 DEF DigestInv, OneEachPeriod, D!OneEachPeriod
  <1> QED
    BY <1>1, DigestInit, DigestNext, PTL DEF D!Spec

\* A digest that was due has gone out when its hour ends.
THEOREM DigestsArrive == ASSUME Digesting PROVE D!Spec => Arrives
  <1> DEFINE Arrived == now' > now /\ now % 24 = SendHour /\ up /\ ticked = "yes" /\ used["faults"] = 0
                          /\ (D!Weekly => sends # <<>>)
                        => sends # <<>> /\ now - sends[Len(sends)].at <= D!MinimumGap
  <1>1. ASSUME DigestInv, [D!Next]_D!vars PROVE [Arrived]_D!vars
    <2> SUFFICES ASSUME now' > now, now % 24 = SendHour, up, ticked = "yes", used["faults"] = 0,
                        D!Weekly => sends # <<>>
                 PROVE  sends # <<>> /\ now - sends[Len(sends)].at <= D!MinimumGap
      OBVIOUS
    <2>1. now' # now
      BY <1>1 DEF DigestInv, DigestTypes
    <2>2. D!Hour
      BY <1>1, <2>1 DEF D!Next, D!vars, D!Dispatch, D!Enqueue, D!Deliver, D!DeliverFails, D!SendNow,
         D!Stamp, D!CrashUnstamped, D!Stop, D!Start
    <2>3. ~decided /\ jobs = {}
      BY <2>2 DEF D!Hour
    <2>4. Lasting
      BY DEF Lasting, Digesting
    <2> QED
      BY <1>1, <2>3, <2>4 DEF DigestInv, Found, Sent, Last
  <1> QED
    BY <1>1, DigestInit, DigestNext, PTL DEF D!Spec, Arrives, D!Arrives
-----------------------------------------------------------------------------
(* The cache.  A value is as old as its load took when it enters Redis and *)
(* as what is left of its ttl there tells; what enters a process is no     *)
(* older than the last of Redis, and ages by another ttl at most.          *)

Caching == Ttl \in Nat \ {0} /\ MaxSize \in Nat \ {0} /\ Slow \in Nat /\ 0 \notin Process

Entries == [key : Key, age : Nat, left : Int]
Loads == [p : Process, k : Key, phase : {"redis", "fetch", "setex"}, age : Nat, took : Nat]

\* What a process may have of a value, and Redis.
Young(e) == e.left >= -1 /\ (e.left >= 0 => e.age <= Slow + Ttl - 1 + (Ttl - e.left))
Shared(e) == e.left >= 1 /\ e.age <= Slow + (Ttl - e.left)

\* The map of a process: each key once, within its size.
Fits(s) ==
    /\ s \in Seq(Entries) /\ Len(s) <= MaxSize
    /\ \A i \in 1 .. Len(s) : Young(s[i])
    /\ \A i, j \in 1 .. Len(s) : s[i].key = s[j].key => i = j

MapsFit == memory \in [Process -> Seq(Entries)] /\ \A p \in Process : Fits(memory[p])

RedisFresh == redis \subseteq Entries /\ \A e \in redis : Shared(e)

\* One load of a key in a process, as old as it has taken at most.
OneLoad ==
    /\ flight \subseteq Loads
    /\ \A f \in flight : f.age <= f.took /\ f.took <= Slow
    /\ \A f, g \in flight : f.p = g.p /\ f.k = g.k => f = g

\* What is in flight is known to be, and nobody waits for anything else.
Known ==
    /\ inflight \in [Process -> SUBSET Key]
    /\ \A p \in Process, k \in Key : k \in inflight[p] <=> \E f \in flight : f.p = p /\ f.k = k

Awaited ==
    /\ DOMAIN reader = Reader
    /\ \A c \in Reader : \/ reader[c] = C!NoCall
                         \/ \E f \in flight : reader[c] = [p |-> f.p, k |-> f.k]

FreshEnough == oldest \in Nat /\ oldest < 2 * Ttl + Slow

CacheInv == MapsFit /\ RedisFresh /\ OneLoad /\ Known /\ Awaited /\ FreshEnough

-----------------------------------------------------------------------------

\* Removing an element closes the gap.
LEMMA RemoveAtIs ==
    ASSUME NEW S, NEW s \in Seq(S), NEW n \in 1 .. Len(s)
    PROVE  /\ C!RemoveAt(s, n) \in Seq(S) /\ Len(C!RemoveAt(s, n)) = Len(s) - 1
           /\ \A i \in 1 .. Len(s) - 1 :
                C!RemoveAt(s, n)[i] = IF i < n THEN s[i] ELSE s[i + 1]
  <1> DEFINE front == SubSeq(s, 1, n - 1)
             back == SubSeq(s, n + 1, Len(s))
  <1>1. /\ front \in Seq(S) /\ Len(front) = n - 1
        /\ \A i \in 1 .. n - 1 : front[i] = s[i]
    OBVIOUS
  <1>2. /\ back \in Seq(S) /\ Len(back) = Len(s) - n
        /\ \A i \in 1 .. Len(s) - n : back[i] = s[i + n]
    OBVIOUS
  <1>3. C!RemoveAt(s, n) = front \o back
    BY DEF C!RemoveAt
  <1> HIDE DEF front, back
  <1>4. front \o back \in Seq(S) /\ Len(front \o back) = Len(s) - 1
    BY <1>1, <1>2
  <1>5. \A i \in 1 .. Len(s) - 1 : (front \o back)[i] = IF i < n THEN s[i] ELSE s[i + 1]
    <2> TAKE i \in 1 .. Len(s) - 1
    <2>1. CASE i < n
      BY <2>1, <1>1, <1>2
    <2>2. CASE ~(i < n)
      <3>1. (front \o back)[i] = back[i - (n - 1)]
        BY <2>2, <1>1, <1>2
      <3>2. i - (n - 1) \in 1 .. Len(s) - n
        BY <2>2
      <3>3. back[i - (n - 1)] = s[i - (n - 1) + n] /\ i - (n - 1) + n = i + 1
        BY <3>2, <1>2
      <3> QED
        BY <3>1, <3>3, <2>2
    <2> QED
      BY <2>1, <2>2
  <1> QED
    BY <1>3, <1>4, <1>5

\* A map without a key fits, and has room for it.
LEMMA WithoutFits ==
    ASSUME Caching, NEW s, Fits(s), NEW k
    PROVE  /\ Fits(C!Without(s, k))
           /\ \A i \in 1 .. Len(C!Without(s, k)) : C!Without(s, k)[i].key # k
           /\ (\E i \in 1 .. Len(s) : s[i].key = k) => Len(C!Without(s, k)) < Len(s)
  <1> DEFINE t == C!Without(s, k)
             of == {i \in DOMAIN s : s[i].key = k}
             n == CHOOSE i \in of : TRUE
  <1>1. s \in Seq(Entries) /\ DOMAIN s = 1 .. Len(s) /\ Len(s) \in Nat /\ MaxSize \in Nat
    BY DEF Fits, Caching
  <1>2. CASE of = {}
    <2>1. t = s
      BY <1>2 DEF C!Without
    <2> QED
      BY <2>1, <1>1, <1>2
  <1>3. CASE of # {}
    <2>1. n \in 1 .. Len(s) /\ s[n].key = k
      BY <1>3, <1>1
    <2>2. t = C!RemoveAt(s, n)
      BY <1>3 DEF C!Without
    <2> HIDE DEF n, t
    <2>3. /\ t \in Seq(Entries) /\ Len(t) = Len(s) - 1
          /\ \A i \in 1 .. Len(s) - 1 : t[i] = IF i < n THEN s[i] ELSE s[i + 1]
      BY <2>1, <2>2, <1>1, RemoveAtIs
    <2>4. \A i \in 1 .. Len(t) : \E j \in 1 .. Len(s) : j # n /\ t[i] = s[j]
      <3> TAKE i \in 1 .. Len(t)
      <3>1. CASE i < n
        <4>1. i \in 1 .. Len(s) /\ i # n /\ t[i] = s[i]
          BY <2>1, <2>3, <3>1
        <4> QED
          BY <4>1
      <3>2. CASE i >= n
        <4>1. i + 1 \in 1 .. Len(s) /\ i + 1 # n /\ t[i] = s[i + 1]
          BY <2>1, <2>3, <3>2
        <4> QED
          BY <4>1
      <3> QED
        BY <3>1, <3>2, <2>1
    <2>5. \A i \in 1 .. Len(t) : Young(t[i]) /\ t[i].key # k
      BY <2>1, <2>4 DEF Fits
    <2>6. \A i, j \in 1 .. Len(t) : t[i].key = t[j].key => i = j
      <3> TAKE i, j \in 1 .. Len(t)
      <3> DEFINE a == IF i < n THEN i ELSE i + 1
                 b == IF j < n THEN j ELSE j + 1
      <3>1. a \in 1 .. Len(s) /\ b \in 1 .. Len(s) /\ t[i] = s[a] /\ t[j] = s[b]
        BY <2>1, <2>3
      <3>2. a = b => i = j
        BY <2>1
      <3> QED
        BY <3>1, <3>2 DEF Fits
    <2> QED
      BY <2>3, <2>5, <2>6, <1>1 DEF Fits, t
  <1> QED
    BY <1>2, <1>3

\* A map with another entry at its end fits.
LEMMA AppendFits ==
    ASSUME Caching, NEW s, Fits(s), Len(s) < MaxSize, NEW e \in Entries, Young(e),
           \A i \in 1 .. Len(s) : s[i].key # e.key
    PROVE  Fits(Append(s, e))
  <1>1. s \in Seq(Entries) /\ Len(s) \in Nat /\ MaxSize \in Nat
    BY DEF Fits, Caching
  <1> DEFINE t == Append(s, e)
  <1>2. /\ t \in Seq(Entries) /\ Len(t) = Len(s) + 1
        /\ \A i \in 1 .. Len(s) : t[i] = s[i]
        /\ t[Len(s) + 1] = e
    BY <1>1
  <1> HIDE DEF t
  <1>3. \A i \in 1 .. Len(t) : Young(t[i])
    BY <1>1, <1>2 DEF Fits
  <1>4. \A i, j \in 1 .. Len(t) : t[i].key = t[j].key => i = j
    BY <1>1, <1>2 DEF Fits
  <1> QED
    BY <1>1, <1>2, <1>3, <1>4 DEF Fits, t

\* What a hit moves fits, and so does what is set.
LEMMA HitFits ==
    ASSUME Caching, NEW s, Fits(s), NEW k, NEW e \in C!Found(s, k)
    PROVE  Fits(C!Hit(s, e)) /\ e \in Entries /\ Young(e) /\ e.left >= 0
  <1>1. s \in Seq(Entries) /\ DOMAIN s = 1 .. Len(s) /\ Len(s) \in Nat /\ MaxSize \in Nat
        /\ Len(s) <= MaxSize
    BY DEF Fits, Caching
  <1>2. PICK n \in 1 .. Len(s) : s[n] = e
    BY <1>1 DEF C!Found, C!ToSet
  <1>3. e \in Entries /\ Young(e) /\ e.left >= 0
    BY <1>1, <1>2 DEF C!Found, Fits
  <1> DEFINE t == C!Without(s, e.key)
  <1>4. Fits(t) /\ Len(t) < Len(s) /\ \A i \in 1 .. Len(t) : t[i].key # e.key
    BY <1>2, WithoutFits
  <1>5. Len(t) \in Nat
    BY <1>4 DEF Fits
  <1>6. C!Hit(s, e) = Append(t, e)
    BY DEF C!Hit
  <1> HIDE DEF t
  <1> QED
    BY <1>1, <1>3, <1>4, <1>5, <1>6, AppendFits

LEMMA SetFits ==
    ASSUME Caching, NEW s, Fits(s), NEW k \in Key, NEW a \in Nat, a <= Slow + Ttl - 1
    PROVE  Fits(C!Set(s, k, a))
  <1> DEFINE kept == IF Len(s) >= MaxSize THEN Tail(s) ELSE s
             new == C!Entry(k, a)
             t == [i \in DOMAIN kept |-> IF kept[i].key = k THEN new ELSE kept[i]]
  <1>1. s \in Seq(Entries) /\ Len(s) \in Nat /\ MaxSize \in Nat \ {0} /\ Ttl \in Nat /\ Slow \in Nat
        /\ Len(s) <= MaxSize
    BY DEF Fits, Caching
  <1>2. new \in Entries /\ Young(new) /\ new.key = k
    BY <1>1 DEF C!Entry, Entries, Young
  <1>3. Fits(kept) /\ Len(kept) < MaxSize
    <2>1. CASE Len(s) >= MaxSize
      <3> DEFINE u == Tail(s)
      <3>1. /\ u \in Seq(Entries) /\ Len(u) = Len(s) - 1
            /\ \A i \in 1 .. Len(u) : u[i] = s[i + 1]
        BY <2>1, <1>1
      <3> HIDE DEF u
      <3>2. \A i \in 1 .. Len(u) : Young(u[i])
        BY <3>1, <1>1 DEF Fits
      <3>3. \A i, j \in 1 .. Len(u) : u[i].key = u[j].key => i = j
        <4> TAKE i, j \in 1 .. Len(u)
        <4>1. i + 1 \in 1 .. Len(s) /\ j + 1 \in 1 .. Len(s) /\ i \in Int /\ j \in Int
          BY <3>1, <1>1
        <4>2. s[i + 1].key = s[j + 1].key => i + 1 = j + 1
          BY <4>1 DEF Fits
        <4> QED
          BY <4>1, <4>2, <3>1
      <3>4. Fits(u) /\ Len(u) < MaxSize
        BY <3>1, <3>2, <3>3, <1>1 DEF Fits
      <3> QED
        BY <3>4, <2>1 DEF u
    <2>2. CASE Len(s) < MaxSize
      BY <2>2, <1>1
    <2> QED
      BY <2>1, <2>2, <1>1
  <1>4. C!Set(s, k, a) = IF \E e \in C!ToSet(kept) : e.key = k THEN t ELSE Append(kept, new)
    BY DEF C!Set
  <1> HIDE DEF kept, new
  <1>5. kept \in Seq(Entries) /\ DOMAIN kept = 1 .. Len(kept) /\ Len(kept) \in Nat
    BY <1>3 DEF Fits
  <1>6. CASE \E e \in C!ToSet(kept) : e.key = k
    <2>1. /\ t \in Seq(Entries) /\ Len(t) = Len(kept)
          /\ \A i \in 1 .. Len(kept) : t[i] = IF kept[i].key = k THEN new ELSE kept[i]
      BY <1>5, <1>2
    <2> HIDE DEF t
    <2>2. \A i \in 1 .. Len(t) : Young(t[i]) /\ t[i].key = kept[i].key
      BY <2>1, <1>2, <1>3 DEF Fits
    <2>3. Fits(t)
      BY <2>1, <2>2, <1>1, <1>3, <1>5 DEF Fits
    <2> QED
      BY <2>3, <1>4, <1>6
  <1>7. CASE ~(\E e \in C!ToSet(kept) : e.key = k)
    <2>1. \A i \in 1 .. Len(kept) : kept[i].key # k
      BY <1>5, <1>7 DEF C!ToSet
    <2> QED
      BY <2>1, <1>2, <1>3, <1>4, <1>7, AppendFits
  <1> QED
    BY <1>6, <1>7

\* Nothing is kept at first.
LEMMA CacheInit == ASSUME Caching, C!Init PROVE CacheInv
  <1>1. Fits(<<>>)
    BY DEF Fits, Caching
  <1>2. memory \in [Process -> Seq(Entries)] /\ \A p \in Process : memory[p] = <<>>
    BY DEF C!Init
  <1>3. MapsFit
    BY <1>1, <1>2 DEF MapsFit
  <1>4. RedisFresh /\ OneLoad /\ Known /\ Awaited
    BY DEF C!Init, RedisFresh, OneLoad, Known, Awaited
  <1>5. FreshEnough
    BY DEF C!Init, FreshEnough, Caching
  <1> QED
    BY <1>3, <1>4, <1>5 DEF CacheInv

\* A value that is fresh enough may be served.
LEMMA FreshIsServed ==
    ASSUME FreshEnough, NEW a \in Nat, a < 2 * Ttl + Slow, C!Served(a)
    PROVE  FreshEnough'
  BY DEF FreshEnough, C!Served

\* A load that is over: the key is no longer in flight, and nobody waits for it.
LEMMA LoadIsOver ==
    ASSUME OneLoad, Known, Awaited, NEW f \in flight, NEW answered, C!Settle(f, answered)
    PROVE  OneLoad' /\ Known' /\ Awaited'
  <1>1. f \in Loads /\ f.p \in Process /\ f.k \in Key
    BY DEF OneLoad, Loads
  <1>2. /\ flight' = flight \ {f}
        /\ inflight' = [inflight EXCEPT ![f.p] = inflight[f.p] \ {f.k}]
        /\ reader' = [c \in Reader |-> IF c \in C!Waiting(f) THEN C!NoCall ELSE reader[c]]
    BY DEF C!Settle, C!Forgotten
  <1>3. OneLoad'
    BY <1>2 DEF OneLoad
  <1>4. Known'
    <2>1. /\ inflight' \in [Process -> SUBSET Key]
          /\ \A p \in Process : inflight'[p] = IF p = f.p THEN inflight[p] \ {f.k} ELSE inflight[p]
      BY <1>1, <1>2 DEF Known
    <2>2. ASSUME NEW p \in Process, NEW k \in Key
          PROVE  k \in inflight'[p] <=> \E g \in flight' : g.p = p /\ g.k = k
      <3>1. k \in inflight'[p] <=> k \in inflight[p] /\ ~(p = f.p /\ k = f.k)
        BY <2>1
      <3>2. (\E g \in flight' : g.p = p /\ g.k = k)
              <=> (\E g \in flight : g.p = p /\ g.k = k) /\ ~(p = f.p /\ k = f.k)
        BY <1>2 DEF OneLoad
      <3> QED
        BY <3>1, <3>2 DEF Known
    <2> QED
      BY <2>1, <2>2 DEF Known
  <1>5. Awaited'
    <2>1. ASSUME NEW c \in Reader
          PROVE  reader'[c] = C!NoCall \/ \E g \in flight' : reader'[c] = [p |-> g.p, k |-> g.k]
      <3>1. CASE c \in C!Waiting(f)
        BY <3>1, <1>2
      <3>2. CASE c \notin C!Waiting(f)
        <4>1. reader'[c] = reader[c] /\ reader[c] # [p |-> f.p, k |-> f.k]
          BY <3>2, <1>2 DEF C!Waiting
        <4> QED
          BY <4>1, <1>2 DEF Awaited
      <3> QED
        BY <3>1, <3>2
    <2> QED
      BY <2>1, <1>2 DEF Awaited
  <1> QED
    BY <1>3, <1>4, <1>5

\* A load that goes on is the same load.
LEMMA LoadGoesOn ==
    ASSUME OneLoad, Known, Awaited, NEW f \in flight, NEW g \in Loads, g.p = f.p, g.k = f.k,
           g.age <= g.took, g.took <= Slow, flight' = (flight \ {f}) \union {g},
           inflight' = inflight, reader' = reader
    PROVE  OneLoad' /\ Known' /\ Awaited'
  <1>1. OneLoad'
    <2>1. flight' \subseteq Loads /\ \A h \in flight' : h.age <= h.took /\ h.took <= Slow
      BY DEF OneLoad
    <2>2. \A h, i \in flight' : h.p = i.p /\ h.k = i.k => h = i
      BY DEF OneLoad
    <2> QED
      BY <2>1, <2>2 DEF OneLoad
  <1>2. \A p, k : (\E h \in flight' : h.p = p /\ h.k = k) <=> (\E h \in flight : h.p = p /\ h.k = k)
    OBVIOUS
  <1>3. Known'
    BY <1>2 DEF Known
  <1>4. Awaited'
    <2>1. ASSUME NEW c \in Reader
          PROVE  reader'[c] = C!NoCall \/ \E h \in flight' : reader'[c] = [p |-> h.p, k |-> h.k]
      <3>1. CASE reader[c] = C!NoCall
        BY <3>1
      <3>2. ASSUME NEW h \in flight, reader[c] = [p |-> h.p, k |-> h.k]
            PROVE  \E i \in flight' : reader'[c] = [p |-> i.p, k |-> i.k]
        BY <3>2
      <3> QED
        BY <3>1, <3>2 DEF Awaited
    <2> QED
      BY <2>1 DEF Awaited
  <1> QED
    BY <1>1, <1>3, <1>4

\* What a process sets is as old as what Redis has, at most.
LEMMA MapIsSet ==
    ASSUME Caching, MapsFit, NEW p \in Process, NEW k \in Key, NEW a \in Nat, a <= Slow + Ttl - 1,
           memory' = [memory EXCEPT ![p] = C!Set(memory[p], k, a)]
    PROVE  MapsFit'
  <1>1. Fits(C!Set(memory[p], k, a))
    BY SetFits DEF MapsFit
  <1>2. C!Set(memory[p], k, a) \in Seq(Entries)
    BY <1>1 DEF Fits
  <1> HIDE DEF C!Set
  <1> QED
    BY <1>1, <1>2 DEF MapsFit

\* A call: a hit is served, a miss starts a load or joins the one in flight.
LEMMA CacheAsks ==
    ASSUME Caching, CacheInv, NEW c \in Reader, NEW p \in Process, NEW k \in Key, C!Ask(c, p, k)
    PROVE  CacheInv'
  <1>1. Fits(memory[p]) /\ memory \in [Process -> Seq(Entries)]
    BY DEF CacheInv, MapsFit
  <1>2. RedisFresh'
    BY DEF CacheInv, RedisFresh, C!Ask
  <1>3. ASSUME NEW e \in C!Found(memory[p], k), memory' = [memory EXCEPT ![p] = C!Hit(memory[p], e)],
               C!Served(e.age), UNCHANGED <<flight, inflight, reader>>
        PROVE  CacheInv'
    <2>1. Fits(C!Hit(memory[p], e)) /\ e \in Entries /\ Young(e) /\ e.left >= 0
      BY <1>1, HitFits
    <2>2. C!Hit(memory[p], e) \in Seq(Entries)
      BY <2>1 DEF Fits
    <2>3. MapsFit'
      BY <1>1, <1>3, <2>1, <2>2 DEF CacheInv, MapsFit
    <2>4. e.age \in Nat /\ e.age < 2 * Ttl + Slow
      BY <2>1 DEF Young, Entries, Caching
    <2>5. FreshEnough'
      BY <2>4, <1>3, FreshIsServed DEF CacheInv
    <2>6. OneLoad' /\ Known' /\ Awaited'
      BY <1>3 DEF CacheInv, OneLoad, Known, Awaited
    <2> QED
      BY <1>2, <2>3, <2>5, <2>6 DEF CacheInv
  <1>4. ASSUME memory' = [memory EXCEPT ![p] = C!Without(memory[p], k)],
               reader' = [reader EXCEPT ![c] = [p |-> p, k |-> k]],
               IF k \in inflight[p]
               THEN UNCHANGED <<flight, inflight>>
               ELSE /\ flight' = flight \union
                                 {[p |-> p, k |-> k, phase |-> "redis", age |-> 0, took |-> 0]}
                    /\ inflight' = [inflight EXCEPT ![p] = inflight[p] \union {k}],
               UNCHANGED oldest
        PROVE  CacheInv'
    <2> DEFINE new == [p |-> p, k |-> k, phase |-> "redis", age |-> 0, took |-> 0]
    <2>1. Fits(C!Without(memory[p], k))
      BY <1>1, WithoutFits
    <2>2. C!Without(memory[p], k) \in Seq(Entries)
      BY <2>1 DEF Fits
    <2>3. MapsFit'
      BY <1>1, <1>4, <2>1, <2>2 DEF CacheInv, MapsFit
    <2>4. FreshEnough'
      BY <1>4 DEF CacheInv, FreshEnough
    <2>5. OneLoad' /\ Known' /\ (\E f \in flight' : f.p = p /\ f.k = k) /\ flight \subseteq flight'
      <3>1. CASE k \in inflight[p]
        <4>1. flight' = flight /\ inflight' = inflight
          BY <3>1, <1>4
        <4> QED
          BY <3>1, <4>1 DEF CacheInv, OneLoad, Known
      <3>2. CASE k \notin inflight[p]
        <4>1. flight' = flight \union {new} /\ inflight' = [inflight EXCEPT ![p] = inflight[p] \union {k}]
          BY <3>2, <1>4
        <4>2. new \in Loads /\ new.p = p /\ new.k = k /\ new.age = 0 /\ new.took = 0
          BY DEF Loads
        <4>3. \A f \in flight : ~(f.p = p /\ f.k = k)
          BY <3>2 DEF CacheInv, Known
        <4> HIDE DEF new
        <4>4. OneLoad'
          <5>1. flight' \subseteq Loads /\ \A f \in flight' : f.age <= f.took /\ f.took <= Slow
            BY <4>1, <4>2 DEF CacheInv, OneLoad, Caching
          <5>2. \A f, g \in flight' : f.p = g.p /\ f.k = g.k => f = g
            BY <4>1, <4>2, <4>3 DEF CacheInv, OneLoad
          <5> QED
            BY <5>1, <5>2 DEF OneLoad
        <4>5. /\ inflight' \in [Process -> SUBSET Key]
              /\ \A q \in Process : inflight'[q] = IF q = p THEN inflight[q] \union {k} ELSE inflight[q]
          BY <4>1 DEF CacheInv, Known
        <4>6. Known'
          BY <4>1, <4>2, <4>5 DEF CacheInv, Known
        <4> QED
          BY <4>1, <4>2, <4>4, <4>6
      <3> QED
        BY <3>1, <3>2
    <2>6. Awaited'
      <3>1. DOMAIN reader' = Reader /\ \A d \in Reader : reader'[d] = IF d = c THEN [p |-> p, k |-> k] ELSE reader[d]
        BY <1>4 DEF CacheInv, Awaited
      <3>2. ASSUME NEW d \in Reader
            PROVE  reader'[d] = C!NoCall \/ \E f \in flight' : reader'[d] = [p |-> f.p, k |-> f.k]
        <4>1. CASE d = c
          BY <3>1, <4>1, <2>5
        <4>2. CASE d # c
          <5>1. reader'[d] = reader[d]
            BY <3>1, <4>2
          <5>2. reader[d] = C!NoCall \/ \E f \in flight : reader[d] = [p |-> f.p, k |-> f.k]
            BY DEF CacheInv, Awaited
          <5> QED
            BY <5>1, <5>2, <2>5
        <4> QED
          BY <4>1, <4>2
      <3> QED
        BY <3>1, <3>2 DEF Awaited
    <2> QED
      BY <1>2, <2>3, <2>4, <2>5, <2>6 DEF CacheInv
  <1> HIDE DEF CacheInv
  <1> QED
    BY <1>3, <1>4 DEF C!Ask

\* The steps of a load.
LEMMA CacheLoads ==
    ASSUME Caching, CacheInv, NEW f \in flight,
           \/ C!RedisHit(f) \/ C!RedisMiss(f) \/ C!RedisDown(f)
           \/ C!Fetched(f) \/ C!FetchFails(f) \/ C!Stored(f) \/ C!StoreFails(f)
    PROVE  CacheInv'
  <1>1. /\ f \in Loads /\ f.p \in Process /\ f.k \in Key /\ f.age \in Nat /\ f.took \in Nat
        /\ f.age <= f.took /\ f.took <= Slow
    BY DEF CacheInv, OneLoad, Loads
  <1>2. MapsFit /\ RedisFresh /\ OneLoad /\ Known /\ Awaited /\ FreshEnough
    BY DEF CacheInv
  <1>3. f.age <= Slow + Ttl - 1 /\ f.age < 2 * Ttl + Slow /\ Ttl \in Nat \ {0} /\ Slow \in Nat
    BY <1>1 DEF Caching
  <1>4. CASE C!RedisHit(f)
    <2>1. PICK e \in C!InRedis(f.k) :
            memory' = [memory EXCEPT ![f.p] = C!Set(memory[f.p], f.k, e.age)] /\ C!Served(e.age)
      BY <1>4 DEF C!RedisHit
    <2>2. e.age \in Nat /\ e.age <= Slow + Ttl - 1 /\ e.age < 2 * Ttl + Slow
      BY <1>2, <1>3 DEF C!InRedis, RedisFresh, Shared, Entries
    <2>3. MapsFit' /\ FreshEnough'
      BY <1>1, <1>2, <2>1, <2>2, MapIsSet, FreshIsServed
    <2>4. C!Settle(f, TRUE) /\ redis' = redis
      BY <1>4 DEF C!RedisHit
    <2>5. OneLoad' /\ Known' /\ Awaited'
      BY <1>2, <2>4, LoadIsOver
    <2> QED
      BY <1>2, <2>3, <2>4, <2>5 DEF CacheInv, RedisFresh
  <1>5. CASE C!RedisMiss(f) \/ C!RedisDown(f)
    <2> DEFINE g == [f EXCEPT !.phase = "fetch", !.age = 0]
    <2>1. g \in Loads /\ g.p = f.p /\ g.k = f.k /\ g.age = 0 /\ g.took = f.took
      BY <1>1 DEF Loads
    <2>2. /\ flight' = (flight \ {f}) \union {g}
          /\ memory' = memory /\ redis' = redis /\ inflight' = inflight /\ reader' = reader
          /\ oldest' = oldest
      BY <1>5 DEF C!RedisMiss, C!RedisDown, C!Fetching
    <2> HIDE DEF g
    <2>3. OneLoad' /\ Known' /\ Awaited'
      BY <1>1, <1>2, <2>1, <2>2, LoadGoesOn
    <2> QED
      BY <1>2, <2>2, <2>3 DEF CacheInv, MapsFit, RedisFresh, FreshEnough
  <1>6. CASE C!Fetched(f)
    <2> DEFINE g == [f EXCEPT !.phase = "setex"]
    <2>1. g \in Loads /\ g.p = f.p /\ g.k = f.k /\ g.age = f.age /\ g.took = f.took
      BY <1>1 DEF Loads
    <2>2. /\ flight' = (flight \ {f}) \union {g}
          /\ memory' = [memory EXCEPT ![f.p] = C!Set(memory[f.p], f.k, f.age)]
          /\ redis' = redis /\ inflight' = inflight /\ reader' = reader /\ oldest' = oldest
      BY <1>6 DEF C!Fetched
    <2> HIDE DEF g
    <2>3. OneLoad' /\ Known' /\ Awaited'
      BY <1>1, <1>2, <2>1, <2>2, LoadGoesOn
    <2>4. MapsFit'
      BY <1>1, <1>2, <1>3, <2>2, MapIsSet
    <2> QED
      BY <1>2, <2>2, <2>3, <2>4 DEF CacheInv, RedisFresh, FreshEnough
  <1>7. CASE C!FetchFails(f)
    <2>1. C!Settle(f, FALSE) /\ memory' = memory /\ redis' = redis /\ oldest' = oldest
      BY <1>7 DEF C!FetchFails
    <2>2. OneLoad' /\ Known' /\ Awaited'
      BY <1>2, <2>1, LoadIsOver
    <2> QED
      BY <1>2, <2>1, <2>2 DEF CacheInv, MapsFit, RedisFresh, FreshEnough
  <1>8. CASE C!Stored(f) \/ C!StoreFails(f)
    <2>1. C!Settle(f, TRUE) /\ C!Served(f.age) /\ memory' = memory
      BY <1>8 DEF C!Stored, C!StoreFails
    <2>2. OneLoad' /\ Known' /\ Awaited'
      BY <1>2, <2>1, LoadIsOver
    <2>3. FreshEnough'
      BY <1>1, <1>2, <1>3, <2>1, FreshIsServed
    <2>4. C!Entry(f.k, f.age) \in Entries /\ Shared(C!Entry(f.k, f.age))
      BY <1>1, <1>3 DEF C!Entry, Entries, Shared
    <2>5. redis' = redis \/ redis' = {e \in redis : e.key # f.k} \union {C!Entry(f.k, f.age)}
      BY <1>8 DEF C!Stored, C!StoreFails
    <2>6. RedisFresh'
      BY <1>2, <2>4, <2>5 DEF RedisFresh
    <2> QED
      BY <1>2, <2>1, <2>2, <2>3, <2>6 DEF CacheInv, MapsFit
  <1> QED
    BY <1>4, <1>5, <1>6, <1>7, <1>8

\* A process that dies takes its map and its loads with it.
LEMMA CacheDies == ASSUME Caching, CacheInv, NEW p \in Process, C!Die(p) PROVE CacheInv'
  <1>1. /\ memory' = [memory EXCEPT ![p] = <<>>]
        /\ flight' = {f \in flight : f.p # p}
        /\ inflight' = [inflight EXCEPT ![p] = {}]
        /\ reader' = [c \in Reader |-> IF reader[c].p = p THEN C!NoCall ELSE reader[c]]
        /\ redis' = redis /\ oldest' = oldest
    BY DEF C!Die
  <1>2. Fits(<<>>) /\ <<>> \in Seq(Entries)
    BY DEF Fits, Caching
  <1>3. MapsFit'
    BY <1>1, <1>2 DEF CacheInv, MapsFit
  <1>4. OneLoad'
    BY <1>1 DEF CacheInv, OneLoad
  <1>5. Known'
    <2>1. /\ inflight' \in [Process -> SUBSET Key]
          /\ \A q \in Process : inflight'[q] = IF q = p THEN {} ELSE inflight[q]
      BY <1>1 DEF CacheInv, Known
    <2> QED
      BY <1>1, <2>1 DEF CacheInv, Known
  <1>6. Awaited'
    <2>1. ASSUME NEW c \in Reader
          PROVE  reader'[c] = C!NoCall \/ \E f \in flight' : reader'[c] = [p |-> f.p, k |-> f.k]
      <3>1. CASE reader[c].p = p
        BY <3>1, <1>1
      <3>2. CASE reader[c].p # p
        <4>1. reader'[c] = reader[c]
          BY <3>2, <1>1
        <4>2. reader[c] = C!NoCall \/ \E f \in flight : reader[c] = [p |-> f.p, k |-> f.k]
          BY DEF CacheInv, Awaited
        <4>3. ASSUME NEW f \in flight, reader[c] = [p |-> f.p, k |-> f.k] PROVE f \in flight'
          BY <4>3, <3>2, <1>1
        <4> QED
          BY <4>1, <4>2, <4>3
      <3> QED
        BY <3>1, <3>2
    <2> QED
      BY <2>1, <1>1 DEF Awaited
  <1> QED
    BY <1>1, <1>3, <1>4, <1>5, <1>6 DEF CacheInv, RedisFresh, FreshEnough

\* Entries and loads with other ages.
LEMMA EntryWith ==
    ASSUME NEW e \in Entries, NEW a \in Nat, NEW l \in Int
    PROVE  [e EXCEPT !.age = a, !.left = l] = [key |-> e.key, age |-> a, left |-> l]
  <1>1. e = [key |-> e.key, age |-> e.age, left |-> e.left]
    BY DEF Entries
  <1> DEFINE w == [e EXCEPT !.age = a, !.left = l]
  <1>2. w \in Entries /\ w.key = e.key /\ w.age = a /\ w.left = l
    BY DEF Entries
  <1> HIDE DEF w
  <1>3. w = [key |-> w.key, age |-> w.age, left |-> w.left]
    BY <1>2 DEF Entries
  <1> QED
    BY <1>2, <1>3 DEF w

LEMMA LoadWith ==
    ASSUME NEW f \in Loads, NEW a \in Nat, NEW t \in Nat
    PROVE  [f EXCEPT !.age = a, !.took = t]
             = [p |-> f.p, k |-> f.k, phase |-> f.phase, age |-> a, took |-> t]
  <1> DEFINE w == [f EXCEPT !.age = a, !.took = t]
  <1>2. w \in Loads /\ w.p = f.p /\ w.k = f.k /\ w.phase = f.phase /\ w.age = a /\ w.took = t
    BY DEF Loads
  <1> HIDE DEF w
  <1>3. w = [p |-> w.p, k |-> w.k, phase |-> w.phase, age |-> w.age, took |-> w.took]
    BY <1>2 DEF Loads
  <1> QED
    BY <1>2, <1>3 DEF w

\* Time passes for what is kept, for what Redis has and for every load.
LEMMA CacheAges == ASSUME Caching, CacheInv, C!Tick PROVE CacheInv'
  <1> DEFINE Aged1(e) == IF e.left > 0 THEN [e EXCEPT !.age = e.age + 1, !.left = e.left - 1]
                                       ELSE [e EXCEPT !.age = 0, !.left = -1]
             Old(e) == [e EXCEPT !.age = e.age + 1, !.left = e.left - 1]
             On(f) == [f EXCEPT !.age = f.age + 1, !.took = f.took + 1]
  <1>1. /\ \A f \in flight : f.took < Slow
        /\ memory' = [p \in Process |-> [i \in DOMAIN memory[p] |-> Aged1(memory[p][i])]]
        /\ redis' = {Old(e) : e \in {x \in redis : x.left > 1}}
        /\ flight' = {On(f) : f \in flight}
        /\ inflight' = inflight /\ reader' = reader /\ oldest' = oldest
    BY DEF C!Tick
  <1>2. Ttl \in Nat \ {0} /\ Slow \in Nat
    BY DEF Caching
  <1>3. ASSUME NEW e \in Entries, Young(e)
        PROVE  Aged1(e) \in Entries /\ Young(Aged1(e)) /\ Aged1(e).key = e.key
    <2> e.age + 1 \in Nat /\ e.left - 1 \in Int /\ 0 \in Nat /\ -1 \in Int
      BY DEF Entries
    <2>1. CASE e.left > 0
      <3>1. Aged1(e) = [key |-> e.key, age |-> e.age + 1, left |-> e.left - 1]
        BY <2>1, EntryWith
      <3> QED
        BY <3>1, <2>1, <1>2, <1>3 DEF Entries, Young
    <2>2. CASE ~(e.left > 0)
      <3>1. Aged1(e) = [key |-> e.key, age |-> 0, left |-> -1]
        BY <2>2, EntryWith
      <3> HIDE DEF Aged1
      <3>2. Aged1(e).left = -1 /\ Aged1(e).key = e.key /\ Aged1(e) \in Entries
        BY <3>1 DEF Entries
      <3> QED
        BY <3>2 DEF Young
    <2> QED
      BY <2>1, <2>2
  <1>4. \A e \in Entries : /\ e.left > 1 /\ Shared(e) => Old(e) \in Entries /\ Shared(Old(e))
    <2> TAKE e \in Entries
    <2> e.age + 1 \in Nat /\ e.left - 1 \in Int
      BY DEF Entries
    <2>1. Old(e) = [key |-> e.key, age |-> e.age + 1, left |-> e.left - 1]
      BY EntryWith
    <2> QED
      BY <2>1, <1>2 DEF Entries, Shared
  <1>5. \A f \in Loads : /\ On(f) \in Loads /\ On(f).p = f.p /\ On(f).k = f.k
                         /\ On(f).age = f.age + 1 /\ On(f).took = f.took + 1
    <2> TAKE f \in Loads
    <2> f.age + 1 \in Nat /\ f.took + 1 \in Nat
      BY DEF Loads
    <2>1. On(f) = [p |-> f.p, k |-> f.k, phase |-> f.phase, age |-> f.age + 1, took |-> f.took + 1]
      BY LoadWith
    <2> HIDE DEF On
    <2> QED
      BY <2>1 DEF Loads
  <1> HIDE DEF Aged1, Old, On
  <1>6. MapsFit'
    <2>1. ASSUME NEW p \in Process
          PROVE  memory'[p] \in Seq(Entries) /\ Fits(memory'[p])
      <3> DEFINE s == memory[p]
                 t == [i \in DOMAIN s |-> Aged1(s[i])]
      <3>1. Fits(s) /\ s \in Seq(Entries) /\ DOMAIN s = 1 .. Len(s) /\ Len(s) \in Nat
        BY DEF CacheInv, MapsFit, Fits
      <3>2. \A i \in 1 .. Len(s) : Aged1(s[i]) \in Entries /\ Young(Aged1(s[i])) /\ Aged1(s[i]).key = s[i].key
        BY <3>1, <1>3 DEF Fits
      <3>3. t \in Seq(Entries) /\ Len(t) = Len(s) /\ \A i \in 1 .. Len(s) : t[i] = Aged1(s[i])
        BY <3>1, <3>2
      <3>4. memory'[p] = t
        BY <1>1
      <3> HIDE DEF s, t
      <3>5. Fits(t)
        BY <3>1, <3>2, <3>3 DEF Fits
      <3> QED
        BY <3>3, <3>4, <3>5
    <2> QED
      BY <2>1, <1>1 DEF MapsFit
  <1>7. RedisFresh'
    BY <1>1, <1>4 DEF CacheInv, RedisFresh
  <1>8. OneLoad'
    <2>1. ASSUME NEW g \in flight'
          PROVE  \E f \in flight : /\ g = On(f) /\ g \in Loads /\ g.p = f.p /\ g.k = f.k
                                   /\ g.age <= g.took /\ g.took <= Slow
      <3>1. PICK f \in flight : g = On(f)
        BY <1>1
      <3>2. f \in Loads /\ f.age <= f.took /\ f.took < Slow /\ f.age \in Nat /\ f.took \in Nat
        BY <1>1 DEF CacheInv, OneLoad, Loads
      <3> QED
        BY <3>1, <3>2, <1>2, <1>5
    <2>2. ASSUME NEW g \in flight', NEW h \in flight', g.p = h.p, g.k = h.k PROVE g = h
      <3>1. PICK f \in flight : g = On(f) /\ g.p = f.p /\ g.k = f.k
        BY <2>1
      <3>2. PICK i \in flight : h = On(i) /\ h.p = i.p /\ h.k = i.k
        BY <2>1
      <3>3. f = i
        BY <3>1, <3>2, <2>2 DEF CacheInv, OneLoad
      <3> QED
        BY <3>1, <3>2, <3>3
    <2> QED
      BY <2>1, <2>2 DEF OneLoad
  <1>9. \A p, k : (\E g \in flight' : g.p = p /\ g.k = k) <=> (\E g \in flight : g.p = p /\ g.k = k)
    BY <1>1, <1>5 DEF CacheInv, OneLoad
  <1>10. Known'
    <2>1. inflight' = inflight
      BY <1>1
    <2> HIDE <1>1
    <2> QED
      BY <2>1, <1>9 DEF CacheInv, Known
  <1>11. Awaited'
    <2>1. ASSUME NEW c \in Reader
          PROVE  reader'[c] = C!NoCall \/ \E f \in flight' : reader'[c] = [p |-> f.p, k |-> f.k]
      <3>1. CASE reader[c] = C!NoCall
        BY <3>1, <1>1
      <3>2. ASSUME NEW f \in flight, reader[c] = [p |-> f.p, k |-> f.k]
            PROVE  \E g \in flight' : reader'[c] = [p |-> g.p, k |-> g.k]
        <4>1. PICK g \in flight' : g.p = f.p /\ g.k = f.k
          BY <1>9
        <4> QED
          BY <4>1, <3>2, <1>1
      <3> QED
        BY <3>1, <3>2 DEF CacheInv, Awaited
    <2> QED
      BY <2>1, <1>1 DEF CacheInv, Awaited
  <1> QED
    BY <1>1, <1>6, <1>7, <1>8, <1>10, <1>11 DEF CacheInv, FreshEnough

\* The cache's next step.
LEMMA CacheNext == ASSUME Caching, CacheInv, [C!Next]_C!vars PROVE CacheInv'
  <1>1. CASE UNCHANGED C!vars
    BY <1>1 DEF C!vars, CacheInv, MapsFit, RedisFresh, OneLoad, Known, Awaited, FreshEnough
  <1> QED
    BY <1>1, CacheAsks, CacheLoads, CacheDies, CacheAges DEF C!Next

\* What the cache promises follows.
LEMMA CacheIsKept == ASSUME Caching, CacheInv PROVE CacheKeeps
  <1>1. C!StaleAtMostTwice
    BY DEF CacheInv, FreshEnough, C!StaleAtMostTwice
  <1>2. \A f, g \in flight : f.p = g.p /\ f.k = g.k => f = g
    BY DEF CacheInv, OneLoad
  <1>3. ASSUME NEW p \in Process
        PROVE  /\ inflight[p] = {f.k : f \in {g \in flight : g.p = p}}
               /\ \A c \in Reader : reader[c].p = p => reader[c].k \in inflight[p]
               /\ Len(memory[p]) <= MaxSize
    <2>1. \A f \in flight : f.p \in Process /\ f.k \in Key
      BY DEF CacheInv, OneLoad, Loads
    <2>2. inflight[p] \subseteq Key /\ \A k \in Key : k \in inflight[p] <=> \E f \in flight : f.p = p /\ f.k = k
      BY DEF CacheInv, Known
    <2>3. inflight[p] = {f.k : f \in {g \in flight : g.p = p}}
      BY <2>1, <2>2
    <2>4. ASSUME NEW c \in Reader, reader[c].p = p PROVE reader[c].k \in inflight[p]
      <3>1. reader[c] # C!NoCall
        BY <2>4 DEF C!NoCall, Caching
      <3> QED
        BY <3>1, <2>1, <2>2, <2>4 DEF CacheInv, Awaited
    <2>5. Len(memory[p]) <= MaxSize
      BY DEF CacheInv, MapsFit, Fits
    <2> QED
      BY <2>3, <2>4, <2>5
  <1> QED
    BY <1>1, <1>2, <1>3 DEF CacheKeeps, C!CacheKeeps, C!LoadsShared

\* For any numbers of processes, keys and callers, any ttl, size and duration of a load:
\* what is served is younger than two ttls and a load, and callers of a process share loads.
THEOREM CacheStaysFresh == ASSUME Caching PROVE C!Spec => []CacheKeeps
  <1>1. C!Init => CacheInv
    BY CacheInit
  <1>2. CacheInv /\ [C!Next]_C!vars => CacheInv'
    BY CacheNext
  <1>3. CacheInv => CacheKeeps
    BY CacheIsKept
  <1> QED
    BY <1>1, <1>2, <1>3, PTL DEF C!Spec

-----------------------------------------------------------------------------
(* The rate limit.  What went through in the last window's length was      *)
(* counted in the counter's window or in the one before it, by a number of *)
(* its own there; and as long as no EXPIRE was cut off a counter without a *)
(* ttl has a caller that is about to give it one.                          *)

Limiting == Limit \in Nat /\ Window \in Nat \ {0}

Asking == {"idle", "expire", "ttl"}
Outages == {"open", "cut"}
Passed == [ago : 0 .. Window - 1, n : Int]

LimitTypes ==
    /\ count \in Nat /\ age \in Nat
    /\ left \in Int /\ (left = -1 \/ left \in 1 .. Window)
    /\ client \in [Client -> Asking] /\ told \in [Client -> Int] /\ over \in [Client -> BOOLEAN]
    /\ recent \subseteq Passed
    /\ failed \in [Outages -> Nat]

\* The clock of the counter is that of its ttl, or its first caller is still at it.
Expiring ==
    /\ left # -1 => count > 0 /\ age + left = Window
    /\ \A c \in Client : client[c] = "expire" => count > 0 /\ age = 0
    /\ \A c \in Client : client[c] = "ttl" => count > 0
    /\ failed["cut"] = 0 /\ count > 0 /\ left = -1 => \E c \in Client : client[c] = "expire"

\* Within the counter's window, or before it.
Here(r) == count > 0 /\ r.ago <= age

Numbered ==
    /\ \A r \in recent : r.n \in 1 .. Limit \/ (r.n <= 0 /\ -r.n < failed["open"])
    /\ \A r \in recent : r.n > 0 /\ count = 0 => r.ago > 0
    /\ \A r \in recent : r.n > 0 /\ Here(r) => r.n <= count
    /\ \A r, q \in recent : r.n = q.n /\ (r.n <= 0 \/ (Here(r) <=> Here(q))) => r = q

\* What a caller was told is what is left, until its window ends.
ToldTrue(c) == /\ count > 0 /\ told[c] >= 1
               /\ told[c] = IF left = -1 THEN Window ELSE left

WellTold == failed["cut"] = 0 => \A c \in Client : told[c] = -1 \/ over[c] \/ ToldTrue(c)

LimitInv == LimitTypes /\ Expiring /\ Numbered /\ WellTold

-----------------------------------------------------------------------------

LEMMA LimitInit == ASSUME Limiting, R!Init PROVE LimitInv
  BY DEF Limiting, R!Init, R!NoExpiry, R!None, LimitInv, LimitTypes, Expiring, Numbered, WellTold,
         Asking, Outages

\* What goes wrong is counted.
LEMMA OutageCounts ==
    ASSUME LimitTypes, NEW b \in Outages, R!Spend(b)
    PROVE  /\ failed' \in [Outages -> Nat]
           /\ \A d \in Outages : failed'[d] = IF d = b THEN failed[d] + 1 ELSE failed[d]
  <1>1. failed' = [failed EXCEPT ![b] = failed[b] + 1] /\ failed[b] + 1 \in Nat
    BY DEF LimitTypes, R!Spend
  <1> QED
    BY <1>1 DEF LimitTypes

\* One more goes through, by a number nobody has.
LEMMA OneMorePasses ==
    ASSUME Limiting, LimitTypes, NEW n \in Int, R!LetThrough(n)
    PROVE  /\ recent' \subseteq Passed
           /\ \A r \in recent' : r \in recent \/ (r.n = n /\ r.ago = 0)
           /\ \A r, q \in recent' : r.n = n /\ r.ago = 0 /\ q.n = n /\ q.ago = 0 => r = q
  <1> DEFINE new == [ago |-> 0, n |-> n]
  <1>1. new \in Passed /\ new.n = n /\ new.ago = 0
    BY DEF Passed, Limiting
  <1>2. recent' = recent \union {new}
    BY DEF R!LetThrough
  <1>3. \A r \in Passed : r.n = n /\ r.ago = 0 => r = new
    BY DEF Passed
  <1> HIDE DEF new
  <1>4. recent' \subseteq Passed
    BY <1>1, <1>2 DEF LimitTypes
  <1> QED
    BY <1>1, <1>2, <1>3, <1>4

\* INCR.
LEMMA LimitIncr == ASSUME Limiting, LimitInv, NEW c \in Client, R!Incr(c) PROVE LimitInv'
  <1> DEFINE step == IF R!First(count + 1) THEN "expire"
                     ELSE IF R!Allowed(count + 1) THEN "idle" ELSE "ttl"
  <1>1. /\ client[c] = "idle"
        /\ count' = count + 1
        /\ age' = IF count = 0 THEN 0 ELSE age
        /\ IF R!Allowed(count + 1) THEN R!LetThrough(count + 1) ELSE recent' = recent
        /\ client' = [client EXCEPT ![c] = step]
        /\ told' = [told EXCEPT ![c] = -1] /\ over' = [over EXCEPT ![c] = FALSE]
        /\ left' = left /\ failed' = failed
    BY DEF R!Incr, R!Goes, R!None
  <1>2. /\ count \in Nat /\ age \in Nat /\ count' \in Nat /\ age' \in Nat /\ count' > 0
        /\ Window \in Nat \ {0} /\ Limit \in Nat
    BY <1>1 DEF LimitInv, LimitTypes, Limiting
  <1>3. step \in Asking /\ (step = "expire" <=> count = 0)
    BY <1>2 DEF Asking, R!First
  <1> HIDE DEF step
  <1>4. /\ client' \in [Client -> Asking]
        /\ \A d \in Client : client'[d] = IF d = c THEN step ELSE client[d]
    BY <1>1, <1>3 DEF LimitInv, LimitTypes
  <1>5. /\ told' \in [Client -> Int] /\ over' \in [Client -> BOOLEAN]
        /\ \A d \in Client : told'[d] = -1 \/ (d # c /\ told'[d] = told[d] /\ over'[d] = over[d])
    <2>1. told' \in [Client -> Int] /\ \A d \in Client : told'[d] = IF d = c THEN -1 ELSE told[d]
      BY <1>1 DEF LimitInv, LimitTypes
    <2>2. /\ over' \in [Client -> BOOLEAN]
          /\ \A d \in Client : over'[d] = IF d = c THEN FALSE ELSE over[d]
      BY <1>1 DEF LimitInv, LimitTypes
    <2> QED
      BY <2>1, <2>2
  <1>6. /\ recent' \subseteq Passed
        /\ \A r \in recent' : \/ r \in recent
                              \/ r.n = count + 1 /\ r.ago = 0 /\ count + 1 <= Limit
        /\ \A r, q \in recent' : r.n = count + 1 /\ r.ago = 0 /\ q.n = count + 1 /\ q.ago = 0 => r = q
    <2>1. CASE R!Allowed(count + 1)
      BY <2>1, <1>1, <1>2, OneMorePasses DEF LimitInv, R!Allowed
    <2>2. CASE ~R!Allowed(count + 1)
      <3>1. recent' = recent
        BY <2>2, <1>1
      <3>2. \A r, q \in Passed : r.n = q.n /\ r.ago = q.ago => r = q
        BY DEF Passed
      <3> QED
        BY <3>1, <3>2 DEF LimitInv, LimitTypes
    <2> QED
      BY <2>1, <2>2
  <1>7. LimitTypes'
    BY <1>1, <1>2, <1>4, <1>5, <1>6 DEF LimitInv, LimitTypes
  <1>8. Expiring'
    <2>1. CASE count = 0
      <3>1. left = -1 /\ client'[c] = "expire" /\ age' = 0
        BY <2>1, <1>1, <1>3, <1>4 DEF LimitInv, Expiring, LimitTypes
      <3> QED
        BY <3>1, <1>1, <1>2 DEF Expiring
    <2>2. CASE count > 0
      <3>1. age' = age /\ client'[c] # "expire"
        BY <2>2, <1>1, <1>2, <1>3, <1>4
      <3>2. \A d \in Client : client'[d] = "expire" <=> client[d] = "expire"
        BY <3>1, <1>1, <1>4
      <3> QED
        BY <3>1, <3>2, <2>2, <1>1, <1>2 DEF LimitInv, Expiring
    <2> QED
      BY <2>1, <2>2, <1>2
  <1>9. Numbered'
    <2>1. \A r \in recent : r \in Passed /\ r.n \in Int /\ r.ago \in Nat
      BY DEF LimitInv, LimitTypes, Passed
    <2>2. \A r \in recent : r.n > 0 => (Here(r)' <=> Here(r))
      BY <1>1, <1>2, <2>1 DEF LimitInv, Numbered, Here
    <2>3. \A r \in recent' : r \notin recent => Here(r)' /\ r.n = count' /\ r.n \in 1 .. Limit
      BY <1>1, <1>2, <1>6 DEF Here
    <2>4. \A r \in recent : r.n = count + 1 => ~Here(r)'
      BY <1>2, <2>1, <2>2 DEF LimitInv, Numbered
    <2>5. \A r \in recent' : r.n \in 1 .. Limit \/ (r.n <= 0 /\ -r.n < failed'["open"])
      BY <1>1, <2>3 DEF LimitInv, Numbered
    <2>6. \A r \in recent' : r.n > 0 /\ Here(r)' => r.n <= count'
      BY <1>1, <1>2, <2>1, <2>2, <2>3 DEF LimitInv, Numbered
    <2>7. ASSUME NEW r \in recent', NEW q \in recent', r.n = q.n,
                 r.n <= 0 \/ (Here(r)' <=> Here(q)')
          PROVE  r = q
      <3>1. CASE r \in recent /\ q \in recent
        <4>1. r.n <= 0 \/ (Here(r) <=> Here(q))
          BY <3>1, <2>1, <2>2, <2>7
        <4> QED
          BY <3>1, <4>1, <2>7 DEF LimitInv, Numbered
      <3>2. CASE r \notin recent /\ q \notin recent
        BY <3>2, <1>6
      <3>3. CASE r \in recent /\ q \notin recent
        <4>1. Here(q)' /\ q.n = count + 1 /\ ~(q.n <= 0)
          BY <3>3, <2>3, <1>1, <1>2
        <4> QED
          BY <3>3, <4>1, <2>4, <2>7
      <3>4. CASE r \notin recent /\ q \in recent
        <4>1. Here(r)' /\ r.n = count + 1 /\ ~(r.n <= 0)
          BY <3>4, <2>3, <1>1, <1>2
        <4> QED
          BY <3>4, <4>1, <2>4, <2>7
      <3> QED
        BY <3>1, <3>2, <3>3, <3>4
    <2> QED
      BY <1>2, <2>5, <2>6, <2>7 DEF Numbered
  <1>10. WellTold'
    BY <1>1, <1>2, <1>5 DEF LimitInv, WellTold, ToldTrue
  <1> QED
    BY <1>7, <1>8, <1>9, <1>10 DEF LimitInv

\* A request that Redis does not count goes through by a number below zero.
LEMMA LimitIncrFails == ASSUME Limiting, LimitInv, NEW c \in Client, R!IncrFails(c) PROVE LimitInv'
  <1> DEFINE n == -failed["open"]
  <1>1. R!Spend("open") /\ R!LetThrough(n)
        /\ count' = count /\ left' = left /\ client' = client /\ told' = told /\ age' = age
        /\ over' = over
    BY DEF R!IncrFails
  <1>2. /\ failed' \in [Outages -> Nat] /\ failed'["open"] = failed["open"] + 1
        /\ failed'["cut"] = failed["cut"] /\ failed["open"] \in Nat
    BY <1>1, OutageCounts DEF LimitInv, LimitTypes, Outages
  <1>3. n \in Int /\ n <= 0
    BY <1>2
  <1>4. /\ recent' \subseteq Passed
        /\ \A r \in recent' : r \in recent \/ (r.n = n /\ r.ago = 0)
        /\ \A r, q \in recent' : r.n = n /\ r.ago = 0 /\ q.n = n /\ q.ago = 0 => r = q
    BY <1>1, <1>3, OneMorePasses DEF LimitInv
  <1>5. LimitTypes' /\ Expiring' /\ WellTold'
    BY <1>1, <1>2, <1>4 DEF LimitInv, LimitTypes, Expiring, WellTold, ToldTrue
  <1>6. Numbered'
    <2>1. \A r \in recent : r.n \in Int /\ r.n # n
      BY <1>2 DEF LimitInv, LimitTypes, Numbered, Passed
    <2>2. \A r : Here(r)' <=> Here(r)
      BY <1>1 DEF Here
    <2>3. \A r \in recent' : r.n \in 1 .. Limit \/ (r.n <= 0 /\ -r.n < failed'["open"])
      <3>1. \A r \in recent : r.n \in 1 .. Limit \/ (r.n <= 0 /\ -r.n < failed["open"])
        BY DEF LimitInv, Numbered
      <3>2. \A r \in recent : r.n \in 1 .. Limit \/ (r.n <= 0 /\ -r.n < failed'["open"])
        BY <1>2, <2>1, <3>1
      <3>3. -n < failed'["open"]
        BY <1>2
      <3> QED
        BY <1>3, <1>4, <3>2, <3>3
    <2>4. \A r \in recent' : r.n > 0 => r \in recent
      BY <1>3, <1>4
    <2>5. \A r, q \in recent' : r.n = q.n /\ (r.n <= 0 \/ (Here(r)' <=> Here(q)')) => r = q
      BY <1>4, <2>1, <2>2 DEF LimitInv, Numbered
    <2> QED
      BY <1>1, <2>2, <2>3, <2>4, <2>5 DEF LimitInv, Numbered
  <1> QED
    BY <1>5, <1>6 DEF LimitInv

\* EXPIRE, or nothing in its place.
LEMMA LimitExpires ==
    ASSUME Limiting, LimitInv, NEW c \in Client, R!Expire(c) \/ R!ExpireCut(c) PROVE LimitInv'
  <1>1. /\ client[c] = "expire" /\ client' = [client EXCEPT ![c] = "idle"]
        /\ count' = count /\ told' = told /\ age' = age /\ recent' = recent /\ over' = over
    BY DEF R!Expire, R!ExpireCut, R!Goes
  <1>2. /\ client' \in [Client -> Asking]
        /\ \A d \in Client : client'[d] = IF d = c THEN "idle" ELSE client[d]
    BY <1>1 DEF LimitInv, LimitTypes, Asking
  <1>3. count > 0 /\ age = 0 /\ Window \in Nat \ {0}
    BY <1>1 DEF LimitInv, Expiring, Limiting
  <1>4. \A d \in Client : client'[d] # "idle" => client[d] = client'[d]
    BY <1>2
  <1>5. CASE R!Expire(c)
    <2>1. left' = Window /\ failed' = failed
      BY <1>5 DEF R!Expire
    <2>2. left = -1 \/ left = Window
      BY <1>3 DEF LimitInv, Expiring, LimitTypes
    <2>3. LimitTypes'
      BY <1>1, <1>2, <1>3, <2>1 DEF LimitInv, LimitTypes
    <2>4. Expiring'
      BY <1>1, <1>3, <1>4, <2>1 DEF LimitInv, Expiring
    <2>5. WellTold'
      BY <1>1, <1>3, <2>1, <2>2 DEF LimitInv, WellTold, ToldTrue
    <2> QED
      BY <1>1, <2>1, <2>3, <2>4, <2>5 DEF LimitInv, Numbered, Here
  <1>6. CASE R!ExpireCut(c)
    <2>1. R!Spend("cut") /\ left' = left
      BY <1>6 DEF R!ExpireCut
    <2>2. /\ failed' \in [Outages -> Nat] /\ failed'["open"] = failed["open"]
          /\ failed'["cut"] = failed["cut"] + 1 /\ failed["cut"] \in Nat
      BY <2>1, OutageCounts DEF LimitInv, LimitTypes, Outages
    <2>3. LimitTypes'
      BY <1>1, <1>2, <2>1, <2>2 DEF LimitInv, LimitTypes
    <2>4. Expiring' /\ WellTold'
      BY <1>1, <1>3, <1>4, <2>1, <2>2 DEF LimitInv, Expiring, WellTold
    <2> QED
      BY <1>1, <2>2, <2>3, <2>4 DEF LimitInv, Numbered, Here
  <1> QED
    BY <1>5, <1>6

\* TTL.
LEMMA LimitReadsTtl == ASSUME Limiting, LimitInv, NEW c \in Client, R!ReadTtl(c) PROVE LimitInv'
  <1> DEFINE new == IF left = -1 THEN Window ELSE left
  <1>1. /\ client[c] = "ttl" /\ client' = [client EXCEPT ![c] = "idle"]
        /\ told' = [told EXCEPT ![c] = new]
        /\ count' = count /\ left' = left /\ age' = age /\ recent' = recent /\ over' = over
        /\ failed' = failed
    BY DEF R!ReadTtl, R!Goes, R!NoExpiry
  <1>2. new \in Int /\ new >= 1 /\ count > 0
    BY <1>1 DEF LimitInv, LimitTypes, Expiring, Limiting
  <1>3. /\ client' \in [Client -> Asking]
        /\ \A d \in Client : client'[d] = IF d = c THEN "idle" ELSE client[d]
    BY <1>1 DEF LimitInv, LimitTypes, Asking
  <1>4. told' \in [Client -> Int] /\ \A d \in Client : told'[d] = IF d = c THEN new ELSE told[d]
    BY <1>1, <1>2 DEF LimitInv, LimitTypes
  <1>5. LimitTypes'
    BY <1>1, <1>3, <1>4 DEF LimitInv, LimitTypes
  <1>6. \A d \in Client : client'[d] = "expire" <=> client[d] = "expire"
    BY <1>1, <1>3
  <1>7. Expiring'
    BY <1>1, <1>2, <1>6 DEF LimitInv, Expiring
  <1>8. WellTold'
    BY <1>1, <1>2, <1>4 DEF LimitInv, WellTold, ToldTrue
  <1> QED
    BY <1>1, <1>5, <1>7, <1>8 DEF LimitInv, Numbered, Here

\* A second passes, which may be the counter's last.
LEMMA LimitAges == ASSUME Limiting, LimitInv, R!Tick PROVE LimitInv'
  <1> DEFINE Back(r) == [r EXCEPT !.ago = r.ago + 1]
  <1>1. /\ \A c \in Client : client[c] = "idle"
        /\ left' = IF left = -1 \/ left = 1 THEN -1 ELSE left - 1
        /\ count' = IF left = 1 THEN 0 ELSE count
        /\ over' = [c \in Client |-> over[c] \/ left = 1]
        /\ age' = IF age > Window \/ count = 0 THEN age ELSE age + 1
        /\ told' = [c \in Client |-> IF told[c] > 0 THEN told[c] - 1 ELSE told[c]]
        /\ recent' = {Back(r) : r \in {x \in recent : x.ago < Window - 1}}
        /\ client' = client /\ failed' = failed
    BY DEF R!Tick, R!NoExpiry
  <1>2. /\ count \in Nat /\ age \in Nat /\ left \in Int /\ (left = -1 \/ left \in 1 .. Window)
        /\ Window \in Nat \ {0} /\ failed \in [Outages -> Nat] /\ recent \subseteq Passed
        /\ over \in [Client -> BOOLEAN] /\ told \in [Client -> Int]
        /\ client \in [Client -> Asking]
    BY DEF LimitInv, LimitTypes, Limiting
  <1>3. /\ left # -1 => count > 0 /\ age + left = Window
        /\ failed["cut"] = 0 /\ count > 0 => left # -1
    BY <1>1 DEF LimitInv, Expiring
  <1>4. count' \in Nat /\ age' \in Nat /\ left' \in Int /\ (left' = -1 \/ left' \in 1 .. Window)
    BY <1>1, <1>2
  <1>5. \A r \in Passed : /\ r.ago < Window - 1 => Back(r) \in Passed
                          /\ Back(r).n = r.n /\ Back(r).ago = r.ago + 1
    BY <1>2 DEF Passed
  <1> HIDE DEF Back
  <1>6. recent' \subseteq Passed
    BY <1>1, <1>2, <1>5
  <1>7. /\ over' \in [Client -> BOOLEAN] /\ told' \in [Client -> Int]
        /\ \A c \in Client : over'[c] = (over[c] \/ left = 1)
        /\ \A c \in Client : told'[c] = IF told[c] > 0 THEN told[c] - 1 ELSE told[c]
    <2>1. over' \in [Client -> BOOLEAN] /\ \A c \in Client : over'[c] = (over[c] \/ left = 1)
      BY <1>1, <1>2
    <2>2. told' \in [Client -> Int]
          /\ \A c \in Client : told'[c] = IF told[c] > 0 THEN told[c] - 1 ELSE told[c]
      BY <1>1, <1>2
    <2> QED
      BY <2>1, <2>2
  <1>8. LimitTypes'
    BY <1>1, <1>2, <1>4, <1>6, <1>7 DEF LimitTypes
  <1>9. Expiring'
    <2>1. left' # -1 => count' > 0 /\ age' + left' = Window
      BY <1>1, <1>2, <1>3
    <2>2. \A c \in Client : client'[c] = "idle"
      BY <1>1
    <2>3. failed'["cut"] = 0 /\ count' > 0 /\ left' = -1 => FALSE
      BY <1>1, <1>2, <1>3
    <2> QED
      BY <2>1, <2>2, <2>3 DEF Expiring
  <1>10. Numbered'
    <2>1. \A r \in Passed : r.n \in Int /\ r.ago \in 0 .. Window - 1
      BY DEF Passed
    <2>2. ASSUME NEW s \in recent'
          PROVE  \E r \in recent : /\ s = Back(r) /\ s.n = r.n /\ s.ago > 0
                                   /\ r.n \in Int
                                   /\ Here(s)' <=> Here(r) /\ left # 1
                                   /\ left = 1 => Here(r)
      <3>1. PICK r \in recent : s = Back(r) /\ r.ago < Window - 1
        BY <1>1
      <3>2. r \in Passed /\ s.n = r.n /\ s.ago = r.ago + 1 /\ r.ago \in 0 .. Window - 1 /\ r.n \in Int
        BY <3>1, <1>2, <1>5, <2>1
      <3>3. Here(s)' <=> Here(r) /\ left # 1
        <4>1. CASE left = 1 \/ count = 0
          BY <4>1, <1>1, <1>2, <1>3 DEF Here
        <4>2. CASE left # 1 /\ count # 0
          <5>1. count' = count /\ count > 0 /\ age' = IF age > Window THEN age ELSE age + 1
            BY <4>2, <1>1, <1>2
          <5>2. s.ago <= age' <=> r.ago <= age
            BY <5>1, <3>1, <3>2, <1>2
          <5> QED
            BY <4>2, <5>1, <5>2 DEF Here
        <4> QED
          BY <4>1, <4>2
      <3>4. left = 1 => Here(r)
        BY <3>2, <1>2, <1>3 DEF Here
      <3> QED
        BY <3>1, <3>2, <3>3, <3>4
    <2>3. \A s \in recent' : s.n \in 1 .. Limit \/ (s.n <= 0 /\ -s.n < failed'["open"])
      BY <1>1, <2>2 DEF LimitInv, Numbered
    <2>4. \A s \in recent' : s.n > 0 /\ Here(s)' => s.n <= count'
      BY <1>1, <2>2 DEF LimitInv, Numbered
    <2>5. ASSUME NEW s \in recent', NEW t \in recent', s.n = t.n, s.n <= 0 \/ (Here(s)' <=> Here(t)')
          PROVE  s = t
      <3>1. PICK r \in recent : /\ s = Back(r) /\ s.n = r.n /\ (Here(s)' <=> Here(r) /\ left # 1)
                                /\ left = 1 => Here(r)
        BY <2>2
      <3>2. PICK q \in recent : /\ t = Back(q) /\ t.n = q.n /\ (Here(t)' <=> Here(q) /\ left # 1)
                                /\ left = 1 => Here(q)
        BY <2>2
      <3>3. r.n = q.n /\ (r.n <= 0 \/ (Here(r) <=> Here(q)))
        BY <2>5, <3>1, <3>2
      <3>4. r = q
        BY <3>3 DEF LimitInv, Numbered
      <3> QED
        BY <3>1, <3>2, <3>4
    <2> QED
      BY <2>2, <2>3, <2>4, <2>5 DEF Numbered
  <1>11. WellTold'
    <2> SUFFICES ASSUME failed'["cut"] = 0, NEW c \in Client, told'[c] # -1, ~over'[c]
                 PROVE  ToldTrue(c)'
      BY DEF WellTold
    <2>1. left # 1 /\ ~over[c] /\ told[c] \in Int
      BY <1>2, <1>7
    <2>2. told[c] = -1 \/ ToldTrue(c)
      BY <2>1, <1>1 DEF LimitInv, WellTold
    <2>3. ToldTrue(c)
      BY <2>1, <2>2, <1>7
    <2>4. count > 0 /\ left # -1 /\ told[c] = left /\ left \in 1 .. Window
      BY <2>3, <1>1, <1>2, <1>3 DEF ToldTrue
    <2> QED
      BY <2>1, <2>4, <1>1, <1>7 DEF ToldTrue
  <1> QED
    BY <1>8, <1>9, <1>10, <1>11 DEF LimitInv

LEMMA LimitNext == ASSUME Limiting, LimitInv, [R!Next]_R!vars PROVE LimitInv'
  <1>1. CASE UNCHANGED R!vars
    BY <1>1 DEF R!vars, LimitInv, LimitTypes, Expiring, Numbered, Here, WellTold, ToldTrue
  <1> QED
    BY <1>1, LimitIncr, LimitIncrFails, LimitExpires, LimitReadsTtl, LimitAges DEF R!Next

\* The first n numbers are n.
LEMMA UpToHowMany ==
    ASSUME NEW n \in Nat PROVE IsFiniteSet(1 .. n) /\ Cardinality(1 .. n) = n
  <1>1. 1 \in Int /\ n \in Int
    OBVIOUS
  <1>2. IsFiniteSet(1 .. n) /\ Cardinality(1 .. n) = IF 1 > n THEN 0 ELSE n - 1 + 1
    BY <1>1, FS_Interval
  <1> QED
    BY <1>2

\* The numbers of what went through are those of two windows and of the outages.
LEMMA PassesCounted ==
    ASSUME Limiting, LimitInv PROVE R!Cardinality(recent) <= 2 * Limit + failed["open"]
  <1> DEFINE most == 2 * Limit + failed["open"]
             place == [r \in recent |-> IF r.n <= 0 THEN 2 * Limit + 1 - r.n
                                        ELSE IF Here(r) THEN r.n ELSE Limit + r.n]
  <1>1. Limit \in Nat /\ failed["open"] \in Nat /\ \A r \in recent : r.n \in Int
    BY DEF Limiting, LimitInv, LimitTypes, Outages, Passed
  <1>2. \A r \in recent : r.n \in 1 .. Limit \/ (r.n <= 0 /\ -r.n < failed["open"])
    BY DEF LimitInv, Numbered
  <1>3. place \in [recent -> 1 .. most]
    BY <1>1, <1>2
  <1>4. \A r, q \in recent : place[r] = place[q] => r = q
    <2> TAKE r, q \in recent
    <2>1. place[r] = place[q] => r.n = q.n /\ (r.n <= 0 \/ (Here(r) <=> Here(q)))
      BY <1>1, <1>2
    <2> QED
      BY <2>1 DEF LimitInv, Numbered
  <1> HIDE DEF place
  <1>5. place \in Injection(recent, 1 .. most)
    BY <1>3, <1>4 DEF Injection, IsInjective
  <1>6. IsFiniteSet(1 .. most) /\ Cardinality(1 .. most) = most
    <2>1. most \in Nat
      BY <1>1
    <2> HIDE DEF most
    <2> QED
      BY <2>1, UpToHowMany
  <1>7. Cardinality(recent) <= most
    BY <1>5, <1>6, FS_Injection
  <1>8. R!Cardinality(recent) = Cardinality(recent)
    BY DEF R!Cardinality, Cardinality
  <1> QED
    BY <1>7, <1>8

LEMMA LimitHolds == ASSUME Limiting, LimitInv PROVE WindowHolds
  <1>1. failed["cut"] = 0 /\ count > 0 => age <= Window
    BY DEF Limiting, LimitInv, Expiring, LimitTypes
  <1>2. failed["cut"] = 0 => \A c \in Client : told[c] = 0 => over[c]
    BY DEF LimitInv, WellTold, ToldTrue
  <1> QED
    BY <1>1, <1>2, PassesCounted DEF WindowHolds, R!WindowHolds

\* For any limit, any window and any number of callers: within a window's length twice the
\* limit goes through at most, and who waits as told finds the window over.
THEOREM LimitIsHeld == ASSUME Limiting PROVE R!Spec => []WindowHolds
  <1>1. R!Init => LimitInv
    BY LimitInit
  <1>2. LimitInv /\ [R!Next]_R!vars => LimitInv'
    BY LimitNext
  <1>3. LimitInv => WindowHolds
    BY LimitHolds
  <1> QED
    BY <1>1, <1>2, <1>3, PTL DEF R!Spec
==============================================================================
