----------------------------- MODULE HostThrottle -----------------------------
(***************************************************************************)
(* One host's slot, throttleHost of src/server/redis.ts: SET NX PX takes   *)
(* it; who does not get it reads its PTTL, sleeps and tries again.         *)
(***************************************************************************)
EXTENDS Integers

CONSTANTS
    Lane,      \* callers in any process
    Interval,  \* minIntervalMs
    Short      \* the 25 ms slept when the slot has just gone

ASSUME HostAssumption == Interval \in Nat /\ Short \in Nat

VARIABLES
    slot,   \* what is left of the key, 0 without one
    lane,   \* lane[l]: away, trying, reading the ttl, or asleep for so long
    since,  \* ghost: since the last call, up to Interval
    close   \* ghost: the shortest time between two calls, up to Interval

vars == <<slot, lane, since, close>>

Away == [at |-> "away", sleep |-> 0]
Asleep(n) == [at |-> "asleep", sleep |-> n]

Init == slot = 0 /\ lane = [l \in Lane |-> Away] /\ since = Interval /\ close = Interval

Want(l) ==
    /\ lane[l] = Away
    /\ lane' = [lane EXCEPT ![l].at = "set"]
    /\ UNCHANGED <<slot, since, close>>

\* mutant: who has slept takes the slot
FreeOrSlept == TRUE

Free == slot = 0

Take(l) ==
    /\ lane[l].at = "set" /\ Free
    /\ slot' = Interval
    /\ lane' = [lane EXCEPT ![l] = Away]
    /\ since' = 0
    /\ close' = IF since < close THEN since ELSE close

Miss(l) ==
    /\ lane[l].at = "set" /\ ~Free
    /\ lane' = [lane EXCEPT ![l].at = "pttl"]
    /\ UNCHANGED <<slot, since, close>>

ReadTtl(l) ==
    /\ lane[l].at = "pttl"
    /\ lane' = [lane EXCEPT ![l] = Asleep(IF slot > 0 THEN slot ELSE Short)]
    /\ UNCHANGED <<slot, since, close>>

Wake(l) ==
    /\ lane[l] = Asleep(0)
    /\ lane' = [lane EXCEPT ![l].at = "set"]
    /\ UNCHANGED <<slot, since, close>>

Tick ==
    /\ slot' = IF slot > 0 THEN slot - 1 ELSE 0
    /\ lane' = [l \in Lane |-> IF lane[l].sleep > 0 THEN Asleep(lane[l].sleep - 1) ELSE lane[l]]
    /\ since' = IF since < Interval THEN since + 1 ELSE since
    /\ UNCHANGED close

Next == (\E l \in Lane : Want(l) \/ Take(l) \/ Miss(l) \/ ReadTtl(l) \/ Wake(l)) \/ Tick

Spec == Init /\ [][Next]_vars

-----------------------------------------------------------------------------
(* Properties                                                              *)

\* However many callers and processes, the host sees one call an interval; and nobody
\* sleeps past the slot it waits for, so that a slot with takers is not left unused.
Paced ==
    /\ close = Interval
    /\ \A l \in Lane : lane[l].sleep <= IF slot > Short THEN slot ELSE Short
=============================================================================
