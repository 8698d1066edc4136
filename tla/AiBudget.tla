------------------------------- MODULE AiBudget -------------------------------
(***************************************************************************)
(* What one workspace spends on the model, generateStructured of           *)
(* src/server/ai/client.ts: sum this month's usage rows, call the model,   *)
(* write a usage row once its answer has been read.  Requests and jobs     *)
(* call it side by side and nothing is reserved.                           *)
(***************************************************************************)
EXTENDS Integers, FiniteSets

CONSTANTS
    Slot,        \* calls that may run side by side
    Budget,      \* AI_MONTHLY_TOKEN_BUDGET; 0 is no budget
    Most,        \* the most output tokens an answer may have
    Retries,     \* MAX_RETRIES, 3
    MaxCalls,    \* bound: calls begun
    MaxMonths,   \* bound: months looked at
    MaxTroubles  \* bound: attempts that fail, answers that are of no use, rows not written

ASSUME BudgetAssumption ==
    /\ IsFiniteSet(Slot)
    /\ {Budget, Most, Retries} \subseteq Nat /\ MaxMonths \in Nat \ {0}

VARIABLES
    month,
    recorded, \* recorded[m]: the sum of the usage rows created in m
    call,     \* call[s]: idle, calling (and the attempts made) or answered (and its tokens)
    peak,     \* ghost: the most calls at once
    used

vars == <<month, recorded, call, peak, used>>

Idle == [at |-> "idle", n |-> 0]
Busy == {s \in Slot : call[s] # Idle}
Spend == used.troubles < MaxTroubles /\ used' = [used EXCEPT !.troubles = @ + 1]

Init ==
    /\ month = 1
    /\ recorded = [m \in 1 .. MaxMonths |-> 0]
    /\ call = [s \in Slot |-> Idle]
    /\ peak = 0
    /\ used = [calls |-> 0, troubles |-> 0]

\* mutant: only more than the budget is too much
WithinBudget == recorded[month] <= Budget

\* assertBudget
BudgetLeft == Budget = 0 \/ recorded[month] < Budget

\* A call that is refused throws and changes nothing.
Begin(s) ==
    /\ call[s] = Idle
    /\ used.calls < MaxCalls /\ used' = [used EXCEPT !.calls = @ + 1]
    /\ BudgetLeft
    /\ call' = [call EXCEPT ![s] = [at |-> "calling", n |-> 0]]
    /\ peak' = LET now == Cardinality(Busy) + 1 IN IF now > peak THEN now ELSE peak
    /\ UNCHANGED <<month, recorded>>

Answer(s, n) ==
    /\ call[s].at = "calling"
    /\ call' = [call EXCEPT ![s] = [at |-> "answered", n |-> n]]
    /\ UNCHANGED <<month, recorded, peak, used>>

\* An overloaded model is asked again while attempts are left.  The last attempt ends the
\* call, and so does any other error: a lost connection, perhaps after the model answered.
Fail(s) ==
    /\ call[s].at = "calling" /\ Spend
    /\ \/ call[s].n < Retries /\ call' = [call EXCEPT ![s].n = @ + 1]
       \/ call' = [call EXCEPT ![s] = Idle]
    /\ UNCHANGED <<month, recorded, peak>>

Record(s) ==
    /\ call[s].at = "answered"
    /\ recorded' = [recorded EXCEPT ![month] = @ + call[s].n]
    /\ call' = [call EXCEPT ![s] = Idle]
    /\ UNCHANGED <<month, peak, used>>

\* Empty, cut short, refused, no valid JSON, or not what the schema asks for: it was paid
\* for and leaves no row.  Nor does an answer whose row cannot be written.
Useless(s) ==
    /\ call[s].at = "answered" /\ Spend
    /\ call' = [call EXCEPT ![s] = Idle]
    /\ UNCHANGED <<month, recorded, peak>>

NextMonth ==
    /\ month < MaxMonths
    /\ month' = month + 1
    /\ UNCHANGED <<recorded, call, peak, used>>

Next ==
    \/ \E s \in Slot :
        \/ Begin(s) \/ (\E n \in 0 .. Most : Answer(s, n)) \/ Fail(s) \/ Record(s) \/ Useless(s)
    \/ NextMonth

Spec == Init /\ [][Next]_vars

-----------------------------------------------------------------------------
(* Properties                                                              *)

\* The budget is no cap: it is checked before anything is reserved.  What a month's rows
\* say is over it by less than what the calls at one time may cost; what a failed or
\* useless answer cost comes on top and is in no row.
OverspendBounded ==
    Budget > 0 => \A m \in DOMAIN recorded : recorded[m] < Budget + peak * Most
=============================================================================
