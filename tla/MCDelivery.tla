------------------------------ MODULE MCDelivery ------------------------------
(***************************************************************************)
(* The two components that hand messages to others by way of a BullMQ job: *)
(* a behaviour is one of a push campaign or one of an alert rule, and      *)
(* leaves the other as it begins.  They share no state.                    *)
(***************************************************************************)
EXTENDS PushCampaign

CONSTANTS
    AlertWorker, Evaluator, Channel, Api, AlertAttempts, MaxEvents, MaxChanges, MaxAlertTroubles

VARIABLES
    component, \* the one that takes the steps
    event, eval, delivering, handler, sent, spent

alertVars == <<event, eval, delivering, handler, sent, spent>>

A == INSTANCE AlertEvents
        WITH Worker <- AlertWorker, Attempts <- AlertAttempts,
             MaxTroubles <- MaxAlertTroubles,
             job <- delivering, exec <- handler, used <- spent

\* At rest the campaign begins in one way.
DeliveryInit ==
    /\ component \in {"push", "alert"}
    /\ Init /\ A!Init
    /\ component = "push" \/ credential = [a \in App |-> "ACTIVE"]

DeliveryNext ==
    /\ UNCHANGED component
    /\ \/ component = "push" /\ Next /\ UNCHANGED alertVars
       \/ component = "alert" /\ A!Next /\ UNCHANGED vars

\* At rest no action of a component is enabled that must be taken.
DeliverySpec ==
    /\ DeliveryInit /\ [][DeliveryNext]_<<component, vars, alertVars>>
    /\ Fairness /\ A!Fairness

\* An event is open only once; channels hear of it once, and its row says so.
AlertsTruthful == A!AlertsTruthful

\* Every alert is tried.
EveryAlertTried == A!EveryAlertTried
===============================================================================
