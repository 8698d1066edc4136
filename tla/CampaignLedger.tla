---------------------------- MODULE CampaignLedger ----------------------------
(***************************************************************************)
(* What a push campaign promises its composer, without queue, worker or    *)
(* Firebase: every app's delivery is decided once and for good, and the    *)
(* campaign is settled once, after the last of them, with the verdict      *)
(* they add up to.  Once two executions of the send job may be at work at  *)
(* the same time (the first outlived its lock), what was decided can be    *)
(* decided again.  PushCampaign is shown to implement this.                *)
(***************************************************************************)
CONSTANT App
VARIABLES
    campaign, delivery,
    disputed     \* two executions may be at work
vars == <<campaign, delivery, disputed>>

Init ==
    /\ campaign = "NONE"
    /\ delivery = [a \in App |-> "PENDING"]
    /\ disputed = FALSE

\* The campaign is created; some apps, not all, have no working key.
Compose ==
    /\ campaign = "NONE"
    /\ campaign' = "QUEUED"
    /\ \E unready \in SUBSET App :
         /\ unready # App
         /\ delivery' = [a \in App |-> IF a \in unready THEN "SKIPPED" ELSE "PENDING"]
    /\ UNCHANGED disputed

Begin ==
    /\ campaign = "QUEUED"
    /\ campaign' = "SENDING"
    /\ UNCHANGED <<delivery, disputed>>

Decide(a) ==
    /\ campaign = "SENDING"
    /\ delivery[a] = "PENDING"
    /\ \E s \in {"SENT", "FAILED", "SKIPPED"} : delivery' = [delivery EXCEPT ![a] = s]
    /\ UNCHANGED <<campaign, disputed>>

Sum(d) ==
    CASE \A a \in App : d[a] = "SENT" -> "SENT"
      [] \A a \in App : d[a] # "SENT" -> "FAILED"
      [] OTHER -> "PARTIAL"

Close ==
    /\ campaign = "SENDING"
    /\ \A a \in App : delivery[a] # "PENDING"
    /\ campaign' = Sum(delivery)
    /\ UNCHANGED <<delivery, disputed>>

Dispute ==
    /\ disputed' = TRUE
    /\ UNCHANGED <<campaign, delivery>>

\* A second execution starts over, decides an app again or settles again.
Redo ==
    /\ disputed
    /\ campaign # "NONE"
    /\ \/ /\ campaign' \in {"SENDING", "SENT", "PARTIAL", "FAILED"}
          /\ UNCHANGED delivery
       \/ /\ \E a \in App, s \in {"PENDING", "SENT", "FAILED", "SKIPPED"} :
               delivery' = [delivery EXCEPT ![a] = s]
          /\ UNCHANGED campaign
    /\ UNCHANGED disputed

Next == Compose \/ Begin \/ Close \/ Dispute \/ Redo \/ \E a \in App : Decide(a)

Spec == Init /\ [][Next]_vars
=============================================================================
