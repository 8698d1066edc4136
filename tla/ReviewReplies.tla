----------------------------- MODULE ReviewReplies -----------------------------
(***************************************************************************)
(* The developer's reply to one review.  A member publishes it to the      *)
(* store and then writes it to the row (src/server/reviews/reply.ts);      *)
(* syncs of the connection fetch the review and write the reply they saw   *)
(* to the same row (src/server/jobs/handlers/connection.ts).               *)
(***************************************************************************)
EXTENDS Integers

CONSTANTS
    Slot,        \* requests that may be served side by side
    Text,        \* replies members write
    Sync,        \* syncs that may run side by side
    None,
    MaxTroubles  \* bound: publications and writes that fail, requests and syncs cut short,
                 \* replies written in the store's own console

VARIABLES
    shop,     \* the reply the store shows
    row,      \* Review.developerReply, Absent before the first sync
    request,  \* request[s]: idle, or the text to publish or write
    sync,     \* sync[x]: idle, or the reply it has fetched
    accepted, \* ghost: what the store has ever accepted
    missed,   \* ghost: what the syncs that run fetched has been replaced since
    repaired, \* ghost: a sync has written what it fetched after the last publication, and
              \* nobody who knew less has written since
    used

vars == <<shop, row, request, sync, accepted, missed, repaired, used>>

Absent == "absent"
Idle == [at |-> "idle", text |-> None]
Spend == used < MaxTroubles /\ used' = used + 1

Init ==
    /\ shop = None /\ row = Absent
    /\ request = [s \in Slot |-> Idle] /\ sync = [x \in Sync |-> Idle]
    /\ accepted = {None} /\ missed = {} /\ repaired = FALSE
    /\ used = 0

-----------------------------------------------------------------------------
(* replyToReview                                                           *)

\* mutant: the row is written first
PublishOrWriteFirst(s, t) ==
    /\ row' = t
    /\ request' = [request EXCEPT ![s] = [at |-> "publish", text |-> t]]

\* The row is there, and a connection to its store is linked.
Begun(s, t) ==
    /\ UNCHANGED row
    /\ request' = [request EXCEPT ![s] = [at |-> "publish", text |-> t]]

Reply(s, t) ==
    /\ request[s] = Idle /\ row # Absent
    /\ Begun(s, t)
    /\ UNCHANGED <<shop, sync, accepted, missed, repaired, used>>

Shown(t) ==
    /\ shop' = t
    /\ accepted' = accepted \union {t}
    /\ missed' = {x \in Sync : sync[x] # Idle}
    /\ repaired' = FALSE

\* The developer may also reply in the store's own console.
AtStore(t) ==
    /\ t # shop /\ Spend
    /\ Shown(t)
    /\ UNCHANGED <<row, request, sync>>

Publish(s) ==
    /\ request[s].at = "publish"
    /\ Shown(request[s].text)
    /\ request' = [request EXCEPT ![s].at = "write"]
    /\ UNCHANGED <<row, sync, used>>

\* The call throws; the store may have taken the reply for all that.
PublishFails(s) ==
    /\ request[s].at = "publish" /\ Spend
    /\ Shown(request[s].text) \/ UNCHANGED <<shop, accepted, missed, repaired>>
    /\ request' = [request EXCEPT ![s] = Idle]
    /\ UNCHANGED <<row, sync>>

Write(s) ==
    /\ request[s].at = "write"
    /\ row' = request[s].text
    /\ repaired' = (repaired /\ row' = shop)
    /\ request' = [request EXCEPT ![s] = Idle]
    /\ UNCHANGED <<shop, sync, accepted, missed, used>>

WriteFails(s) ==
    /\ request[s].at = "write" /\ Spend
    /\ request' = [request EXCEPT ![s] = Idle]
    /\ UNCHANGED <<shop, row, sync, accepted, missed, repaired>>

-----------------------------------------------------------------------------
(* syncConnection                                                          *)

Fetch(x) ==
    /\ sync[x] = Idle
    /\ sync' = [sync EXCEPT ![x] = [at |-> "upsert", text |-> shop]]
    /\ missed' = missed \ {x}
    /\ UNCHANGED <<shop, row, request, accepted, repaired, used>>

\* mutant: a row that is there keeps its reply
CreatedOnly(t) == IF row = Absent THEN t ELSE row

Upserted(t) == t

\* writeReviews
Upsert(x) ==
    /\ sync[x].at = "upsert"
    /\ row' = Upserted(sync[x].text)
    /\ repaired' = (x \notin missed)
    /\ sync' = [sync EXCEPT ![x] = Idle]
    /\ UNCHANGED <<shop, request, accepted, missed, used>>

SyncCut(x) ==
    /\ sync[x].at = "upsert" /\ Spend
    /\ sync' = [sync EXCEPT ![x] = Idle]
    /\ UNCHANGED <<shop, row, request, accepted, missed, repaired>>

Next ==
    \/ \E s \in Slot :
        \/ (\E t \in Text : Reply(s, t)) \/ Publish(s) \/ PublishFails(s)
        \/ Write(s) \/ WriteFails(s)
    \/ \E t \in Text : AtStore(t)
    \/ \E x \in Sync : Fetch(x) \/ Upsert(x) \/ SyncCut(x)

Spec == Init /\ [][Next]_vars

-----------------------------------------------------------------------------
(* Properties                                                              *)

\* The dashboard never claims a reply nobody could ever see: what the row says the store
\* has accepted, whatever failed on the way.  It may be behind the store, or show the
\* older of two replies; the next sync that fetched after the last publication puts
\* that right, until a sync or a request that knows less writes over it.
RepliesTrue ==
    /\ row \in accepted \union {Absent}
    /\ repaired => row = shop
=============================================================================
