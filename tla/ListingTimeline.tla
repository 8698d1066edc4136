--------------------------- MODULE ListingTimeline ---------------------------
(***************************************************************************)
(* One app's change timeline.  Listing syncs add a StoreListing row where  *)
(* the text in a storefront is not that of its latest row (syncListing in  *)
(* src/server/jobs/handlers/aso.ts); the timeline is the differences       *)
(* between consecutive rows (src/server/aso/impact.ts).                    *)
(***************************************************************************)
EXTENDS FiniteSets, Sequences, Integers

CONSTANTS
    Front,       \* the app's storefronts, all of one catalogue
    Sync,        \* syncs that may run side by side
    MaxEdits,    \* bound: versions the developer puts in a store, of the text or the icon
    MaxSyncs,    \* bound: syncs
    MaxTroubles  \* bound: storefronts that cannot be fetched, writes that fail

VARIABLES
    shown,   \* shown[f]: the versions of text and icon the store shows in f
    rows,    \* the StoreListing rows, by capturedAt
    sync,    \* the storefronts still to be fetched, the one in hand and what was fetched
    crossed, \* ghost: a sync wrote a row of a storefront after another one had, since it began
    used

vars == <<shown, rows, sync, crossed, used>>

Nothing == [text |-> 0, icon |-> 0]
Idle == [at |-> "idle", left |-> {}, front |-> "none", detail |-> Nothing, since |-> 0]
Spend(b, most) == used[b] < most /\ used' = [used EXCEPT ![b] = @ + 1]

Init ==
    /\ \E text \in [Front -> {1, 2}] : shown = [f \in Front |-> [text |-> text[f], icon |-> 1]]
    /\ rows = <<>>
    /\ sync = [s \in Sync |-> Idle]
    /\ crossed = FALSE
    /\ used = [edits |-> 0, syncs |-> 0, troubles |-> 0]

\* A new text, screenshots included, or a new icon or video, which the hash leaves out.
Edit ==
    /\ Spend("edits", MaxEdits)
    /\ \E f \in Front :
        \/ shown' = [shown EXCEPT ![f].text = @ + 1]
        \/ shown' = [shown EXCEPT ![f].icon = @ + 1]
    /\ UNCHANGED <<rows, sync, crossed>>

-----------------------------------------------------------------------------
(* syncListing                                                             *)

Begin(s) ==
    /\ sync[s].at = "idle"
    /\ Spend("syncs", MaxSyncs)
    /\ sync' = [sync EXCEPT ![s] = [Idle EXCEPT !.at = "next", !.left = Front,
                                                !.since = Len(rows)]]
    /\ UNCHANGED <<shown, rows, crossed>>

\* A storefront that cannot be had is passed over.
Fetch(s) ==
    /\ sync[s].at = "next"
    /\ \E f \in sync[s].left :
        \/ /\ sync' = [sync EXCEPT ![s] = [sync[s] EXCEPT !.at = "compare", !.left = @ \ {f},
                                                          !.front = f, !.detail = shown[f]]]
           /\ UNCHANGED used
        \/ /\ Spend("troubles", MaxTroubles)
           /\ sync' = [sync EXCEPT ![s].left = @ \ {f}]
    /\ UNCHANGED <<shown, rows, crossed>>

OfFront(f) == {i \in DOMAIN rows : rows[i].front = f}
Newest(set) == CHOOSE i \in set : \A k \in set : k <= i

\* mutant: the latest row of any storefront
ComparedAll(f) == DOMAIN rows

\* The rows the latest is taken from.
Compared(f) == OfFront(f)

\* latest?.contentHash !== hash
Compare(s) ==
    /\ sync[s].at = "compare"
    /\ LET before == Compared(sync[s].front)
           same == before # {} /\ rows[Newest(before)].text = sync[s].detail.text IN
       sync' = [sync EXCEPT ![s].at = IF same THEN "next" ELSE "create"]
    /\ UNCHANGED <<shown, rows, crossed, used>>

\* Another sync has written a row of the storefront since this one began.
Overtaken(s) ==
    \E i \in OfFront(sync[s].front) : i > sync[s].since

Create(s) ==
    /\ sync[s].at = "create"
    /\ rows' = Append(rows, [front |-> sync[s].front, text |-> sync[s].detail.text,
                             icon |-> sync[s].detail.icon])
    /\ crossed' = (crossed \/ Overtaken(s))
    /\ sync' = [sync EXCEPT ![s].at = "next"]
    /\ UNCHANGED <<shown, used>>

\* The sync is its job's, which starts it anew or gives it up.
CreateFails(s) ==
    /\ sync[s].at = "create"
    /\ Spend("troubles", MaxTroubles)
    /\ sync' = [sync EXCEPT ![s] = Idle]
    /\ UNCHANGED <<shown, rows, crossed>>

End(s) ==
    /\ sync[s].at = "next" /\ sync[s].left = {}
    /\ sync' = [sync EXCEPT ![s] = Idle]
    /\ UNCHANGED <<shown, rows, crossed, used>>

Next ==
    \/ Edit
    \/ \E s \in Sync : Begin(s) \/ Fetch(s) \/ Compare(s) \/ Create(s) \/ CreateFails(s) \/ End(s)

Spec == Init /\ [][Next]_vars

-----------------------------------------------------------------------------
(* listingChanges                                                          *)

\* diffListings: the fields that are not the same, of two rows.
Diffs(before, after) ==
    {field \in {"text", "icon"} : rows[before][field] # rows[after][field]}

\* Each row but the first is compared with the row before, whichever storefront's.
Changes == {i \in 2 .. Len(rows) : Diffs(i - 1, i) # {}}

-----------------------------------------------------------------------------
(* Properties                                                              *)

\* Of one storefront the rows are what the timeline takes them for: each is of a later text
\* than the one before and of no text the store never showed, unless two syncs read it at
\* once and the slower puts back a text that was replaced.  So the timeline of an app that
\* has rows of one storefront has no more entries than there were edits; where rows of two
\* follow each other it may.
TimelineTrue ==
    /\ \A f \in Front : \A i \in OfFront(f) : rows[i].text <= shown[f].text
    /\ \/ crossed
       \/ /\ \A f \in Front : \A i, k \in OfFront(f) :
                i < k => rows[i].text < rows[k].text
          /\ (\E f \in Front : OfFront(f) = DOMAIN rows) => Cardinality(Changes) <= used.edits
=============================================================================
