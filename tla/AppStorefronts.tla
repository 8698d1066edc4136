--------------------------- MODULE AppStorefronts ---------------------------
(***************************************************************************)
(* One app's storefronts (src/server/api/routers/app.ts) and the listing   *)
(* syncs that read them (syncListing in src/server/jobs/handlers/aso.ts).  *)
(* Members' requests and syncs are served side by side, one per slot; only *)
(* the change of the primary storefront is a transaction.                  *)
(***************************************************************************)
EXTENDS Integers

CONSTANTS
    Front,       \* storefronts: a country and a language
    NoFront,
    Slots,       \* requests and syncs that may be served side by side
    MaxRequests, \* bound: requests and syncs
    MaxChanges,  \* bound: listings changed in a store
    MaxTroubles  \* bound: storefronts that cannot be fetched, requests and syncs cut
                 \* short, app.update calls

VARIABLES
    home,    \* App.country and App.locale
    name,    \* the listing App.name was taken from
    row,     \* the AppLocale rows (nothing ever clears isActive)
    store,   \* store[f]: which version of the listing the store shows in f
    latest,  \* latest[f]: the version in the latest StoreListing row of f, 0 without one
    req,     \* req[s]: the request or sync in slot s
    moved,   \* ghost: the primary has changed since a sync that loaded it renamed the app
    raced,   \* ghost: something was written by who began before another wrote rows
    used

vars == <<home, name, row, store, latest, req, moved, raced, used>>

\* What a storefront shows can be told from what any other one shows.
Listing == [front : Front, version : Nat]
NoListing == [front |-> NoFront, version |-> 0]
Shown(f) == [front |-> f, version |-> store[f]]

Rows == {f \in Front : row[f] # "none"}
Primaries == {f \in Front : row[f] = "primary"}

Idle == [op |-> "none"]
Spend(b) ==
    /\ CASE b = "requests" -> used[b] < MaxRequests
         [] b = "changes" -> used[b] < MaxChanges
         [] OTHER -> used["faults"] + used["cuts"] + used["updates"] < MaxTroubles
    /\ used' = [used EXCEPT ![b] = @ + 1]

\* app.create stores the app and no storefront; its name is that of the storefront given.
Init ==
    /\ home \in Front
    /\ row = [f \in Front |-> "none"]
    /\ store = [f \in Front |-> 1]
    /\ name = [front |-> home, version |-> 1]
    /\ latest = [f \in Front |-> 0]
    /\ req = [s \in Slots |-> Idle]
    /\ moved = FALSE /\ raced = FALSE
    /\ used = [b \in {"requests", "changes", "faults", "cuts", "updates"} |-> 0]

-----------------------------------------------------------------------------
(* Requests                                                                *)

Asking == {"view", "sync"}             \* of the app
Changing == {"primary", "remove"}      \* of a storefront there should be

\* `stale`: another request has written rows since; `gone`: it has deleted the row.
Begin(s, op, f) ==
    /\ req[s] = Idle
    /\ op \in Asking <=> f = NoFront
    /\ Spend("requests")
    /\ req' = [req EXCEPT ![s] =
                 [op |-> op, on |-> f, phase |-> "look", stale |-> FALSE, gone |-> FALSE,
                  main |-> NoFront, todo |-> {}, listing |-> NoListing, title |-> NoListing]]
    /\ UNCHANGED <<home, name, row, store, latest, moved, raced>>

In(s, phase) == req[s] # Idle /\ req[s].phase = phase

Goes(s, phase) == req' = [req EXCEPT ![s].phase = phase]
Ends(s) == req' = [req EXCEPT ![s] = Idle]

\* s writes rows and becomes r: the others have read what is no longer so.
Wrote(s, r) ==
    /\ req' = [t \in Slots |->
                 IF t = s THEN r ELSE IF req[t] = Idle THEN Idle
                 ELSE [req[t] EXCEPT !.stale = TRUE,
                                     !.gone = @ \/ (req[t].op \in Changing
                                                   /\ row'[req[t].on] = "none")]]
    /\ raced' = (raced \/ req[s].stale)

\* appStorefronts returns `fronts`, `main` the primary one among them: a query is
\* answered, addLocale goes on to its storefront, a sync to its fetches.
Listed(r, fronts, main) ==
    CASE r.op = "view" -> Idle
      [] r.op = "add" -> [r EXCEPT !.phase = "add"]
      [] r.op = "sync" -> [r EXCEPT !.phase = "fetch", !.todo = fronts, !.main = main]

\* appStorefronts' first query; with two primaries a sync takes the one fetched last.
Look(s) ==
    /\ In(s, "look") /\ req[s].op \notin Changing
    /\ IF Rows = {} THEN Goes(s, "ensure")
       ELSE \E main \in IF Primaries = {} THEN {NoFront} ELSE Primaries :
              req' = [req EXCEPT ![s] = Listed(@, Rows, main)]
    /\ UNCHANGED <<home, name, row, store, latest, moved, raced, used>>

\* An app without storefronts: its own country and language become the primary one.
ReadHome(s) ==
    /\ In(s, "ensure")
    /\ req' = [req EXCEPT ![s].phase = "upsert", ![s].main = home]
    /\ UNCHANGED <<home, name, row, store, latest, moved, raced, used>>

UpsertPrimary(s) ==
    /\ In(s, "upsert")
    /\ row' = [row EXCEPT ![req[s].main] = "primary"]
    /\ Wrote(s, Listed(req[s], {req[s].main}, req[s].main))
    /\ UNCHANGED <<home, name, store, latest, moved, used>>

AddLocale(s) ==
    /\ In(s, "add")
    /\ row' = [row EXCEPT ![req[s].on] = IF @ = "none" THEN "secondary" ELSE @]
    /\ Wrote(s, Idle)
    /\ UNCHANGED <<home, name, store, latest, moved, used>>

\* setPrimaryLocale and removeLocale look the storefront up first.
LookTarget(s) ==
    /\ In(s, "look") /\ req[s].op \in Changing
    /\ IF row[req[s].on] \in (IF req[s].op = "primary" THEN {"primary", "secondary"} ELSE {"secondary"})
       THEN Goes(s, "write") ELSE Ends(s)
    /\ UNCHANGED <<home, name, row, store, latest, moved, raced, used>>

\* mutant: the others keep their flag
PromotedOnly(f) == [row EXCEPT ![f] = "primary"]

Promoted(f) == [g \in Front |-> IF row[g] = "none" THEN "none"
                                ELSE IF g = f THEN "primary" ELSE "secondary"]

\* mutant: the app's own country is left alone
HomeKept(f) == home

HomeOf(f) == f

\* The transaction fails as a whole if the row has been deleted.
SetPrimary(s) ==
    /\ In(s, "write") /\ req[s].op = "primary"
    /\ IF req[s].gone THEN Ends(s) /\ UNCHANGED <<home, row, moved, raced>>
       ELSE /\ row' = Promoted(req[s].on) /\ home' = HomeOf(req[s].on)
            /\ moved' = (moved \/ row[req[s].on] # "primary")
            /\ Wrote(s, Idle)
    /\ UNCHANGED <<name, store, latest, used>>

RemoveLocale(s) ==
    /\ In(s, "write") /\ req[s].op = "remove"
    /\ IF req[s].gone THEN Ends(s) /\ UNCHANGED <<row, raced>>
       ELSE /\ row' = [row EXCEPT ![req[s].on] = "none"]
            /\ Wrote(s, Idle)
    /\ UNCHANGED <<home, name, store, latest, moved, used>>

\* app.update writes country and language in one statement.
Update(f) ==
    /\ Spend("updates")
    /\ home' = f
    /\ UNCHANGED <<name, row, store, latest, req, moved, raced>>

-----------------------------------------------------------------------------
(* syncListing                                                             *)

Change(f) ==
    /\ Spend("changes")
    /\ store' = [store EXCEPT ![f] = @ + 1]
    /\ UNCHANGED <<home, name, row, latest, req, moved, raced>>

\* mutant: identity follows whatever was fetched last
TitleOfAny(r, listing) == listing

TitleOf(r, listing) == IF listing.front = r.main THEN listing ELSE r.title

Fetch(s, f) ==
    /\ In(s, "fetch") /\ f \in req[s].todo
    /\ req' = [req EXCEPT ![s].phase = "compare", ![s].listing = Shown(f),
                          ![s].title = TitleOf(req[s], Shown(f))]
    /\ UNCHANGED <<home, name, row, store, latest, moved, raced, used>>

\* One unavailable storefront does not stop the others.
FetchFails(s, f) ==
    /\ In(s, "fetch") /\ f \in req[s].todo
    /\ Spend("faults")
    /\ req' = [req EXCEPT ![s].todo = @ \ {f}]
    /\ UNCHANGED <<home, name, row, store, latest, moved, raced>>

Same(f, version) == latest[f] = version

\* The latest snapshot of the storefront, and whether its text is the one fetched.
Compare(s) ==
    /\ In(s, "compare")
    /\ LET f == req[s].listing.front
       IN  IF Same(f, req[s].listing.version)
           THEN req' = [req EXCEPT ![s].phase = "fetch", ![s].todo = @ \ {f}]
           ELSE Goes(s, "create")
    /\ UNCHANGED <<home, name, row, store, latest, moved, raced, used>>

Create(s) ==
    /\ In(s, "create")
    /\ LET f == req[s].listing.front
       IN  /\ latest' = [latest EXCEPT ![f] = req[s].listing.version]
           /\ req' = [req EXCEPT ![s].phase = "fetch", ![s].todo = @ \ {f}]
    /\ UNCHANGED <<home, name, row, store, moved, raced, used>>

\* The app's identity follows the primary storefront, if that could be fetched.
Rename(s) ==
    /\ In(s, "fetch") /\ req[s].todo = {} /\ req[s].title # NoListing
    /\ name' = req[s].title
    /\ Ends(s)
    /\ moved' = (moved /\ req[s].stale)
    /\ raced' = (raced \/ req[s].stale)
    /\ UNCHANGED <<home, row, store, latest, used>>

\* Without it nothing is renamed; if none could be fetched the job is tried again, which
\* is one more sync.
Nameless(s) ==
    /\ In(s, "fetch") /\ req[s].todo = {} /\ req[s].title = NoListing
    /\ Ends(s)
    /\ UNCHANGED <<home, name, row, store, latest, moved, raced, used>>

\* The process dies, or a statement fails.
Cut(s) ==
    /\ req[s] # Idle
    /\ Spend("cuts")
    /\ Ends(s)
    /\ UNCHANGED <<home, name, row, store, latest, moved, raced>>

Next ==
    \/ \E s \in Slots :
        \/ \E op \in Asking \union {"add"} \union Changing, f \in Front \union {NoFront} : Begin(s, op, f)
        \/ \E f \in Front : Fetch(s, f) \/ FetchFails(s, f)
        \/ Look(s) \/ ReadHome(s) \/ UpsertPrimary(s) \/ AddLocale(s)
        \/ LookTarget(s) \/ SetPrimary(s) \/ RemoveLocale(s)
        \/ Compare(s) \/ Create(s) \/ Rename(s) \/ Nameless(s) \/ Cut(s)
    \/ \E f \in Front : Update(f) \/ Change(f)

Spec == Init /\ [][Next]_vars

-----------------------------------------------------------------------------
(* Properties                                                              *)

\* Exactly one storefront of an app that has any is the primary one, and the app's own
\* country and language mirror it - unless one request wrote after another had written what
\* it relied on; app.update changes the mirror alone.
OnePrimary ==
    Rows # {} /\ ~raced =>
        \E f \in Front : Primaries = {f} /\ (used["updates"] = 0 => home = f)

\* The app's name does not flip to whatever country was synced last: it is the primary
\* storefront's, until another one is made primary and a sync has seen that.
NameFollowsPrimary ==
    Rows # {} /\ ~raced /\ ~moved /\ used["updates"] = 0 => name.front \in Primaries

\* One storefront of an app speaks for it.
StorefrontsAgree == OnePrimary /\ NameFollowsPrimary
=============================================================================
