---------------------------- MODULE CompetitorWatch ----------------------------
(***************************************************************************)
(* The competitors of one app: syncCompetitors                             *)
(* (src/server/jobs/handlers/aso.ts) adds the apps that outrank it on      *)
(* several keywords, asks for their ranks, and takes a snapshot of each    *)
(* tracked one whose listing has changed; members add, untrack and remove  *)
(* them meanwhile (src/server/api/routers/competitor.ts).                  *)
(***************************************************************************)
EXTENDS Integers, Sequences, FiniteSets

CONSTANTS
    Rival,
    Slot,       \* executions of the app's one job: a second one when the first has lost its lock
    MaxSyncs,   \* bound: syncs begun
    MaxReleases, \* bound: changed listings
    MaxChanges, \* bound: what members do
    MaxTroubles \* bound: pages that cannot be read, calls that throw, jobs that die

VARIABLES
    page,     \* page[r]: the version of its store listing
    row,      \* row[r]: its row: its identity (0 without one) and whether it is tracked
    rows,     \* how many rows there have been
    snap,     \* snap[r]: the contents of its two latest snapshots, the latest first
    sync,     \* sync[x]: an execution of syncCompetitors
    unranked, \* ghost: competitors discovered that no rank job has been asked for since
    word,     \* ghost: the members' last word on r
    lost,     \* ghost: competitors removed after discovery had seen them, and added by it all the same
    mixed,    \* ghost: two syncs have overlapped
    used

vars == <<page, row, rows, snap, sync, unranked, word, lost, mixed, used>>

NoRow == [id |-> 0, tracked |-> FALSE]
\* The ghosts of a sync: what each page was when it began, and what it has refreshed.
Idle == [at |-> "idle", found |-> {}, new |-> FALSE, todo |-> {}, id |-> 0, detail |-> 0,
         rival |-> {}, began |-> <<>>, done |-> {}]
Spend(b, limit) == used[b] < limit /\ used' = [used EXCEPT ![b] = @ + 1]

Init ==
    /\ page = [r \in Rival |-> 1]
    /\ row = [r \in Rival |-> NoRow] /\ rows = 0
    /\ snap = [r \in Rival |-> <<>>]
    /\ sync = [x \in Slot |-> Idle]
    /\ unranked = {} /\ word = [r \in Rival |-> "none"] /\ lost = {} /\ mixed = FALSE
    /\ used = [b \in {"syncs", "changes", "releases", "troubles"} |-> 0]

Release(r) ==
    /\ Spend("releases", MaxReleases)
    /\ page' = [page EXCEPT ![r] = @ + 1]
    /\ UNCHANGED <<row, rows, snap, sync, unranked, word, lost, mixed>>

-----------------------------------------------------------------------------
(* Discovery                                                               *)

\* The searches: any apps may be in the top ten for three keywords.
Begin(x) ==
    /\ sync[x] = Idle /\ Spend("syncs", MaxSyncs)
    /\ \E found \in SUBSET Rival :
         sync' = [sync EXCEPT ![x] = [Idle EXCEPT !.at = "count", !.found = found, !.began = page]]
    /\ mixed' = (mixed \/ \E y \in Slot \ {x} : sync[y] # Idle)
    /\ UNCHANGED <<page, row, rows, snap, unranked, word, lost>>

Count(x, r) ==
    /\ sync[x].at = "count" /\ r \in sync[x].found
    /\ sync' = [sync EXCEPT ![x].at = "upsert", ![x].rival = {r}, ![x].new = @ \/ row[r].id = 0]
    /\ UNCHANGED <<page, row, rows, snap, unranked, word, lost, mixed, used>>

Listed(r) == [id |-> rows + 1, tracked |-> TRUE]

\* mutant: the upsert tracks it again
AsFoundTracked(r) == [row[r] EXCEPT !.tracked = TRUE]

\* `update: {}`
AsFound(r) == row[r]

UpsertFound(x, r) ==
    /\ sync[x].at = "upsert" /\ r \in sync[x].rival
    /\ sync' = [sync EXCEPT ![x].at = "count", ![x].found = @ \ {r}, ![x].rival = {}]
    /\ IF row[r].id = 0
       THEN /\ row' = [row EXCEPT ![r] = Listed(r)] /\ rows' = rows + 1
            /\ unranked' = unranked \union {r}
            /\ lost' = IF sync[x].new THEN lost ELSE lost \union {r}
       ELSE /\ row' = [row EXCEPT ![r] = AsFound(r)] /\ UNCHANGED <<rows, unranked, lost>>
    /\ UNCHANGED <<page, snap, word, mixed, used>>

Tracked == {r \in Rival : row[r].tracked}

\* A rank job of its own, if anything was new; then the tracked ones are loaded.
AskRanks(x) ==
    /\ sync[x].at = "count" /\ sync[x].found = {}
    /\ unranked' = IF sync[x].new THEN {} ELSE unranked
    /\ sync' = [sync EXCEPT ![x].at = "load"]
    /\ UNCHANGED <<page, row, rows, snap, word, lost, mixed, used>>

Load(x) ==
    /\ sync[x].at = "load"
    /\ sync' = [sync EXCEPT ![x].at = "page", ![x].todo = {<<r, row[r].id>> : r \in Tracked}]
    /\ UNCHANGED <<page, row, rows, snap, unranked, word, lost, mixed, used>>

-----------------------------------------------------------------------------
(* Snapshots                                                               *)

GetApp(x, r) ==
    /\ sync[x].at = "page"
    /\ \E k \in sync[x].todo :
         /\ k[1] = r
         /\ sync' = [sync EXCEPT ![x].at = "compare", ![x].todo = @ \ {k}, ![x].rival = {r},
                                 ![x].id = k[2], ![x].detail = page[r]]
    /\ UNCHANGED <<page, row, rows, snap, unranked, word, lost, mixed, used>>

\* One that cannot be read is left for the next time.
NoDetail(x, r) ==
    /\ sync[x].at = "page" /\ Spend("troubles", MaxTroubles)
    /\ \E k \in sync[x].todo : k[1] = r /\ sync' = [sync EXCEPT ![x].todo = @ \ {k}]
    /\ UNCHANGED <<page, row, rows, snap, unranked, word, lost, mixed>>

There(x, r) == row[r].id = sync[x].id
Latest(r) == IF snap[r] = <<>> THEN 0 ELSE snap[r][1]

\* mutant: every sync takes a snapshot
ChangedAlways(x, r) == TRUE

Changed(x, r) == Latest(r) # sync[x].detail

Compare(x, r) ==
    /\ sync[x].at = "compare" /\ r \in sync[x].rival
    /\ sync' = [sync EXCEPT ![x].at = IF ~There(x, r) \/ Changed(x, r) THEN "create" ELSE "update"]
    /\ UNCHANGED <<page, row, rows, snap, unranked, word, lost, mixed, used>>

Create(x, r) ==
    /\ sync[x].at = "create" /\ r \in sync[x].rival /\ There(x, r)
    /\ snap' = [snap EXCEPT ![r] = <<sync[x].detail>> \o SubSeq(@, 1, IF @ = <<>> THEN 0 ELSE 1)]
    /\ sync' = [sync EXCEPT ![x].at = "update"]
    /\ UNCHANGED <<page, row, rows, unranked, word, lost, mixed, used>>

\* Its name and icon.
Update(x, r) ==
    /\ sync[x].at = "update" /\ r \in sync[x].rival /\ There(x, r)
    /\ sync' = [sync EXCEPT ![x].at = "page", ![x].rival = {},
                            ![x].done = @ \union {<<r, sync[x].id>>}]
    /\ UNCHANGED <<page, row, rows, snap, unranked, word, lost, mixed, used>>

\* What was removed meanwhile can be neither written nor updated: the sync fails there.
Removed(x, r) ==
    /\ sync[x].at \in {"create", "update"} /\ r \in sync[x].rival /\ ~There(x, r)
    /\ sync' = [sync EXCEPT ![x] = Idle]
    /\ UNCHANGED <<page, row, rows, snap, unranked, word, lost, mixed, used>>

Finish(x) ==
    /\ sync[x].at = "page" /\ sync[x].todo = {}
    /\ sync' = [sync EXCEPT ![x] = Idle]
    /\ UNCHANGED <<page, row, rows, snap, unranked, word, lost, mixed, used>>

\* A search, the enqueue or a query throws, or the process dies.
Fail(x) ==
    /\ sync[x] # Idle /\ Spend("troubles", MaxTroubles)
    /\ sync' = [sync EXCEPT ![x] = Idle]
    /\ UNCHANGED <<page, row, rows, snap, unranked, word, lost, mixed>>

-----------------------------------------------------------------------------
(* Members                                                                 *)

Says(r, what) == word' = [word EXCEPT ![r] = what]

Add(r) ==
    /\ Spend("changes", MaxChanges) /\ Says(r, "tracked")
    /\ IF row[r].id = 0 THEN row' = [row EXCEPT ![r] = Listed(r)] /\ rows' = rows + 1
                        ELSE row' = [row EXCEPT ![r].tracked = TRUE] /\ UNCHANGED rows
    /\ UNCHANGED <<page, snap, sync, unranked, lost, mixed>>

SetTracked(r, isTracked) ==
    /\ row[r].id # 0 /\ Spend("changes", MaxChanges)
    /\ Says(r, IF isTracked THEN "tracked" ELSE "untracked")
    /\ row' = [row EXCEPT ![r].tracked = isTracked]
    /\ UNCHANGED <<page, rows, snap, sync, unranked, lost, mixed>>

\* Its snapshots and ranks go with it.
Remove(r) ==
    /\ row[r].id # 0 /\ Spend("changes", MaxChanges) /\ Says(r, "removed")
    /\ row' = [row EXCEPT ![r] = NoRow]
    /\ snap' = [snap EXCEPT ![r] = <<>>]
    /\ unranked' = unranked \ {r}
    /\ UNCHANGED <<page, rows, sync, lost, mixed>>

Next ==
    \/ \E r \in Rival :
        \/ Release(r) \/ Add(r) \/ (\E t \in BOOLEAN : SetTracked(r, t)) \/ Remove(r)
    \/ \E x \in Slot :
        \/ Begin(x) \/ AskRanks(x) \/ Load(x) \/ Finish(x) \/ Fail(x)
        \/ \E r \in Rival :
            \/ Count(x, r) \/ UpsertFound(x, r) \/ GetApp(x, r) \/ NoDetail(x, r)
            \/ Compare(x, r) \/ Create(x, r) \/ Update(x, r) \/ Removed(x, r)

Spec == Init /\ [][Next]_vars

-----------------------------------------------------------------------------
(* Properties                                                              *)

\* competitor.list, changedSinceLast: two snapshots are a change.  They are: the two latest
\* differ, unless two syncs have overlapped.
ChangesReal == \A r \in Rival : Len(snap[r]) = 2 /\ ~mixed => snap[r][1] # snap[r][2]

\* What a sync has refreshed is no older than the sync, unless two have overlapped.
Refreshed ==
    \A x \in Slot, r \in Rival :
        <<r, row[r].id>> \in sync[x].done /\ ~mixed => Latest(r) >= sync[x].began[r]

\* Discovery does not overrule a member who untracked a competitor (one who removed it, it
\* does: it is found again and added anew).
MembersDecide == \A r \in Rival : word[r] = "untracked" => ~row[r].tracked

\* Ranks are asked for after a competitor was discovered, by the sync that found it missing,
\* unless a call throws or a process dies, or a member removed it between that look and the
\* write.
RanksAsked ==
    \A r \in unranked :
        \/ \E x \in Slot : sync[x].new /\ sync[x].at \in {"count", "upsert"}
        \/ used["troubles"] > 0 \/ r \in lost

\* The competitors a workspace watches are those its members left tracked, and their
\* snapshots tell what changed in the store.
WatchKept == ChangesReal /\ Refreshed /\ MembersDecide /\ RanksAsked
================================================================================
