------------------------------ MODULE MarketScan ------------------------------
(***************************************************************************)
(* The readings Trends lives on.  A sweep takes the charts of all          *)
(* categories in turn and records each app of them with its rank           *)
(* (scanAllCategories, src/server/market/scan.ts); the build of a niche    *)
(* takes one category and records its apps without a rank                  *)
(* (collectNicheApps, src/server/market/ingest.ts).  Both run as jobs or,  *)
(* with Redis down, within the request.  The page shows an app's latest    *)
(* rank, its category and its climb since the reading before               *)
(* (src/server/api/routers/trends.ts, src/server/market/velocity.ts).      *)
(***************************************************************************)
EXTENDS Integers, Sequences, FiniteSets

CONSTANTS
    App,
    Category,       \* MINE_CATEGORIES, in their order
    Depth,          \* apps taken of a chart
    Collector,      \* sweeps and builds that may run side by side
    NoCategory,
    MaxCollections, \* bound: sweeps and builds begun
    MaxMoves,       \* bound: changes of the charts
    MaxTroubles     \* bound: pages that cannot be read, errors, jobs that die

VARIABLES
    chart,   \* chart[c]: the store's chart, best first
    moves,   \* ghost: how often the charts have changed
    row,     \* row[a]: MarketApp.category, NoCategory without a row
    reading, \* reading[a]: its two latest snapshots, the latest first
    work,    \* work[x]: what the collector x is at
    moved,   \* ghost: apps the store has moved to another category
    crossed, \* ghost: apps two collectors had before them at once
    half,    \* ghost: apps whose row was written and whose snapshot was not
    broken,  \* ghost: apps whose row could not be created: the category was abandoned
    used

vars == <<chart, moves, row, reading, work, moved, crossed, half, broken, used>>

Categories == {Category[i] : i \in DOMAIN Category}
Unranked == 0
Idle == [at |-> "idle", sweep |-> FALSE, todo |-> <<>>, apps |-> <<>>, i |-> 1, read |-> 0,
         existing |-> FALSE, wrote |-> 0]

\* The store lists an app in one category.
On(ch, a) == {c \in Categories : \E i \in DOMAIN ch[c] : ch[c][i] = a}
Rankings == UNION {{s \in [1 .. n -> App] : \A i, k \in 1 .. n : s[i] = s[k] => i = k} :
                   n \in 0 .. Cardinality(App)}
Charts == {ch \in [Categories -> Rankings] : \A a \in App : Cardinality(On(ch, a)) <= 1}
Spend(b, limit) == used[b] < limit /\ used' = [used EXCEPT ![b] = @ + 1]

Init ==
    /\ chart \in Charts /\ moves = 0
    /\ row = [a \in App |-> NoCategory]
    /\ reading = [a \in App |-> <<>>]
    /\ work = [x \in Collector |-> Idle]
    /\ moved = {} /\ crossed = {} /\ half = {} /\ broken = {}
    /\ used = [b \in {"collections", "troubles"} |-> 0]

\* The store's charts change.
Move ==
    /\ moves < MaxMoves /\ moves' = moves + 1
    /\ chart' \in Charts \ {chart}
    /\ moved' = moved \union {a \in App : On(chart', a) # On(chart, a)}
    /\ UNCHANGED <<row, reading, work, crossed, half, broken, used>>

-----------------------------------------------------------------------------
(* A sweep, and the build of a niche                                       *)

Begin(x) ==
    /\ work[x] = Idle /\ Spend("collections", MaxCollections)
    /\ \/ work' = [work EXCEPT ![x] = [Idle EXCEPT !.at = "chart", !.sweep = TRUE, !.todo = Category]]
       \/ \E c \in Categories :
            work' = [work EXCEPT ![x] = [Idle EXCEPT !.at = "chart", !.todo = <<c>>]]
    /\ UNCHANGED <<chart, moves, row, reading, moved, crossed, half, broken>>

Remaining(w) == {w.apps[i] : i \in w.i .. Len(w.apps)}

\* The category is done or given up; the sweep goes on with the next one.
NextCategory(x) ==
    work' = [work EXCEPT ![x] =
               IF Len(work[x].todo) = 1 THEN Idle
               ELSE [Idle EXCEPT !.at = "chart", !.sweep = TRUE, !.todo = Tail(work[x].todo)]]

NextApp(w) == [w EXCEPT !.at = "app", !.i = @ + 1]

ReadChart(x) ==
    LET c == Head(work[x].todo)
        taken == SubSeq(chart[c], 1, IF Len(chart[c]) < Depth THEN Len(chart[c]) ELSE Depth)
        w == [work[x] EXCEPT !.at = "app", !.apps = taken, !.i = 1, !.read = moves]
    IN  /\ work[x].at = "chart"
        /\ work' = [work EXCEPT ![x] = w]
        /\ crossed' = crossed \union
                (Remaining(w) \intersect UNION {Remaining(work[y]) : y \in Collector \ {x}})
        /\ UNCHANGED <<chart, moves, row, reading, moved, half, broken, used>>

At(x) == work[x].apps[work[x].i]

\* Its page is read; a sweep then looks for its row.
Look(x) ==
    /\ work[x].at = "app" /\ work[x].i <= Len(work[x].apps)
    /\ work' = [work EXCEPT ![x].at = "row", ![x].existing = row[At(x)] # NoCategory]
    /\ UNCHANGED <<chart, moves, row, reading, moved, crossed, half, broken, used>>

\* One page that cannot be read must not abort the rest.
Unreadable(x) ==
    /\ work[x].at = "app" /\ work[x].i <= Len(work[x].apps)
    /\ Spend("troubles", MaxTroubles)
    /\ work' = [work EXCEPT ![x] = NextApp(@)]
    /\ UNCHANGED <<chart, moves, row, reading, moved, crossed, half, broken>>

\* A sweep creates the row if it found none, and a build upserts.
Creates(x) == work[x].sweep /\ ~work[x].existing

WriteRow(x) ==
    /\ work[x].at = "row"
    /\ Creates(x) => row[At(x)] = NoCategory
    /\ row' = [row EXCEPT ![At(x)] = Head(work[x].todo)]
    /\ work' = [work EXCEPT ![x].at = "snapshot"]
    /\ UNCHANGED <<chart, moves, reading, moved, crossed, half, broken, used>>

\* The unique key: the error ends the category, not the sweep.
Collide(x) ==
    /\ work[x].at = "row" /\ Creates(x) /\ row[At(x)] # NoCategory
    /\ broken' = broken \union {At(x)}
    /\ NextCategory(x)
    /\ UNCHANGED <<chart, moves, row, reading, moved, crossed, half, used>>

\* mutant: the rank counts the apps that could be read
RankCounted(x) == IF work[x].sweep THEN work[x].wrote + 1 ELSE Unranked

\* index + 1
Rank(x) == IF work[x].sweep THEN work[x].i ELSE Unranked

\* Besides its rank a snapshot has ghosts: the chart, the place on it, and when it was read.
Snapshot(x) ==
    LET new == [rank |-> Rank(x), of |-> Head(work[x].todo), place |-> work[x].i,
                read |-> work[x].read]
        old == reading[At(x)]
    IN  /\ work[x].at = "snapshot"
        /\ reading' = [reading EXCEPT ![At(x)] = <<new>> \o SubSeq(old, 1, IF old = <<>> THEN 0 ELSE 1)]
        /\ work' = [work EXCEPT ![x] = [NextApp(work[x]) EXCEPT !.wrote = work[x].wrote + 1]]
        /\ half' = half \ {At(x)}
        /\ UNCHANGED <<chart, moves, row, moved, crossed, broken, used>>

CategoryDone(x) ==
    /\ work[x].at = "app" /\ work[x].i > Len(work[x].apps)
    /\ NextCategory(x)
    /\ UNCHANGED <<chart, moves, row, reading, moved, crossed, half, broken, used>>

Halfway(x) == IF work[x].at = "snapshot" THEN half \union {At(x)} ELSE half

\* A chart that cannot be read or an error of the database costs a sweep the category and a
\* build everything; a job that dies is begun anew.
Fail(x) ==
    /\ work[x] # Idle /\ Spend("troubles", MaxTroubles)
    /\ half' = Halfway(x)
    /\ NextCategory(x) \/ work' = [work EXCEPT ![x] = Idle]
    /\ UNCHANGED <<chart, moves, row, reading, moved, crossed, broken>>

Next ==
    \/ Move
    \/ \E x \in Collector :
        \/ Begin(x) \/ ReadChart(x) \/ Look(x) \/ Unreadable(x) \/ WriteRow(x) \/ Collide(x)
        \/ Snapshot(x) \/ CategoryDone(x) \/ Fail(x)

Spec == Init /\ [][Next]_vars

-----------------------------------------------------------------------------
(* trends.rising                                                           *)

Latest(a) == reading[a][1]

\* Movement is computed of the two latest readings, and only if both carry a rank.
Measured(a) == Len(reading[a]) = 2 /\ \A i \in 1 .. 2 : reading[a][i].rank # Unranked
Climb(a) == reading[a][2].rank - reading[a][1].rank

\* A chart rank is meaningless without its chart: the category shown beside it is the row's.
Shown(a) == reading[a] # <<>> /\ Latest(a).rank # Unranked

BeingWritten(a) == \E x \in Collector : work[x].at = "snapshot" /\ At(x) = a

\* The rank on the page was the app's place on the chart of the category it is shown with, and
\* its climb is what it rose on that chart from one time to a later one - unless two
\* collectors had it before them at once, the store moved it to another category, or its
\* row was written and its snapshot was not.  No category is abandoned but in such an overlap.
ClimbTrue ==
    /\ broken \subseteq crossed
    /\ \A a \in App \ crossed :
        /\ Shown(a) /\ ~BeingWritten(a) =>
             Latest(a).rank = Latest(a).place /\ (row[a] = Latest(a).of \/ a \in half)
        /\ Measured(a) => LET from == reading[a][2]  to == Latest(a) IN
             /\ from.read <= to.read
             /\ from.of = to.of => Climb(a) = from.place - to.place
             /\ from.of = to.of \/ a \in moved
===============================================================================
