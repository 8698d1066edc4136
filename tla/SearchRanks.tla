------------------------------ MODULE SearchRanks ------------------------------
(***************************************************************************)
(* The daily ranks of one app, src/server/jobs/handlers/aso.ts: where it   *)
(* and its competitors stand on the result page of each tracked keyword    *)
(* (syncRanks, recordCompetitorRanks) and where it stands on the charts    *)
(* (syncChartRanks).  A run takes the keywords, the competitors and the    *)
(* date as they are when it begins and writes one row after the other;     *)
(* midnight, another run and the members' changes (the routers keyword and *)
(* competitor) may come in between.                                        *)
(***************************************************************************)
EXTENDS Integers, FiniteSets, FiniteSetsExt

CONSTANTS
    Keyword,
    Rival,       \* competitors in the keywords' country
    Chart,
    Slot,        \* runs that may overlap
    Position,    \* positions on a page or chart
    MaxDays,     \* bound: days looked at
    MaxRuns,     \* bound: runs begun
    MaxTroubles  \* bound: changes by members, runs that fail or die

VARIABLES
    job,     \* the one that runs, aso.ranks or aso.charts: they have no row in common
    day,
    listed,  \* a keyword's or competitor's row: none, tracked, untracked or gone
    rows,    \* rows[s][d]: the row of series s for day d
    run,     \* run[x]: idle or an execution of syncRanks or syncChartRanks
    late,    \* ghost: the rows written when their day was over
    missed,  \* ghost: missed[k]: the competitors the scan behind k's newest row did not load, or
             \* did not get to
    used

vars == <<job, day, listed, rows, run, late, missed, used>>

Null == 0
NoRow == [rank |-> -1, prev |-> -1]
Idle == [at |-> "idle", today |-> 0, todo |-> {}, rivals |-> {}, left |-> {}, prev |-> <<>>]
Own == {<<k>> : k \in Keyword}
Series == Own \union (Keyword \X Rival) \union {<<c>> : c \in Chart}
Spend(b, limit) == used[b] < limit /\ used' = [used EXCEPT ![b] = @ + 1]

Init ==
    /\ job \in {"aso.ranks", "aso.charts"}
    /\ day = 1
    /\ listed = [x \in Keyword \union Rival |-> "none"]
    /\ rows = [s \in Series |-> [d \in 1 .. MaxDays |-> NoRow]]
    /\ run = [x \in Slot |-> Idle]
    /\ late = {} /\ missed = [k \in Keyword |-> {}]
    /\ used = [b \in {"runs", "troubles"} |-> 0]

-----------------------------------------------------------------------------
(* Rows                                                                    *)

Captured(s) == {d \in 1 .. MaxDays : rows[s][d] # NoRow}

\* mutant: `lte: today`
UpTo(today) == 1 .. today

Before(today) == 1 .. today - 1

\* The latest row there is for an earlier day, whatever day that was.
Previous(s, today) ==
    LET days == Captured(s) \intersect Before(today)
    IN  IF days = {} THEN Null ELSE rows[s][Max(days)].rank

Upsert(s, d, rank, prev) ==
    /\ rows' = [rows EXCEPT ![s][d] = [rank |-> rank, prev |-> prev]]
    /\ late' = IF day > d THEN late \union {<<s, d>>} ELSE late

-----------------------------------------------------------------------------
(* syncRanks                                                               *)

Tracked(set) == {x \in set : listed[x] = "tracked"}

Begin(x) ==
    /\ job = "aso.ranks" /\ run[x] = Idle /\ Spend("runs", MaxRuns)
    /\ run' = [run EXCEPT ![x] =
                 [Idle EXCEPT !.at = "search", !.today = day,
                              !.todo = Tracked(Keyword), !.rivals = Tracked(Rival)]]
    /\ UNCHANGED <<job, day, listed, rows, late, missed>>

\* The search, and the read of the previous row.
Search(x, k) ==
    /\ run[x].at = "search" /\ k \in run[x].todo
    /\ run' = [run EXCEPT ![x].at = "own", ![x].left = {k},
                          ![x].prev = [z \in {k} |-> Previous(<<z>>, run[x].today)]]
    /\ UNCHANGED <<job, day, listed, rows, late, missed, used>>

Gone(z) == listed[z] = "gone"
Scanned(x) == CHOOSE k \in run[x].left \intersect Keyword : TRUE

\* No row of the keyword is of a later day.
Leads(k, today) == \A d \in Captured(<<k>>) : d <= today

\* The app's own row; then the competitors' previous rows are read, all at once.
WriteOwn(x) ==
    LET k == Scanned(x) IN
    /\ run[x].at = "own" /\ ~Gone(k)
    /\ \E rank \in Position \union {Null} : Upsert(<<k>>, run[x].today, rank, run[x].prev[k])
    /\ run' = [run EXCEPT ![x].at = "rivals", ![x].left = {k} \union run[x].rivals,
                          ![x].prev = [r \in run[x].rivals |-> Previous(<<k, r>>, run[x].today)]]
    /\ missed' = IF Leads(k, run[x].today) THEN [missed EXCEPT ![k] = Rival \ run[x].rivals]
                                           ELSE missed
    /\ UNCHANGED <<job, day, listed, used>>

\* Who is not on the page gets an explicit null.
WriteRival(x, r) ==
    LET k == Scanned(x) IN
    /\ run[x].at = "rivals" /\ r \in run[x].left \ {k} /\ ~Gone(k) /\ ~Gone(r)
    /\ \E rank \in Position \union {Null} : Upsert(<<k, r>>, run[x].today, rank, run[x].prev[r])
    /\ run' = [run EXCEPT ![x].left = @ \ {r}]
    /\ UNCHANGED <<job, day, listed, missed, used>>

NextKeyword(x) ==
    /\ run[x].at = "rivals" /\ run[x].left \subseteq Keyword
    /\ run' = [run EXCEPT ![x].at = "search", ![x].todo = @ \ run[x].left,
                          ![x].left = {}, ![x].prev = <<>>]
    /\ UNCHANGED <<job, day, listed, rows, late, missed, used>>

Ends(x) ==
    /\ run' = [run EXCEPT ![x] = Idle]
    /\ missed' = IF run[x].at = "rivals" /\ Leads(Scanned(x), run[x].today)
                 THEN [missed EXCEPT ![Scanned(x)] = @ \union (run[x].left \intersect Rival)]
                 ELSE missed

\* A row of what has been removed cannot be written: the whole run fails.
ForeignKey(x) ==
    /\ \/ run[x].at = "own" /\ Gone(Scanned(x))
       \/ run[x].at = "rivals" /\ \E z \in run[x].left : Gone(z)
    /\ Ends(x)
    /\ UNCHANGED <<job, day, listed, rows, late, used>>

\* A search, keywordStats or a query throws, or the process dies; the next attempt begins anew.
Fail(x) ==
    /\ run[x] # Idle /\ Spend("troubles", MaxTroubles)
    /\ Ends(x)
    /\ UNCHANGED <<job, day, listed, rows, late>>

Finish(x) ==
    /\ run[x].at = "search" /\ run[x].todo = {}
    /\ run' = [run EXCEPT ![x] = Idle]
    /\ UNCHANGED <<job, day, listed, rows, late, missed, used>>

-----------------------------------------------------------------------------
(* syncChartRanks                                                          *)

BeginCharts(x) ==
    /\ job = "aso.charts" /\ run[x] = Idle /\ Spend("runs", MaxRuns)
    /\ run' = [run EXCEPT ![x] = [Idle EXCEPT !.at = "chart", !.today = day, !.todo = Chart]]
    /\ UNCHANGED <<job, day, listed, rows, late, missed>>

ReadChart(x, c) ==
    /\ run[x].at = "chart" /\ c \in run[x].todo
    /\ run' = [run EXCEPT ![x].at = "position", ![x].left = {c},
                          ![x].prev = [z \in {c} |-> Previous(<<z>>, run[x].today)]]
    /\ UNCHANGED <<job, day, listed, rows, late, missed, used>>

Charted(x) == CHOOSE c \in run[x].left : TRUE
ChartDone(x, c) ==
    [run EXCEPT ![x].at = "chart", ![x].todo = @ \ {c}, ![x].left = {}, ![x].prev = <<>>]

WriteChart(x) ==
    LET c == Charted(x) IN
    /\ run[x].at = "position"
    /\ \E rank \in Position \union {Null} : Upsert(<<c>>, run[x].today, rank, run[x].prev[c])
    /\ run' = ChartDone(x, c)
    /\ UNCHANGED <<job, day, listed, missed, used>>

\* An unreachable chart (scanDepth 0) writes nothing, and an error is that chart's alone.
SkipChart(x) ==
    /\ run[x].at \in {"chart", "position"}
    /\ \E c \in IF run[x].left = {} THEN run[x].todo ELSE run[x].left : run' = ChartDone(x, c)
    /\ Spend("troubles", MaxTroubles)
    /\ UNCHANGED <<job, day, listed, rows, late, missed>>

\* With rows or without; a run without any that met an error is attempted again.
FinishCharts(x) ==
    /\ run[x].at = "chart" /\ run[x].todo = {}
    /\ run' = [run EXCEPT ![x] = Idle]
    /\ UNCHANGED <<job, day, listed, rows, late, missed, used>>

-----------------------------------------------------------------------------
(* The members, discovery, and the date                                    *)

\* keyword.add, competitor.add and discovery create the row; competitor.add also tracks it again.
Add(z) ==
    /\ job = "aso.ranks"
    /\ listed[z] = "none" \/ (z \in Rival /\ listed[z] = "untracked")
    /\ listed' = [listed EXCEPT ![z] = "tracked"]
    /\ UNCHANGED <<job, day, rows, run, late, missed, used>>

SetTracked(z, isTracked) ==
    /\ listed[z] \in {"tracked", "untracked"} /\ Spend("troubles", MaxTroubles)
    /\ listed' = [listed EXCEPT ![z] = IF isTracked THEN "tracked" ELSE "untracked"]
    /\ UNCHANGED <<job, day, rows, run, late, missed>>

\* Its rows go with it.
Remove(z) ==
    /\ listed[z] \in {"tracked", "untracked"} /\ Spend("troubles", MaxTroubles)
    /\ listed' = [listed EXCEPT ![z] = "gone"]
    /\ rows' = [s \in Series |-> IF \E i \in DOMAIN s : s[i] = z
                                 THEN [d \in 1 .. MaxDays |-> NoRow] ELSE rows[s]]
    /\ UNCHANGED <<job, day, run, late, missed>>

Midnight ==
    /\ day < MaxDays
    /\ day' = day + 1
    /\ UNCHANGED <<job, listed, rows, run, late, missed, used>>

Next ==
    \/ \E x \in Slot :
        \/ Begin(x) \/ (\E k \in Keyword : Search(x, k)) \/ WriteOwn(x)
        \/ (\E r \in Rival : WriteRival(x, r)) \/ NextKeyword(x)
        \/ ForeignKey(x) \/ Fail(x) \/ Finish(x)
        \/ BeginCharts(x) \/ (\E c \in Chart : ReadChart(x, c)) \/ WriteChart(x)
        \/ SkipChart(x) \/ FinishCharts(x)
    \/ \E z \in Keyword \union Rival :
        \/ Add(z) \/ (\E isTracked \in BOOLEAN : SetTracked(z, isTracked)) \/ Remove(z)
    \/ Midnight

Spec == Init /\ [][Next]_vars

-----------------------------------------------------------------------------
(* Properties                                                              *)

\* The movement the dashboard shows is a real one: a row's prevRank is the rank of the row
\* before it, days without a row between them or not, also after a second run of the day -
\* unless a row before it was written when its day was over.
PrevTrue ==
    \A s \in Series, d \in 1 .. MaxDays :
        /\ rows[s][d] # NoRow
        /\ ~\E e \in 1 .. d - 1 : <<s, e>> \in late
        => rows[s][d].prev = Previous(s, d)

\* competitorRanks: the newest row of each competitor beside the app's newest row.
Newest(s) == Max(Captured(s))

\* The ranks put side by side are of one day: once no run is under way, the newest row of a
\* competitor is of the day of the app's own, explicitly null if it was not on the page -
\* unless the scan the app's was written by did not load it, or was cut short before it.
SameDay ==
    (\A x \in Slot : run[x] = Idle) =>
        \A k \in Keyword : \A r \in Rival \ missed[k] :
            Captured(<<k, r>>) # {} => Newest(<<k, r>>) = Newest(<<k>>)

\* What the dashboard compares, a rank with the one before and the app's with its
\* competitors', belongs together.
RanksComparable == PrevTrue /\ SameDay
=============================================================================
