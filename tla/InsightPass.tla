------------------------------ MODULE InsightPass ------------------------------
(***************************************************************************)
(* The insight pass of one app (generateInsights of                        *)
(* src/server/jobs/handlers/insights.ts): explain what is unusual, then    *)
(* bring the list of recommendations up to date.  The night's pass has an  *)
(* id of its own and each one a member asks for another                    *)
(* (src/server/api/routers/ai.ts), so passes run side by side; the members *)
(* go through the list meanwhile.                                          *)
(***************************************************************************)
EXTENDS Integers, Sequences, FiniteSets

CONSTANTS
    Pass,        \* jobs that may wait or run side by side
    Title,       \* titles the model gives its recommendations
    Attempts,    \* DEFAULT_OPTIONS.attempts
    MaxRows,     \* bound: recommendations
    MaxPasses,   \* bound: passes queued
    MaxChanges,  \* bound: statuses set
    MaxTroubles  \* bound: attempts that fail

VARIABLES
    rec,      \* the rows of ai_recommendations: title and status
    insights, \* rows of ai_insights about today's anomaly (and about the reviews' themes)
    pass,     \* pass[s]: where it stands, the attempts made, the titles left to go through
    excused,  \* ghost: titles that passes were about to add at once, or that a member took up
              \* again
    used

vars == <<rec, insights, pass, excused, used>>

Status == {"OPEN", "IN_PROGRESS", "APPLIED", "DISMISSED"}
Idle == [at |-> "idle", made |-> 0, todo |-> <<>>]
Titles == UNION {[1 .. n -> Title] : n \in 0 .. 2}

Init ==
    /\ rec = <<>>
    /\ insights = 0
    /\ pass = [s \in Pass |-> Idle]
    /\ excused = {}
    /\ used = [passes |-> 0, changes |-> 0, troubles |-> 0]

\* The schedule, or ai.runInsightPass.
Queue(s) ==
    /\ pass[s] = Idle
    /\ used.passes < MaxPasses /\ used' = [used EXCEPT !.passes = @ + 1]
    /\ pass' = [pass EXCEPT ![s].at = "waiting"]
    /\ UNCHANGED <<rec, insights, excused>>

\* The anomaly is there all day, and each attempt begins at the beginning.
Begin(s) ==
    /\ pass[s].at = "waiting"
    /\ pass' = [pass EXCEPT ![s].at = "explain"]
    /\ UNCHANGED <<rec, insights, excused, used>>

Explain(s) ==
    /\ pass[s].at = "explain"
    /\ insights' = insights + 1
    /\ pass' = [pass EXCEPT ![s].at = "list"]
    /\ UNCHANGED <<rec, excused, used>>

\* generateRecommendations: one title may come twice.
List(s, titles) ==
    /\ pass[s].at = "list"
    /\ pass' = [pass EXCEPT ![s].at = "find", ![s].todo = titles]
    /\ UNCHANGED <<rec, insights, excused, used>>

Rows(title, statuses) == {n \in DOMAIN rec : rec[n].title = title /\ rec[n].status \in statuses}

Current == {"OPEN", "IN_PROGRESS"}
CurrentRows(title) == Rows(title, Current)

\* mutant: one that a member has begun with is not counted
ExistingOpen(title) == Rows(title, {"OPEN"}) # {}

Existing(title) == CurrentRows(title) # {}

Adding(title) == {s \in Pass : pass[s].at = "create" /\ Head(pass[s].todo) = title}

Find(s) ==
    /\ pass[s].at = "find" /\ pass[s].todo # <<>>
    /\ LET title == Head(pass[s].todo) IN
       IF Existing(title)
       THEN pass' = [pass EXCEPT ![s].todo = Tail(@)] /\ UNCHANGED excused
       ELSE /\ pass' = [pass EXCEPT ![s].at = "create"]
            /\ excused' = IF Adding(title) # {} THEN excused \union {title} ELSE excused
    /\ UNCHANGED <<rec, insights, used>>

Create(s) ==
    /\ pass[s].at = "create" /\ Len(rec) < MaxRows
    /\ rec' = Append(rec, [title |-> Head(pass[s].todo), status |-> "OPEN"])
    /\ pass' = [pass EXCEPT ![s].at = "find", ![s].todo = Tail(@)]
    /\ UNCHANGED <<insights, excused, used>>

Finish(s) ==
    /\ pass[s].at = "find" /\ pass[s].todo = <<>>
    /\ pass' = [pass EXCEPT ![s] = Idle]
    /\ UNCHANGED <<rec, insights, excused, used>>

\* A call or a write throws; what was written stays, and another attempt begins anew.
Fail(s) ==
    /\ pass[s].at \in {"explain", "list", "find", "create"}
    /\ used.troubles < MaxTroubles /\ used' = [used EXCEPT !.troubles = @ + 1]
    /\ pass' = [pass EXCEPT ![s] = IF @.made + 1 < Attempts
                                   THEN [Idle EXCEPT !.at = "waiting", !.made = pass[s].made + 1]
                                   ELSE Idle]
    /\ UNCHANGED <<rec, insights, excused>>

\* ai.setRecommendationStatus, from any status to any.
SetStatus(n, status) ==
    /\ used.changes < MaxChanges /\ used' = [used EXCEPT !.changes = @ + 1]
    /\ rec[n].status # status
    /\ rec' = [rec EXCEPT ![n].status = status]
    /\ excused' = IF /\ status \in Current /\ rec[n].status \notin Current
                     /\ CurrentRows(rec[n].title) # {} \/ Adding(rec[n].title) # {}
                  THEN excused \union {rec[n].title} ELSE excused
    /\ UNCHANGED <<insights, pass>>

Next ==
    \/ \E s \in Pass :
        \/ Queue(s) \/ Begin(s) \/ Explain(s) \/ Find(s) \/ Create(s) \/ Finish(s) \/ Fail(s)
        \/ \E titles \in Titles : List(s, titles)
    \/ \E n \in DOMAIN rec, status \in Status : SetStatus(n, status)

Spec == Init /\ [][Next]_vars

-----------------------------------------------------------------------------
(* Properties                                                              *)

\* What was unusual is explained once by each pass, and once more for each attempt that
\* failed.  However many go through the same advice, and whatever the members make of it
\* meanwhile, no recommendation stands in the list twice, unless two passes were about to
\* add it at once or a member took up an old one while it was there anew.
AdviceOnce ==
    /\ insights <= used.passes + used.troubles
    /\ \A title \in Title : Cardinality(CurrentRows(title)) > 1 => title \in excused
=============================================================================
