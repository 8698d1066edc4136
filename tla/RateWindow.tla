------------------------------ MODULE RateWindow ------------------------------
(***************************************************************************)
(* The fixed-window counter behind one key, rateLimit of                   *)
(* src/server/redis.ts: INCR, then EXPIRE by the caller that counted to    *)
(* one, then TTL for the answer, a round trip each.  Most callers let a    *)
(* request through when Redis fails (src/server/mobile-http.ts).           *)
(***************************************************************************)
EXTENDS Integers, FiniteSets, Functions

CONSTANTS
    Caller,
    Limit,       \* limit
    Window,      \* windowSeconds
    MaxCount,    \* bound: what a counter gets to
    MaxTroubles  \* bound: calls of Redis that fail, processes that die

VARIABLES
    count,    \* the counter, 0 if there is none
    left,     \* its ttl, NoExpiry before EXPIRE
    caller,   \* caller[c]: idle, or what it asks Redis for next
    told,     \* ghost: told[c]: what is left of the resetIn c was refused with, None otherwise
    age,      \* ghost: how long the counter has been there
    recent,   \* ghost: the requests let through within a window, how long ago and what
              \* each counted to
    over,     \* ghost: over[c]: the window c was refused in has ended
    used

vars == <<count, left, caller, told, age, recent, over, used>>

NoExpiry == -1
None == -1
Spend(b) == SumFunction(used) < MaxTroubles /\ used' = [used EXCEPT ![b] = @ + 1]

Init ==
    /\ count = 0 /\ left = NoExpiry /\ age = 0
    /\ caller = [c \in Caller |-> "idle"]
    /\ told = [c \in Caller |-> None] /\ over = [c \in Caller |-> FALSE]
    /\ recent = {}
    /\ used = [b \in {"open", "cut"} |-> 0]

Goes(c, step) == caller' = [caller EXCEPT ![c] = step]
LetThrough(n) == recent' = recent \union {[ago |-> 0, n |-> n]}

\* mutant: one too many
AllowedOneMore(n) == n <= Limit + 1

Allowed(n) == n <= Limit

\* mutant: every request renews the expiry
FirstOrLater(n) == TRUE

First(n) == n = 1

\* Who is let through needs no more of the answer.
Incr(c) ==
    /\ caller[c] = "idle" /\ count < MaxCount
    /\ count' = count + 1
    /\ age' = IF count = 0 THEN 0 ELSE age
    /\ IF Allowed(count + 1) THEN LetThrough(count + 1) ELSE UNCHANGED recent
    /\ Goes(c, IF First(count + 1) THEN "expire" ELSE IF Allowed(count + 1) THEN "idle" ELSE "ttl")
    /\ told' = [told EXCEPT ![c] = None] /\ over' = [over EXCEPT ![c] = FALSE]
    /\ UNCHANGED <<left, used>>

\* The request goes on all the same, counted nowhere: those are numbered down from zero.
IncrFails(c) ==
    /\ caller[c] = "idle" /\ Spend("open")
    /\ LetThrough(-used["open"])
    /\ UNCHANGED <<count, left, caller, told, age, over>>

Expire(c) ==
    /\ caller[c] = "expire"
    /\ left' = Window
    /\ Goes(c, "idle")
    /\ UNCHANGED <<count, told, age, recent, over, used>>

\* The process dies after INCR, or EXPIRE fails: nobody counts to one again.
ExpireCut(c) ==
    /\ caller[c] = "expire" /\ Spend("cut")
    /\ Goes(c, "idle")
    /\ UNCHANGED <<count, left, told, age, recent, over>>

ReadTtl(c) ==
    /\ caller[c] = "ttl"
    /\ told' = [told EXCEPT ![c] = IF left = NoExpiry THEN Window ELSE left]
    /\ Goes(c, "idle")
    /\ UNCHANGED <<count, left, age, recent, over, used>>

\* Assumed: the calls of one request follow each other faster than the clock ticks.
Tick ==
    /\ \A c \in Caller : caller[c] = "idle"
    /\ LET ends == left = 1 IN
       /\ left' = IF left = NoExpiry \/ ends THEN NoExpiry ELSE left - 1
       /\ count' = IF ends THEN 0 ELSE count
       /\ over' = [c \in Caller |-> over[c] \/ ends]
    /\ age' = IF age > Window \/ count = 0 THEN age ELSE age + 1
    /\ told' = [c \in Caller |-> IF told[c] > 0 THEN told[c] - 1 ELSE told[c]]
    /\ recent' = {[r EXCEPT !.ago = @ + 1] : r \in {x \in recent : x.ago < Window - 1}}
    /\ UNCHANGED <<caller, used>>

Next ==
    \/ \E c \in Caller :
        \/ Incr(c) \/ IncrFails(c) \/ Expire(c) \/ ExpireCut(c) \/ ReadTtl(c)
    \/ Tick

Spec == Init /\ [][Next]_vars

-----------------------------------------------------------------------------
(* Properties                                                              *)

\* In any span as long as the window at most twice the limit goes through, apart from
\* what passed while Redis was away; asking on does not prolong a window, and who comes
\* back after the seconds it was told finds the window over - unless EXPIRE was cut off.
WindowHolds ==
    /\ Cardinality(recent) <= 2 * Limit + used["open"]
    /\ used["cut"] = 0 => /\ count > 0 => age <= Window
                          /\ \A c \in Caller : told[c] = 0 => over[c]
=============================================================================
