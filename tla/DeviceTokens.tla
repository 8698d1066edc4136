----------------------------- MODULE DeviceTokens -----------------------------
(***************************************************************************)
(* The push tokens of one phone: it registers its token under each session *)
(* it signs in with (src/server/api/routers/device.ts, apps/mobile/src/    *)
(* hooks/use-push.ts); a send reads the live rows, hands their tokens to   *)
(* Expo and retires the rows whose device Expo no longer knows             *)
(* (src/server/notify/push.ts).                                            *)
(***************************************************************************)
EXTENDS Integers, FiniteSets

CONSTANTS
    Session,  \* sessions the phone may sign in with, one after the other
    Token,    \* tokens the system may give it
    None,
    MaxRegistrations, \* bound: registrations begun
    MaxSends,         \* bound: sends begun
    MaxTroubles       \* bound: rotated tokens, reinstalls, sessions revoked, tokens unregistered

VARIABLES
    session,  \* session[s]: none, live or revoked
    phone,    \* its session, its token, and whether it was told that this token is registered
    dead,     \* tokens Expo no longer delivers to
    rows,     \* DeviceToken: ok says invalidatedAt is null
    requests, \* executions of registerPush past their first check
    send,     \* the rows a send has read and not yet handed over
    verdicts, \* DeviceNotRegistered answers not yet recorded: the row meant, its token then
    spoiled,  \* ghost: since the phone was told, an older registration or a verdict on
              \* an older token came in
    used

vars == <<session, phone, dead, rows, requests, send, verdicts, spoiled, used>>

Spend(b, limit) == used[b] < limit /\ used' = [used EXCEPT ![b] = @ + 1]

Init ==
    /\ session = [s \in Session |-> "none"]
    /\ \E t \in Token : phone = [session |-> None, token |-> t, told |-> FALSE]
    /\ dead = {} /\ rows = {} /\ requests = {} /\ send = {} /\ verdicts = {}
    /\ spoiled = FALSE
    /\ used = [b \in {"registrations", "sends", "troubles", "rows"} |-> 0]

-----------------------------------------------------------------------------
(* The phone                                                               *)

SignIn(s) ==
    /\ phone.session = None /\ session[s] = "none"
    /\ session' = [session EXCEPT ![s] = "live"]
    /\ phone' = [phone EXCEPT !.session = s, !.told = FALSE]
    /\ UNCHANGED <<dead, rows, requests, send, verdicts, spoiled, used>>

\* The request that revokes the session may get lost; the token stays registered.
SignOut ==
    /\ phone.session # None
    /\ \/ session' = [session EXCEPT ![phone.session] = "revoked"] /\ UNCHANGED used
       \/ Spend("troubles", MaxTroubles) /\ UNCHANGED session
    /\ phone' = [phone EXCEPT !.session = None, !.told = FALSE]
    /\ UNCHANGED <<dead, rows, requests, send, verdicts, spoiled>>

\* Rotated by the system, or by a reinstall, which also loses the session.
NewToken(t) ==
    /\ t \notin dead \union {phone.token}
    /\ Spend("troubles", MaxTroubles)
    /\ dead' = dead \union {phone.token}
    /\ \E s \in {phone.session, None} : phone' = [session |-> s, token |-> t, told |-> FALSE]
    /\ UNCHANGED <<session, rows, requests, send, verdicts, spoiled>>

Revoke(s) ==
    /\ session[s] = "live"
    /\ Spend("troubles", MaxTroubles)
    /\ session' = [session EXCEPT ![s] = "revoked"]
    /\ UNCHANGED <<phone, dead, rows, requests, send, verdicts, spoiled>>

\* Its session is checked on the way in.  An effect runs it again when the app is opened.
Register ==
    LET r == [session |-> phone.session, token |-> phone.token, phase |-> "clear"]
    IN  /\ phone.session # None /\ session[phone.session] = "live"
        /\ Spend("registrations", MaxRegistrations)
        /\ ~\E q \in requests : q.session = r.session /\ q.token = r.token
        /\ requests' = requests \union {r}
        /\ UNCHANGED <<session, phone, dead, rows, send, verdicts, spoiled>>

-----------------------------------------------------------------------------
(* registerPush, unregisterPush                                            *)

\* Another session that holds the token loses it.
ClearHolders(r) == {x \in rows : x.token # r.token \/ x.session = r.session}

Clear(r) ==
    /\ r.phase = "clear"
    /\ rows' = ClearHolders(r)
    /\ requests' = (requests \ {r}) \union {[r EXCEPT !.phase = "upsert"]}
    /\ UNCHANGED <<session, phone, dead, send, verdicts, spoiled, used>>

\* mutant: an update leaves invalidatedAt as it is
UpdatedTokenOnly(x, t) == [x EXCEPT !.token = t]

Updated(x, t) == [x EXCEPT !.token = t, !.ok = TRUE]

Current(r) == phone.session = r.session /\ phone.token = r.token
Own(r) == {x \in rows : x.session = r.session}

Upsert(r) ==
    /\ r.phase = "upsert"
    /\ ~\E x \in rows : x.token = r.token /\ x.session # r.session
    /\ IF Own(r) # {}
       THEN /\ rows' = (rows \ Own(r)) \union {Updated(x, r.token) : x \in Own(r)}
            /\ UNCHANGED used
       ELSE /\ rows' = rows \union
                       {[id |-> used["rows"], session |-> r.session, token |-> r.token, ok |-> TRUE]}
            /\ used' = [used EXCEPT !["rows"] = @ + 1]
    /\ requests' = requests \ {r}
    /\ IF Current(r)
       THEN phone' = [phone EXCEPT !.told = TRUE] /\ spoiled' = (requests' # {})
       ELSE UNCHANGED <<phone, spoiled>>
    /\ UNCHANGED <<session, dead, send, verdicts>>

\* The unique token: another request has taken it since.
UpsertConflicts(r) ==
    /\ r.phase = "upsert"
    /\ \E x \in rows : x.token = r.token /\ x.session # r.session
    /\ requests' = requests \ {r}
    /\ UNCHANGED <<session, phone, dead, rows, send, verdicts, spoiled, used>>

Unregister ==
    /\ phone.session # None /\ session[phone.session] = "live"
    /\ Spend("troubles", MaxTroubles)
    /\ rows' = {x \in rows : x.session # phone.session}
    /\ phone' = [phone EXCEPT !.told = FALSE]
    /\ UNCHANGED <<session, dead, requests, send, verdicts, spoiled>>

-----------------------------------------------------------------------------
(* sendPush                                                                *)

\* resolveRecipients
Resolve ==
    /\ send = {}
    /\ Spend("sends", MaxSends)
    /\ send' = {x \in rows : x.ok /\ session[x.session] # "revoked"}
    /\ UNCHANGED <<session, phone, dead, rows, requests, verdicts, spoiled>>

\* Expo says of a dead token so in its ticket or in its receipt, sooner or later.
Post ==
    /\ send # {}
    /\ verdicts' = verdicts \union
                   {[id |-> x.id, token |-> x.token] : x \in {y \in send : y.token \in dead}}
    /\ send' = {}
    /\ UNCHANGED <<session, phone, dead, rows, requests, spoiled, used>>

\* invalidateToken
Invalidate(v) ==
    /\ v \in verdicts
    /\ rows' = {IF x.id = v.id THEN [x EXCEPT !.ok = FALSE] ELSE x : x \in rows}
    /\ spoiled' = (spoiled \/ \E x \in rows : x.id = v.id /\ x.token # v.token)
    /\ verdicts' = verdicts \ {v}
    /\ UNCHANGED <<session, phone, dead, requests, send, used>>

\* The call fails, the receipt is asked for too early or its ticket is not known any more.
VerdictLost(v) ==
    /\ v \in verdicts
    /\ verdicts' = verdicts \ {v}
    /\ UNCHANGED <<session, phone, dead, rows, requests, send, spoiled, used>>

Next ==
    \/ \E s \in Session : SignIn(s) \/ Revoke(s)
    \/ SignOut \/ (\E t \in Token : NewToken(t)) \/ Register \/ Unregister
    \/ \E r \in requests : Clear(r) \/ Upsert(r) \/ UpsertConflicts(r)
    \/ Resolve \/ Post \/ \E v \in verdicts : Invalidate(v) \/ VerdictLost(v)

Spec == Init /\ [][Next]_vars

-----------------------------------------------------------------------------
(* Properties                                                              *)

\* A phone that was told it is registered stays within reach: its session has a live row
\* with its token, unless an older registration was still running or a verdict on the
\* token the row held before comes in; the next registration repairs either.
Reachable ==
    phone.told /\ session[phone.session] = "live" /\ ~spoiled
        => \E x \in rows : x.session = phone.session /\ x.token = phone.token /\ x.ok
=============================================================================
