---------------------------- MODULE MobileSession ----------------------------
(***************************************************************************)
(* One phone's sign-in: the rotating refresh token of                      *)
(* src/server/mobile-auth.ts behind the routes api/mobile/auth/{token,     *)
(* refresh,revoke}, and the client that stores it (apps/mobile/src/api/    *)
(* auth.ts).  The server's awaits, the network and the client's awaits are *)
(* step boundaries: a connection may drop while the server goes on, the    *)
(* app may be killed, and sign-out may overlap a refresh.                  *)
(***************************************************************************)
EXTENDS Integers, FiniteSets, Functions

CONSTANTS
    Session,     \* device sessions that can be created
    Token,       \* refresh tokens that can be issued
    None,
    Slot,        \* performRefresh promises of the client
    Request,     \* refresh requests on the server
    MaxDrops,    \* bound: connections that drop, on the way there or back
    MaxKills,    \* bound: times the app is killed
    MaxFaults,   \* bound: server calls that throw, and revocations that fail
    MaxRemote,   \* bound: sessions revoked from another device
    MaxExpiries, \* bound: refresh tokens left unused for 60 days
    MaxTroubles  \* bound: all of these together

VARIABLES
    session,   \* session[s]: DeviceSession.revokedAt and revokedFor
    token,     \* token[k]: the RefreshToken row
    request,   \* request[q]: an execution of rotateRefreshToken
    store,     \* the Keychain: access token (its session), refresh token
    due,       \* the stored access token is within a minute of its expiry
    refresh,   \* refresh[i]: a performRefresh promise
    ui,        \* the sign-in state of the app and its own running call
    signedOut, \* ghost: a sign-out has completed and nobody signed in since
    used       \* how much of each bound is spent

vars == <<session, token, request, store, due, refresh, ui, signedOut, used>>
server == <<session, token>>
phone == <<store, due, ui, signedOut>>

NoPair == [access |-> None, refresh |-> None]
Pair == [access : Session \union {None}, refresh : Token \union {None}]

\* Nobody waits for an idle request; `slot` is None once its client has gone.
IdleRequest == [pc |-> "idle", token |-> None, slot |-> None, answer |-> NoPair]
IdleRefresh == [pc |-> "idle", pair |-> NoPair]

Bounds == {"drops", "kills", "faults", "remote", "expiries"}
Limit == [b \in Bounds |->
            CASE b = "drops" -> MaxDrops [] b = "kills" -> MaxKills
              [] b = "faults" -> MaxFaults [] b = "remote" -> MaxRemote
              [] b = "expiries" -> MaxExpiries]
Spend(b) ==
    /\ used[b] < Limit[b] /\ SumFunction(used) < MaxTroubles
    /\ used' = [used EXCEPT ![b] = @ + 1]

Init ==
    /\ session = [s \in Session |-> "none"]
    /\ token = [k \in Token |-> [session |-> None, used |-> FALSE, age |-> "none"]]
    /\ request = [q \in Request |-> IdleRequest]
    /\ store = NoPair
    /\ due = FALSE
    /\ refresh = [i \in Slot |-> IdleRefresh]
    /\ ui = [pc |-> "out", pair |-> NoPair]
    /\ signedOut = FALSE
    /\ used = [b \in Bounds |-> 0]

-----------------------------------------------------------------------------
(* The server                                                              *)

Issued(k, s, rows) == [rows EXCEPT ![k] = [session |-> s, used |-> FALSE, age |-> "fresh"]]

\* A fresh random token, or a session; which of them is immaterial.
Unissued == {k \in Token : token[k].age = "none"}
NextToken == CHOOSE k \in Unissued : TRUE
NextSession == CHOOSE s \in Session : session[s] = "none"

\* revokeDeviceSession: only a session that is not revoked yet.
Revoked(s, why, rows) == IF rows[s] = "live" THEN [rows EXCEPT ![s] = why] ELSE rows

\* What rotateRefreshToken does next, by the row and the session it has just read.
Verdict(k) ==
    CASE token[k].age = "pruned"              -> "rejected"
      [] token[k].used                        -> "replay"
      [] session[token[k].session] # "live"   -> "rejected"
      [] token[k].age = "expired"             -> "rejected"
      [] OTHER                                -> "commit"

\* rotateRefreshToken's findUnique.
Lookup(q) ==
    /\ request[q].pc = "lookup"
    /\ request' = [request EXCEPT ![q].pc = Verdict(request[q].token)]
    /\ UNCHANGED <<server, phone, refresh, used>>

\* A used token was presented: the whole device session goes.
Replay(q) ==
    /\ request[q].pc = "replay"
    /\ session' = Revoked(token[request[q].token].session, "replayed", session)
    /\ request' = [request EXCEPT ![q].pc = "rejected"]
    /\ UNCHANGED <<token, phone, refresh, used>>

\* mutant: the old token is marked used before, and apart from, the new one's create
CommitSplit(q) ==
    LET k == request[q].token IN
    /\ request[q].pc = "commit"
    /\ token' = [token EXCEPT ![k].used = TRUE]
    /\ request' = [request EXCEPT ![q].pc = "failed"]
    /\ UNCHANGED <<session, phone, refresh, used>>

\* The transaction: by the id it read, whatever became of the row since.
Commit(q) ==
    LET k == request[q].token IN
    /\ request[q].pc = "commit"
    /\ Unissued # {}
    /\ token' = Issued(NextToken, token[k].session, [token EXCEPT ![k].used = TRUE])
    /\ request' = [request EXCEPT ![q].pc = "issued",
                       ![q].answer = [access |-> token[k].session, refresh |-> NextToken]]
    /\ UNCHANGED <<session, phone, refresh, used>>

\* A query throws, or the process dies: a 500, or no answer at all.
Fault(q) ==
    /\ request[q].pc \in {"lookup", "replay", "commit"}
    /\ Spend("faults")
    /\ request' = [request EXCEPT ![q].pc = "failed"]
    /\ UNCHANGED <<server, phone, refresh>>

\* The answer reaches whoever still waits for it.
Respond(q) ==
    /\ request[q].pc \in {"issued", "rejected", "failed"}
    /\ request' = [request EXCEPT ![q] = IdleRequest]
    /\ refresh' = IF request[q].slot = None THEN refresh
                  ELSE [refresh EXCEPT ![request[q].slot] =
                         CASE request[q].pc = "issued"   -> [pc |-> "save", pair |-> request[q].answer]
                           [] request[q].pc = "rejected" -> [pc |-> "clear", pair |-> NoPair]
                           [] OTHER                      -> IdleRefresh]
    /\ UNCHANGED <<server, phone, used>>

\* "Revoke this device" on the settings page of another device.
RevokeRemote(s) ==
    /\ session[s] = "live"
    /\ Spend("remote")
    /\ session' = Revoked(s, "revoked", session)
    /\ UNCHANGED <<token, request, phone, refresh>>

\* Sixty days pass; thirty more and pruneExpiredRefreshTokens deletes the row.
Expire(k) ==
    /\ token[k].age = "fresh"
    /\ Spend("expiries")
    /\ token' = [token EXCEPT ![k].age = "expired"]
    /\ UNCHANGED <<session, request, phone, refresh>>

Prune(k) ==
    /\ token[k].age = "expired"
    /\ token' = [token EXCEPT ![k].age = "pruned"]
    /\ UNCHANGED <<session, request, phone, refresh, used>>

-----------------------------------------------------------------------------
(* The client's refresh                                                    *)

AccessAges ==
    /\ store.access # None /\ ~due
    /\ due' = TRUE
    /\ UNCHANGED <<server, request, store, refresh, ui, signedOut, used>>

\* mutant: every caller that sees an expired token refreshes for itself
MayRefreshEach(i) == refresh[i].pc = "idle"

\* `inFlight ??= performRefresh()`: one promise, shared by every caller.
MayRefresh(i) == \A j \in Slot : refresh[j].pc = "idle"

\* getAccessToken: the access token is missing, about to expire, or was answered
\* with a 401 (force); performRefresh reads the refresh token and sends it.
BeginRefresh(i, q) ==
    /\ MayRefresh(i)
    /\ request[q].pc = "idle"
    /\ store.refresh # None
    /\ (store.access # None /\ ~due) => session[store.access] # "live"
    /\ refresh' = [refresh EXCEPT ![i].pc = "sent"]
    /\ request' = [request EXCEPT ![q] = [IdleRequest EXCEPT !.pc = "lookup",
                                            !.token = store.refresh, !.slot = i]]
    /\ UNCHANGED <<server, phone, used>>

\* The connection drops; the request may be anywhere, and goes on where it runs.
Drop(q) ==
    /\ request[q].slot # None
    /\ Spend("drops")
    /\ refresh' = [refresh EXCEPT ![request[q].slot] = IdleRefresh]
    /\ request' = [request EXCEPT ![q].slot = None]
    /\ UNCHANGED <<server, phone>>

\* saveTokens.
Save(i) ==
    /\ refresh[i].pc = "save"
    /\ store' = refresh[i].pair
    /\ due' = FALSE
    /\ refresh' = [refresh EXCEPT ![i] = IdleRefresh]
    /\ UNCHANGED <<server, request, ui, signedOut, used>>

\* A 401: the token is dead, so everything stored is dropped.
Clear(i) ==
    /\ refresh[i].pc = "clear"
    /\ store' = NoPair
    /\ due' = FALSE
    /\ refresh' = [refresh EXCEPT ![i] = IdleRefresh]
    /\ UNCHANGED <<server, request, ui, signedOut, used>>

-----------------------------------------------------------------------------
(* Signing in and out                                                      *)

\* exchange, as far as the server: a session and its first pair.
SignIn ==
    /\ ui.pc = "out"
    /\ Unissued # {} /\ \E s \in Session : session[s] = "none"
    /\ session' = [session EXCEPT ![NextSession] = "live"]
    /\ token' = Issued(NextToken, NextSession, token)
    /\ ui' = [pc |-> "signingIn", pair |-> [access |-> NextSession, refresh |-> NextToken]]
    /\ UNCHANGED <<request, store, due, refresh, signedOut, used>>

SignedIn ==
    /\ ui.pc = "signingIn"
    /\ store' = ui.pair
    /\ due' = FALSE
    /\ ui' = [pc |-> "in", pair |-> NoPair]
    /\ signedOut' = FALSE
    /\ UNCHANGED <<server, request, refresh, used>>

\* signOut reads the refresh token to revoke.
SignOut ==
    /\ ui.pc = "in"
    /\ ui' = IF store.refresh = None THEN [pc |-> "clearing", pair |-> NoPair]
                                     ELSE [pc |-> "revoking", pair |-> store]
    /\ UNCHANGED <<server, request, store, due, refresh, signedOut, used>>

\* mutant: the token to revoke by is looked up among the unused ones
FindsUnused(k) == token[k].age # "pruned" /\ ~token[k].used

\* revokeByRefreshToken's findUnique.
Finds(k) == token[k].age # "pruned"

RevokeArrives ==
    LET k == ui.pair.refresh IN
    /\ ui.pc = "revoking"
    /\ session' = IF Finds(k) THEN Revoked(token[k].session, "revoked", session) ELSE session
    /\ ui' = [ui EXCEPT !.pc = "clearing"]
    /\ UNCHANGED <<token, request, store, due, refresh, signedOut, used>>

\* The call fails, which is caught: sign-out goes on.
RevokeFails ==
    /\ ui.pc = "revoking"
    /\ Spend("faults")
    /\ ui' = [pc |-> "clearing", pair |-> NoPair]
    /\ UNCHANGED <<server, request, store, due, refresh, signedOut>>

ClearTokens ==
    /\ ui.pc = "clearing"
    /\ store' = NoPair
    /\ due' = FALSE
    /\ ui' = [ui EXCEPT !.pc = "out"]
    /\ signedOut' = TRUE
    /\ UNCHANGED <<server, request, refresh, used>>

\* The auth gate finds no session stored.
Gate ==
    /\ ui.pc = "in" /\ store.refresh = None
    /\ ui' = [pc |-> "out", pair |-> NoPair]
    /\ UNCHANGED <<server, request, store, due, refresh, signedOut, used>>

\* The app is killed and starts again: hasStoredSession decides what it shows.  A
\* saveTokens under way has written some of its three items.
Kill ==
    /\ Spend("kills")
    /\ \E pair \in {refresh[i].pair : i \in {j \in Slot : refresh[j].pc = "save"}}
                    \union {store} :
         \E access \in {store.access, pair.access}, key \in {store.refresh, pair.refresh} :
            /\ store' = [access |-> access, refresh |-> key]
            /\ ui' = [pc |-> IF key = None THEN "out" ELSE "in", pair |-> NoPair]
    /\ due' \in {due, FALSE}
    /\ refresh' = [i \in Slot |-> IdleRefresh]
    /\ request' = [q \in Request |-> [request[q] EXCEPT !.slot = None]]
    /\ UNCHANGED <<server, signedOut>>

Next ==
    \/ \E q \in Request : \/ Lookup(q)
                          \/ Replay(q)
                          \/ Commit(q)
                          \/ Fault(q)
                          \/ Respond(q)
                          \/ Drop(q)
                          \/ \E i \in Slot : BeginRefresh(i, q)
    \/ \E s \in Session : RevokeRemote(s)
    \/ \E k \in Token : Expire(k) \/ Prune(k)
    \/ \E i \in Slot : Save(i) \/ Clear(i)
    \/ AccessAges \/ SignIn \/ SignedIn \/ SignOut \/ RevokeArrives \/ RevokeFails
    \/ ClearTokens \/ Gate \/ Kill

Spec == Init /\ [][Next]_vars

-----------------------------------------------------------------------------
(* Properties                                                              *)

TokenRow ==
    {r \in [session : Session \union {None}, used : BOOLEAN,
            age : {"none", "fresh", "expired", "pruned"}] :
        r.age = "none" <=> r.session = None}

\* A request that is not idle has a token that was issued.
TypeOK ==
    /\ session \in [Session -> {"none", "live", "revoked", "replayed"}]
    /\ token \in [Token -> TokenRow]
    /\ request \in [Request ->
         [pc : {"idle", "lookup", "replay", "commit", "issued", "rejected", "failed"},
          token : Token \union {None}, slot : Slot \union {None}, answer : Pair]]
    /\ \A q \in Request : request[q].pc # "idle" =>
         request[q].token # None /\ token[request[q].token].age # "none"
    /\ store \in Pair /\ due \in BOOLEAN
    /\ refresh \in [Slot -> [pc : {"idle", "sent", "save", "clear"}, pair : Pair]]
    /\ ui \in [pc : {"out", "signingIn", "in", "revoking", "clearing"}, pair : Pair]
    /\ signedOut \in BOOLEAN
    /\ used \in [Bounds -> Nat]

\* The phone is never signed out for doing nothing wrong: without a dropped
\* connection or a killed app, its own refreshes never look like a replay.
NoSpuriousReplay ==
    (used["drops"] = 0 /\ used["kills"] = 0) => \A s \in Session : session[s] # "replayed"

\* A dropped connection is transient: the tokens the client keeps still work.
DropIsTransient == \A s \in Session : session[s] # "replayed"

\* No crash consumes a token without a replacement: a live session always has a
\* refresh token that was never used.
NeverLockedOut ==
    \A s \in Session : session[s] = "live" =>
        \E k \in Token : token[k].session = s /\ ~token[k].used

\* Rotation never forks, so a token is exchanged once: without a dropped connection or
\* a killed app, a session has at most one unused refresh token, whatever sign-outs
\* and faults intervene.
OneCurrentToken ==
    (used["drops"] = 0 /\ used["kills"] = 0) =>
        \A k, n \in Token :
            (/\ token[k].session # None /\ token[k].session = token[n].session
             /\ ~token[k].used /\ ~token[n].used) => k = n

\* Without an interruption a session is one chain of tokens, and its end is on the phone.
OneChain == NoSpuriousReplay /\ OneCurrentToken

\* A sign-out the server heard is final: whatever an overlapping refresh has put
\* back on the phone belongs to a dead session.
SignOutFinal ==
    (signedOut /\ used["faults"] = 0 /\ used["expiries"] = 0 /\ store.access # None)
        => session[store.access] # "live"

\* A session that lives can be refreshed, until a sign-out ends it for good.
LiveUntilSignOut == NeverLockedOut /\ SignOutFinal
=============================================================================
