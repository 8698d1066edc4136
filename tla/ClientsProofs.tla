----------------------------- MODULE ClientsProofs -----------------------------
(***************************************************************************)
(* Of what MCClients checks, for any number of sessions, tokens, refreshes *)
(* and interruptions: the tokens of a phone's sessions form chains, and a  *)
(* sign-out is final.  For any number of links, executions and failures: a *)
(* connection's runs all end and say how they went, what they wrote is     *)
(* derived, and none starts once the connection is switched off.           *)
(*                                                                         *)
(* None of the phone's is inductive.  That a token is used once needs what *)
(* the phone stores, holds and waits for: one refresh at a time, whose     *)
(* token nobody else has.  That a sign-out is final needs what an          *)
(* overlapping refresh may still bring back: tokens of the session that is *)
(* revoked.  The connection's verdict needs the tally of its links, and    *)
(* that nothing starts needs when an execution has read the row.           *)
(***************************************************************************)
EXTENDS MCClients, Sequences, FiniteSetTheorems, TLAPS

\* What stands for nothing is no session, token or promise.
NoneApart == None \notin Session \union Token \union Slot

-----------------------------------------------------------------------------
(* The phone: the invariant                                                *)

Calm == used["drops"] = 0 /\ used["kills"] = 0
Heard == used["faults"] = 0 /\ used["expiries"] = 0

Known(k) == k \in Token /\ token[k].age # "none"

\* What is stored, held or under way refers to tokens that were issued, with the access token
\* of the same session where it is a pair that the server has just answered; their sessions
\* exist.
Whole(pair) == Known(pair.refresh) /\ token[pair.refresh].session = pair.access

Rooted ==
    \A k \in Token : Known(k) =>
        token[k].session \in Session /\ session[token[k].session] # "none"

Referred ==
    /\ store.refresh # None => Known(store.refresh)
    /\ \A i \in Slot : refresh[i].pc = "save" => Whole(refresh[i].pair)
    /\ \A q \in Request : request[q].pc = "issued" =>
         /\ Whole(request[q].answer)
         /\ request[q].answer.access = token[request[q].token].session
    /\ ui.pc = "signingIn" => Whole(ui.pair)
    /\ ui.pc = "revoking" => Known(ui.pair.refresh)

Young == used["expiries"] = 0 => \A k \in Token : token[k].age \in {"none", "fresh"}

Held == Rooted /\ Referred /\ Young

\* One refresh at a time, whose promise one request at most will settle.
OneAtATime ==
    /\ \A i, j \in Slot : refresh[i].pc # "idle" /\ refresh[j].pc # "idle" => i = j
    /\ \A q \in Request : request[q].slot # None =>
         request[q].pc # "idle" /\ refresh[request[q].slot].pc = "sent"
    /\ \A q, p \in Request : request[q].slot # None /\ request[p].slot # None => q = p

\* The tokens a pair that is on its way to the phone could bring.
Coming(k) ==
    \/ \E q \in Request : request[q].pc = "issued" /\ request[q].answer.refresh = k
    \/ \E i \in Slot : refresh[i].pc = "save" /\ refresh[i].pair.refresh = k

\* Without a dropped connection or a killed app whoever sent a request still waits for it, ...
Awaited == \A q \in Request : request[q].pc # "idle" => request[q].slot # None

\* ... what was sent, is coming or is stored has not been used, unless its successor is
\* coming, ...
Unused ==
    /\ \A q \in Request : /\ request[q].pc # "replay"
                          /\ request[q].pc \in {"lookup", "commit"} => ~token[request[q].token].used
    /\ \A k \in Token : Coming(k) => ~token[k].used
    /\ store.refresh # None /\ token[store.refresh].used => \E k \in Token : Coming(k)

\* ... and what signing in has just obtained is nowhere else.
Apart ==
    ui.pc = "signingIn" =>
        /\ ~token[ui.pair.refresh].used
        /\ store.refresh # ui.pair.refresh /\ ~Coming(ui.pair.refresh)
        /\ \A q \in Request : request[q].pc # "idle" => request[q].token # ui.pair.refresh

Chain == Calm => Awaited /\ Unused /\ Apart

Live(s) == session[s] = "live"

\* The sessions whose tokens the phone stores, or still waits for.
Within(s) ==
    \/ store.refresh # None /\ token[store.refresh].session = s
    \/ \E q \in Request : request[q].slot # None /\ token[request[q].token].session = s
    \/ \E i \in Slot : refresh[i].pc = "save" /\ refresh[i].pair.access = s

\* The phone refreshes by the token it stores, and signs out by it: as long as the server
\* hears of sign-outs and no token expires, what is within it while it signs out is of the
\* session that is revoked, and what is within it afterwards is of none that lives.
Leaving ==
    Heard => \A s \in Session : Within(s) /\ Live(s) =>
        /\ ui.pc \in {"in", "revoking"} /\ ~signedOut
        /\ ui.pc = "in" => store.refresh # None /\ token[store.refresh].session = s
        /\ ui.pc = "revoking" => token[ui.pair.refresh].session = s

\* The session of a stored access token has been made.
Accessed == store.access # None => store.access \in Session /\ session[store.access] # "none"

PhoneInv ==
    /\ TypeOK /\ Held /\ OneAtATime /\ Chain /\ OneChain /\ NeverLockedOut
    /\ Leaving /\ Accessed /\ SignOutFinal

-----------------------------------------------------------------------------
(* The phone: types                                                        *)

Requests == [pc : {"idle", "lookup", "replay", "commit", "issued", "rejected", "failed"},
             token : Token \union {None}, slot : Slot \union {None}, answer : Pair]
Refreshes == [pc : {"idle", "sent", "save", "clear"}, pair : Pair]

\* Spending a bound leaves the others alone.
LEMMA SpendType ==
    ASSUME used \in [Bounds -> Nat], NEW b \in Bounds, Spend(b)
    PROVE  /\ used' \in [Bounds -> Nat] /\ used'[b] > 0
           /\ \A d \in Bounds : used'[d] >= used[d] /\ (d # b => used'[d] = used[d])
BY DEF Spend

\* A token that is issued was not, and stands for the session from then on.
LEMMA IssuedToken ==
    ASSUME NoneApart, Unissued # {}, NEW s \in Session, NEW rows \in [Token -> TokenRow]
    PROVE  /\ NextToken \in Token /\ token[NextToken].age = "none" /\ NextToken # None
           /\ Issued(NextToken, s, rows) \in [Token -> TokenRow]
           /\ LET t == Issued(NextToken, s, rows)
              IN  /\ t[NextToken].session = s /\ ~t[NextToken].used /\ t[NextToken].age = "fresh"
                  /\ \A k \in Token : k # NextToken => t[k] = rows[k]
<1>1. NextToken \in Unissued
  BY DEF NextToken
<1>2. NextToken \in Token /\ token[NextToken].age = "none" /\ NextToken # None
  BY <1>1 DEF Unissued, NoneApart
<1> DEFINE row == [session |-> s, used |-> FALSE, age |-> "fresh"]
<1>3. row \in TokenRow /\ row.session = s /\ ~row.used /\ row.age = "fresh"
  BY DEF TokenRow, NoneApart
<1> HIDE DEF row
<1>4. Issued(NextToken, s, rows) = [rows EXCEPT ![NextToken] = row]
  BY DEF Issued, row
<1> QED BY <1>2, <1>3, <1>4

\* A token that is marked used is otherwise the same.
LEMMA UsedToken ==
    ASSUME TypeOK, NEW k \in Token
    PROVE  LET rows == [token EXCEPT ![k].used = TRUE]
           IN  /\ rows \in [Token -> TokenRow]
               /\ rows[k].used /\ rows[k].session = token[k].session /\ rows[k].age = token[k].age
               /\ \A n \in Token : n # k => rows[n] = token[n]
<1>1. token \in [Token -> TokenRow] /\ token[k] \in TokenRow
  BY DEF TypeOK
<1> DEFINE row == [token[k] EXCEPT !.used = TRUE]
<1>2. row \in TokenRow /\ row.used /\ row.session = token[k].session /\ row.age = token[k].age
  BY <1>1 DEF TokenRow
<1>3. [token EXCEPT ![k].used = TRUE] = [token EXCEPT ![k] = row]
  BY <1>1
<1> HIDE DEF row
<1> QED BY <1>1, <1>2, <1>3

\* Time only ages a token.
LEMMA AgedToken ==
    ASSUME TypeOK, NEW k \in Token, token[k].age # "none", NEW age \in {"expired", "pruned"}
    PROVE  LET rows == [token EXCEPT ![k].age = age]
           IN  /\ rows \in [Token -> TokenRow]
               /\ rows[k].age = age
               /\ \A n \in Token : rows[n].used = token[n].used /\ rows[n].session = token[n].session
                                   /\ (rows[n].age = "none" <=> token[n].age = "none")
<1>1. token \in [Token -> TokenRow] /\ token[k] \in TokenRow
  BY DEF TypeOK
<1> DEFINE row == [token[k] EXCEPT !.age = age]
<1>2. row \in TokenRow /\ row.used = token[k].used /\ row.session = token[k].session
      /\ row.age = age
  BY <1>1 DEF TokenRow
<1>3. [token EXCEPT ![k].age = age] = [token EXCEPT ![k] = row]
  BY <1>1
<1> HIDE DEF row
<1> QED BY <1>1, <1>2, <1>3

\* A request moves on: only where it is changes.
LEMMA MovedRequest ==
    ASSUME TypeOK, NEW q \in Request,
           NEW pc \in {"idle", "lookup", "replay", "commit", "issued", "rejected", "failed"}
    PROVE  LET r == [request EXCEPT ![q].pc = pc]
           IN  /\ r \in [Request -> Requests]
               /\ r[q].pc = pc /\ r[q].token = request[q].token /\ r[q].slot = request[q].slot
               /\ r[q].answer = request[q].answer
               /\ \A p \in Request : p # q => r[p] = request[p]
<1>1. request \in [Request -> Requests] /\ request[q] \in Requests
  BY DEF TypeOK, Requests
<1> DEFINE e == [request[q] EXCEPT !.pc = pc]
<1>2. /\ e \in Requests /\ e.pc = pc /\ e.token = request[q].token /\ e.slot = request[q].slot
      /\ e.answer = request[q].answer
  BY <1>1 DEF Requests
<1>3. [request EXCEPT ![q].pc = pc] = [request EXCEPT ![q] = e]
  BY <1>1
<1> HIDE DEF e
<1> QED BY <1>1, <1>2, <1>3

\* Whatever the row and the session say, there is a verdict.
LEMMA VerdictType ==
    ASSUME NEW k
    PROVE  Verdict(k) \in {"rejected", "replay", "commit"}
BY DEF Verdict

-----------------------------------------------------------------------------
(* The phone: what the steps of a refresh do                               *)

\* The request q has moved to pc, and the others have not moved.
Moved(q, pc) ==
    /\ request' \in [Request -> Requests]
    /\ request'[q].pc = pc /\ request'[q].token = request[q].token
    /\ request'[q].slot = request[q].slot
    /\ \A p \in Request : p # q => request'[p] = request[p]

\* A look at the row leaves the request where its verdict sends it.
LEMMA LookupFields ==
    ASSUME TypeOK, NEW q \in Request, Lookup(q)
    PROVE  Moved(q, Verdict(request[q].token)) /\ request'[q].answer = request[q].answer
<1>1. ASSUME NEW v \in {"idle", "lookup", "replay", "commit", "issued", "rejected", "failed"},
             v = Verdict(request[q].token)
      PROVE  Moved(q, v) /\ request'[q].answer = request[q].answer
  <2>1. request' = [request EXCEPT ![q].pc = v]
    BY <1>1 DEF Lookup
  <2> DEFINE e == [request[q] EXCEPT !.pc = v]
  <2>2. request \in [Request -> Requests] /\ request[q] \in Requests
    BY DEF TypeOK, Requests
  <2>3. /\ e \in Requests /\ e.pc = v /\ e.token = request[q].token
        /\ e.slot = request[q].slot /\ e.answer = request[q].answer
    BY <2>2 DEF Requests
  <2>4. request' = [request EXCEPT ![q] = e]
    BY <2>1, <2>2
  <2> HIDE DEF e
  <2> QED BY <2>2, <2>3, <2>4 DEF Moved
<1>2. Verdict(request[q].token) \in
        {"idle", "lookup", "replay", "commit", "issued", "rejected", "failed"}
  BY VerdictType
<1> QED BY <1>1, <1>2

\* A replay ends rejected.
LEMMA ReplayFields ==
    ASSUME TypeOK, NEW q \in Request, Replay(q)
    PROVE  Moved(q, "rejected")
BY MovedRequest DEF Replay, Moved

\* A fault ends failed, and is counted.
LEMMA FaultFields ==
    ASSUME TypeOK, NEW q \in Request, Fault(q)
    PROVE  /\ Moved(q, "failed")
           /\ used' \in [Bounds -> Nat] /\ used'["faults"] > 0
           /\ used'["drops"] = used["drops"] /\ used'["kills"] = used["kills"]
<1>1. used \in [Bounds -> Nat] /\ Spend("faults") /\ "faults" \in Bounds
  BY DEF Fault, TypeOK, Bounds
<1> QED BY <1>1, SpendType, MovedRequest DEF Fault, Moved, Bounds

\* A commit uses up the token of its request, and answers with a new one of its session.
LEMMA CommitFields ==
    ASSUME NoneApart, TypeOK, NEW q \in Request, Commit(q)
    PROVE  /\ Known(request[q].token) /\ token[request[q].token].session \in Session
           /\ NextToken \in Token /\ token[NextToken].age = "none" /\ NextToken # None
           /\ token' \in [Token -> TokenRow]
           /\ token'[NextToken].session = token[request[q].token].session
           /\ ~token'[NextToken].used /\ token'[NextToken].age = "fresh"
           /\ token'[request[q].token].used
           /\ token'[request[q].token].session = token[request[q].token].session
           /\ token'[request[q].token].age = token[request[q].token].age
           /\ \A k \in Token : k # NextToken /\ k # request[q].token => token'[k] = token[k]
           /\ Moved(q, "issued")
           /\ request'[q].answer.access = token[request[q].token].session
           /\ request'[q].answer.refresh = NextToken
<1> DEFINE k == request[q].token
           s == token[k].session
           rows == [token EXCEPT ![k].used = TRUE]
           t == Issued(NextToken, s, rows)
           answer == [access |-> s, refresh |-> NextToken]
           e == [request[q] EXCEPT !.pc = "issued", !.answer = answer]
<1>1. /\ request[q].pc = "commit" /\ Unissued # {} /\ token' = t
      /\ request' = [request EXCEPT ![q].pc = "issued", ![q].answer = answer]
  BY DEF Commit
<1>2. request \in [Request -> Requests] /\ request[q] \in Requests
  BY DEF TypeOK, Requests
<1>3. k \in Token /\ token[k].age # "none" /\ token[k] \in TokenRow
  BY <1>1, <1>2 DEF TypeOK, Requests
<1>4. s \in Session
  BY <1>3 DEF TokenRow
<1> HIDE DEF k
<1>5. /\ rows \in [Token -> TokenRow]
      /\ rows[k].used /\ rows[k].session = token[k].session /\ rows[k].age = token[k].age
      /\ \A n \in Token : n # k => rows[n] = token[n]
  BY <1>3, UsedToken
<1> HIDE DEF rows, s
<1>6. /\ NextToken \in Token /\ token[NextToken].age = "none" /\ NextToken # None
      /\ t \in [Token -> TokenRow]
      /\ t[NextToken].session = s /\ ~t[NextToken].used /\ t[NextToken].age = "fresh"
      /\ \A n \in Token : n # NextToken => t[n] = rows[n]
  BY <1>1, <1>4, <1>5, IssuedToken
<1> HIDE DEF t
<1>7. answer \in Pair /\ answer.access = s /\ answer.refresh = NextToken
  BY <1>4, <1>6 DEF Pair
<1> HIDE DEF answer
<1>8. /\ e \in Requests /\ e.pc = "issued" /\ e.token = request[q].token
      /\ e.slot = request[q].slot /\ e.answer = answer
  BY <1>2, <1>7 DEF Requests
<1>9. request' = [request EXCEPT ![q] = e]
  BY <1>1, <1>2
<1> HIDE DEF e
<1>10. Moved(q, "issued") /\ request'[q].answer = answer
  BY <1>2, <1>8, <1>9 DEF Moved
<1> QED BY <1>1, <1>3, <1>4, <1>5, <1>6, <1>7, <1>10 DEF k, s, Known

\* A pair of nothing is a pair, and who is idle has none.
LEMMA IdleTypes ==
    /\ NoPair \in Pair /\ NoPair.access = None /\ NoPair.refresh = None
    /\ IdleRefresh \in Refreshes /\ IdleRefresh.pc = "idle"
    /\ IdleRequest \in Requests /\ IdleRequest.pc = "idle" /\ IdleRequest.slot = None
BY DEF NoPair, Pair, IdleRefresh, Refreshes, IdleRequest, Requests

\* What an answer makes of the refresh that waits for it.
Outcome(r) ==
    CASE r.pc = "issued"   -> [pc |-> "save", pair |-> r.answer]
      [] r.pc = "rejected" -> [pc |-> "clear", pair |-> NoPair]
      [] OTHER             -> IdleRefresh

\* The outcome saves exactly what was issued.
LEMMA OutcomeType ==
    ASSUME NEW r \in Requests
    PROVE  /\ Outcome(r) \in Refreshes /\ Outcome(r).pc \in {"idle", "save", "clear"}
           /\ (Outcome(r).pc = "save" <=> r.pc = "issued")
           /\ Outcome(r).pc = "save" => Outcome(r).pair = r.answer
<1>1. r.answer \in Pair
  BY DEF Requests
<1>2. CASE r.pc = "issued"
  BY <1>1, <1>2 DEF Outcome, Refreshes
<1>3. CASE r.pc = "rejected"
  BY <1>3, IdleTypes DEF Outcome, Refreshes
<1>4. CASE r.pc \notin {"issued", "rejected"}
  BY <1>4, IdleTypes DEF Outcome, Refreshes
<1> QED BY <1>2, <1>3, <1>4

\* An answer ends its request, and moves on the refresh that waits for it.
LEMMA RespondFields ==
    ASSUME NoneApart, TypeOK, NEW q \in Request, Respond(q)
    PROVE  /\ request' \in [Request -> Requests]
           /\ request'[q] = IdleRequest
           /\ \A p \in Request : p # q => request'[p] = request[p]
           /\ refresh' \in [Slot -> Refreshes]
           /\ \A i \in Slot : i # request[q].slot => refresh'[i] = refresh[i]
           /\ request[q].slot # None =>
                /\ request[q].slot \in Slot
                /\ refresh'[request[q].slot] = Outcome(request[q])
           /\ request[q].slot = None => refresh' = refresh
<1>1. /\ request \in [Request -> Requests] /\ request[q] \in Requests
      /\ refresh \in [Slot -> Refreshes] /\ request[q].slot \in Slot \union {None}
  BY DEF TypeOK, Requests, Refreshes
<1>2. request' = [request EXCEPT ![q] = IdleRequest]
  BY DEF Respond
<1>3. refresh' = IF request[q].slot = None THEN refresh
                 ELSE [refresh EXCEPT ![request[q].slot] = Outcome(request[q])]
  BY DEF Respond, Outcome
<1>4. Outcome(request[q]) \in Refreshes
  BY <1>1, OutcomeType
<1> QED BY <1>1, <1>2, <1>3, <1>4, IdleTypes

\* A dropped connection leaves the request on its own, and the refresh over.
LEMMA DropFields ==
    ASSUME NoneApart, TypeOK, NEW q \in Request, Drop(q)
    PROVE  /\ request' \in [Request -> Requests]
           /\ request'[q].pc = request[q].pc /\ request'[q].token = request[q].token
           /\ request'[q].answer = request[q].answer /\ request'[q].slot = None
           /\ \A p \in Request : p # q => request'[p] = request[p]
           /\ request[q].slot \in Slot
           /\ refresh' \in [Slot -> Refreshes] /\ refresh'[request[q].slot] = IdleRefresh
           /\ \A i \in Slot : i # request[q].slot => refresh'[i] = refresh[i]
           /\ used' \in [Bounds -> Nat] /\ used'["drops"] > 0
           /\ used'["faults"] = used["faults"] /\ used'["expiries"] = used["expiries"]
<1>1. /\ request \in [Request -> Requests] /\ request[q] \in Requests
      /\ refresh \in [Slot -> Refreshes] /\ request[q].slot \in Slot
  BY DEF TypeOK, Requests, Refreshes, Drop
<1> DEFINE e == [request[q] EXCEPT !.slot = None]
<1>2. /\ e \in Requests /\ e.pc = request[q].pc /\ e.token = request[q].token
      /\ e.answer = request[q].answer /\ e.slot = None
  BY <1>1 DEF Requests
<1>3. request' = [request EXCEPT ![q] = e]
  BY <1>1 DEF Drop
<1> HIDE DEF e
<1>4. refresh' = [refresh EXCEPT ![request[q].slot] = IdleRefresh]
  BY DEF Drop
<1>5. used \in [Bounds -> Nat] /\ Spend("drops") /\ {"drops", "faults", "expiries"} \subseteq Bounds
  BY DEF Drop, TypeOK, Bounds
<1>6. /\ used' \in [Bounds -> Nat] /\ used'["drops"] > 0
      /\ used'["faults"] = used["faults"] /\ used'["expiries"] = used["expiries"]
  BY <1>5, SpendType
<1> QED BY <1>1, <1>2, <1>3, <1>4, <1>6, IdleTypes

\* A refresh that begins has the stored token sent.
LEMMA BeginFields ==
    ASSUME TypeOK, NEW i \in Slot, NEW q \in Request, BeginRefresh(i, q)
    PROVE  /\ request' \in [Request -> Requests]
           /\ request'[q].pc = "lookup" /\ request'[q].token = store.refresh
           /\ request'[q].slot = i
           /\ \A p \in Request : p # q => request'[p] = request[p]
           /\ refresh' \in [Slot -> Refreshes] /\ refresh'[i].pc = "sent"
           /\ \A j \in Slot : j # i => refresh'[j] = refresh[j]
<1>1. /\ request \in [Request -> Requests] /\ refresh \in [Slot -> Refreshes]
      /\ refresh[i] \in Refreshes /\ store.refresh \in Token \union {None}
  BY DEF TypeOK, Requests, Refreshes, Pair
<1> DEFINE e == [IdleRequest EXCEPT !.pc = "lookup", !.token = store.refresh, !.slot = i]
           f == [refresh[i] EXCEPT !.pc = "sent"]
<1>2. e \in Requests /\ e.pc = "lookup" /\ e.token = store.refresh /\ e.slot = i
  BY <1>1, IdleTypes DEF Requests
<1>3. f \in Refreshes /\ f.pc = "sent"
  BY <1>1 DEF Refreshes
<1>4. request' = [request EXCEPT ![q] = e] /\ refresh' = [refresh EXCEPT ![i] = f]
  BY <1>1 DEF BeginRefresh
<1> HIDE DEF e, f
<1> QED BY <1>1, <1>2, <1>3, <1>4

\* A refresh that is over, saved or cleared, leaves the others alone.
LEMMA OverFields ==
    ASSUME TypeOK, NEW i \in Slot, Save(i) \/ Clear(i)
    PROVE  /\ refresh' \in [Slot -> Refreshes] /\ refresh'[i] = IdleRefresh
           /\ \A j \in Slot : j # i => refresh'[j] = refresh[j]
           /\ refresh[i].pair \in Pair
           /\ UNCHANGED <<server, request, ui, signedOut, used>>
BY IdleTypes DEF TypeOK, Refreshes, Save, Clear

\* A killed app forgets its refreshes; what it has stored is what it had, or some of what it
\* was about to store.
LEMMA KillFields ==
    ASSUME TypeOK, Kill
    PROVE  /\ request' \in [Request -> Requests]
           /\ \A q \in Request : /\ request'[q].pc = request[q].pc
                                 /\ request'[q].token = request[q].token
                                 /\ request'[q].answer = request[q].answer
                                 /\ request'[q].slot = None
           /\ refresh' = [i \in Slot |-> IdleRefresh] /\ refresh' \in [Slot -> Refreshes]
           /\ store' \in Pair
           /\ \/ store'.access = store.access
              \/ \E i \in Slot : refresh[i].pc = "save" /\ store'.access = refresh[i].pair.access
           /\ \/ store'.refresh = store.refresh
              \/ \E i \in Slot : refresh[i].pc = "save" /\ store'.refresh = refresh[i].pair.refresh
           /\ ui' = [pc |-> IF store'.refresh = None THEN "out" ELSE "in", pair |-> NoPair]
           /\ due' \in BOOLEAN
           /\ used' \in [Bounds -> Nat] /\ used'["kills"] > 0
           /\ used'["faults"] = used["faults"] /\ used'["expiries"] = used["expiries"]
<1>1. /\ request \in [Request -> Requests] /\ store \in Pair
      /\ \A i \in Slot : refresh[i].pair \in Pair
  BY DEF TypeOK, Requests
<1>2. ASSUME NEW q \in Request
      PROVE  LET e == [request[q] EXCEPT !.slot = None]
             IN  /\ e \in Requests /\ e.pc = request[q].pc /\ e.token = request[q].token
                 /\ e.answer = request[q].answer /\ e.slot = None
  BY <1>1 DEF Requests
<1>3. request' = [q \in Request |-> [request[q] EXCEPT !.slot = None]]
  BY DEF Kill
<1>4. /\ request' \in [Request -> Requests]
      /\ \A q \in Request : /\ request'[q].pc = request[q].pc
                            /\ request'[q].token = request[q].token
                            /\ request'[q].answer = request[q].answer
                            /\ request'[q].slot = None
  BY <1>2, <1>3
<1>5. PICK pair \in {refresh[i].pair : i \in {j \in Slot : refresh[j].pc = "save"}}
                     \union {store} :
         \E access \in {store.access, pair.access}, key \in {store.refresh, pair.refresh} :
            /\ store' = [access |-> access, refresh |-> key]
            /\ ui' = [pc |-> IF key = None THEN "out" ELSE "in", pair |-> NoPair]
  BY DEF Kill
<1>6. pair \in Pair
  BY <1>1, <1>5
<1>7. PICK access \in {store.access, pair.access}, key \in {store.refresh, pair.refresh} :
            /\ store' = [access |-> access, refresh |-> key]
            /\ ui' = [pc |-> IF key = None THEN "out" ELSE "in", pair |-> NoPair]
  BY <1>5
<1>8. store' \in Pair /\ store'.access = access /\ store'.refresh = key
  BY <1>1, <1>6, <1>7 DEF Pair
<1>9. used \in [Bounds -> Nat] /\ Spend("kills") /\ {"kills", "faults", "expiries"} \subseteq Bounds
  BY DEF Kill, TypeOK, Bounds
<1>10. /\ used' \in [Bounds -> Nat] /\ used'["kills"] > 0
       /\ used'["faults"] = used["faults"] /\ used'["expiries"] = used["expiries"]
  BY <1>9, SpendType
<1>11. refresh' = [i \in Slot |-> IdleRefresh] /\ due' \in BOOLEAN
  BY DEF Kill, TypeOK
<1>12. /\ \/ store'.access = store.access
          \/ \E i \in Slot : refresh[i].pc = "save" /\ store'.access = refresh[i].pair.access
       /\ \/ store'.refresh = store.refresh
          \/ \E i \in Slot : refresh[i].pc = "save" /\ store'.refresh = refresh[i].pair.refresh
  BY <1>5, <1>7, <1>8
<1>13. ui' = [pc |-> IF store'.refresh = None THEN "out" ELSE "in", pair |-> NoPair]
  BY <1>7, <1>8
<1> QED BY <1>4, <1>8, <1>10, <1>11, <1>12, <1>13, IdleTypes

-----------------------------------------------------------------------------
(* The phone: what the steps of signing in and out do                      *)

\* Signing in makes a session that was none, and a token of it.
LEMMA SignInFields ==
    ASSUME NoneApart, TypeOK, SignIn
    PROVE  /\ NextToken \in Token /\ token[NextToken].age = "none" /\ NextToken # None
           /\ NextSession \in Session /\ session[NextSession] = "none"
           /\ token' \in [Token -> TokenRow]
           /\ token'[NextToken].session = NextSession
           /\ ~token'[NextToken].used /\ token'[NextToken].age = "fresh"
           /\ \A k \in Token : k # NextToken => token'[k] = token[k]
           /\ session' \in [Session -> {"none", "live", "revoked", "replayed"}]
           /\ session'[NextSession] = "live"
           /\ \A s \in Session : s # NextSession => session'[s] = session[s]
           /\ ui' = [pc |-> "signingIn", pair |-> [access |-> NextSession, refresh |-> NextToken]]
           /\ ui'.pc = "signingIn" /\ ui'.pair \in Pair
           /\ ui'.pair.access = NextSession /\ ui'.pair.refresh = NextToken
<1>1. NextSession \in Session /\ session[NextSession] = "none"
  BY DEF SignIn, NextSession
<1>2. token \in [Token -> TokenRow] /\ Unissued # {}
      /\ token' = Issued(NextToken, NextSession, token)
  BY DEF TypeOK, SignIn
<1>3. /\ NextToken \in Token /\ token[NextToken].age = "none" /\ NextToken # None
      /\ token' \in [Token -> TokenRow]
      /\ token'[NextToken].session = NextSession
      /\ ~token'[NextToken].used /\ token'[NextToken].age = "fresh"
      /\ \A k \in Token : k # NextToken => token'[k] = token[k]
  BY <1>1, <1>2, IssuedToken
<1>4. session' = [session EXCEPT ![NextSession] = "live"]
      /\ ui' = [pc |-> "signingIn", pair |-> [access |-> NextSession, refresh |-> NextToken]]
  BY DEF SignIn
<1>5. session \in [Session -> {"none", "live", "revoked", "replayed"}]
  BY DEF TypeOK
<1>6. [access |-> NextSession, refresh |-> NextToken] \in Pair
  BY <1>1, <1>3 DEF Pair
<1> QED BY <1>1, <1>3, <1>4, <1>5, <1>6

\* A session ends at most, and only if it was live.
Ended(s, why) ==
    /\ session' \in [Session -> {"none", "live", "revoked", "replayed"}]
    /\ session'[s] # "live"
    /\ session[s] = "live" => session'[s] = why
    /\ session[s] # "live" => session'[s] = session[s]
    /\ \A t \in Session : t # s => session'[t] = session[t]

\* Revoking a session ends it.
LEMMA RevokedEnds ==
    ASSUME TypeOK, NEW s \in Session, NEW why \in {"revoked", "replayed"},
           session' = Revoked(s, why, session)
    PROVE  Ended(s, why)
BY DEF TypeOK, Revoked, Ended

\* Signing out takes the stored pair along.
LEMMA SignOutFields ==
    ASSUME TypeOK, SignOut
    PROVE  /\ ui'.pc \in {"clearing", "revoking"} /\ ui'.pair \in Pair
           /\ ui' \in [pc : {"out", "signingIn", "in", "revoking", "clearing"}, pair : Pair]
           /\ ui'.pc = "revoking" => store.refresh # None /\ ui'.pair = store
           /\ ui'.pc = "clearing" => store.refresh = None
<1>1. store \in Pair
  BY DEF TypeOK
<1>2. CASE store.refresh = None
  BY <1>2, IdleTypes DEF SignOut
<1>3. CASE store.refresh # None
  BY <1>1, <1>3 DEF SignOut
<1> QED BY <1>2, <1>3

-----------------------------------------------------------------------------
(* The phone: the types are kept                                           *)

\* Nobody is signed in, nothing is issued: that is typed.
LEMMA PhoneInitType == Init => TypeOK
<1> SUFFICES ASSUME Init PROVE TypeOK
  OBVIOUS
<1>1. [session |-> None, used |-> FALSE, age |-> "none"] \in TokenRow
  BY DEF TokenRow
<1>2. /\ session \in [Session -> {"none", "live", "revoked", "replayed"}]
      /\ token \in [Token -> TokenRow]
  BY <1>1 DEF Init
<1>3. request \in [Request -> Requests] /\ refresh \in [Slot -> Refreshes]
      /\ \A q \in Request : request[q].pc = "idle"
  BY IdleTypes DEF Init
<1>4. store \in Pair /\ ui \in [pc : {"out", "signingIn", "in", "revoking", "clearing"}, pair : Pair]
  BY IdleTypes DEF Init
<1> QED BY <1>2, <1>3, <1>4 DEF Init, TypeOK, Requests, Refreshes

\* What a request is about has been issued, as long as rows stay and requests keep to it.
Asked(rows, reqs) ==
    \A p \in Request : reqs[p].pc # "idle" => reqs[p].token # None /\ rows[reqs[p].token].age # "none"

\* The requests' part of the types, with the rest.
LEMMA TypesFromParts ==
    /\ (TypeOK <=>
        /\ session \in [Session -> {"none", "live", "revoked", "replayed"}]
        /\ token \in [Token -> TokenRow] /\ request \in [Request -> Requests]
        /\ Asked(token, request)
        /\ store \in Pair /\ due \in BOOLEAN /\ refresh \in [Slot -> Refreshes]
        /\ ui \in [pc : {"out", "signingIn", "in", "revoking", "clearing"}, pair : Pair]
        /\ signedOut \in BOOLEAN /\ used \in [Bounds -> Nat])
    /\ (TypeOK' <=>
        /\ session' \in [Session -> {"none", "live", "revoked", "replayed"}]
        /\ token' \in [Token -> TokenRow] /\ request' \in [Request -> Requests]
        /\ Asked(token', request')
        /\ store' \in Pair /\ due' \in BOOLEAN /\ refresh' \in [Slot -> Refreshes]
        /\ ui' \in [pc : {"out", "signingIn", "in", "revoking", "clearing"}, pair : Pair]
        /\ signedOut' \in BOOLEAN /\ used' \in [Bounds -> Nat])
BY DEF TypeOK, Requests, Refreshes, Asked

\* Rows that are issued stay so, and requests that ask for something ask for the same.
LEMMA AskedStays ==
    ASSUME TypeOK, token' \in [Token -> TokenRow], request' \in [Request -> Requests],
           \A k \in Token : token[k].age # "none" => token'[k].age # "none",
           \A p \in Request : request'[p].pc # "idle" =>
               request[p].pc # "idle" /\ request'[p].token = request[p].token
    PROVE  Asked(token', request')
BY DEF TypeOK, Asked, Requests

\* A refresh's steps on the server keep the types.
LEMMA ServerTypeOK ==
    ASSUME NoneApart, TypeOK, NEW q \in Request,
           Lookup(q) \/ Replay(q) \/ Commit(q) \/ Fault(q) \/ Respond(q) \/ Drop(q)
    PROVE  TypeOK'
<1>0. \A p \in Request : request[p].pc # "idle" =>
        /\ request[p].token # None /\ request[p].token \in Token
        /\ token[request[p].token].age # "none" /\ token[request[p].token].session \in Session
  BY DEF TypeOK, TokenRow
<1>a. /\ session \in [Session -> {"none", "live", "revoked", "replayed"}]
      /\ token \in [Token -> TokenRow] /\ request \in [Request -> Requests]
      /\ store \in Pair /\ due \in BOOLEAN /\ refresh \in [Slot -> Refreshes]
      /\ ui \in [pc : {"out", "signingIn", "in", "revoking", "clearing"}, pair : Pair]
      /\ signedOut \in BOOLEAN /\ used \in [Bounds -> Nat]
  BY TypesFromParts
<1>1. CASE Lookup(q)
  <2>1. UNCHANGED <<server, phone, refresh, used>> /\ request[q].pc = "lookup"
    BY <1>1 DEF Lookup
  <2>2. Asked(token', request')
    BY <1>1, <1>a, <2>1, LookupFields, AskedStays DEF Moved, server
  <2> QED BY <1>1, <1>a, <2>1, <2>2, LookupFields, TypesFromParts DEF Moved, server, phone
<1>2. CASE Replay(q)
  <2>1. Ended(token[request[q].token].session, "replayed")
    BY <1>0, <1>2, RevokedEnds DEF Replay
  <2>2. UNCHANGED <<token, phone, refresh, used>> /\ request[q].pc = "replay"
    BY <1>2 DEF Replay
  <2>3. Asked(token', request')
    BY <1>2, <1>a, <2>2, ReplayFields, AskedStays DEF Moved
  <2> QED BY <1>2, <1>a, <2>1, <2>2, <2>3, ReplayFields, TypesFromParts DEF Moved, phone, Ended
<1>3. CASE Commit(q)
  <2>1. UNCHANGED <<session, phone, refresh, used>> /\ request[q].pc = "commit"
    BY <1>3 DEF Commit
  <2>2. Asked(token', request')
    BY <1>3, <1>a, <2>1, CommitFields, AskedStays DEF Moved, Known
  <2> QED BY <1>3, <1>a, <2>1, <2>2, CommitFields, TypesFromParts DEF Moved, phone
<1>4. CASE Fault(q)
  <2>1. UNCHANGED <<server, phone, refresh>> /\ request[q].pc # "idle"
    BY <1>4 DEF Fault
  <2>2. Asked(token', request')
    BY <1>4, <1>a, <2>1, FaultFields, AskedStays DEF Moved, server
  <2> QED BY <1>4, <1>a, <2>1, <2>2, FaultFields, TypesFromParts DEF Moved, server, phone
<1>5. CASE Respond(q)
  <2>1. UNCHANGED <<server, phone, used>>
    BY <1>5 DEF Respond
  <2>2. Asked(token', request')
    BY <1>5, <1>a, <2>1, RespondFields, AskedStays, IdleTypes DEF server
  <2> QED BY <1>5, <1>a, <2>1, <2>2, RespondFields, TypesFromParts DEF server, phone
<1>6. CASE Drop(q)
  <2>1. UNCHANGED <<server, phone>>
    BY <1>6 DEF Drop
  <2>2. Asked(token', request')
    BY <1>6, <1>a, <2>1, DropFields, AskedStays DEF server
  <2> QED BY <1>6, <1>a, <2>1, <2>2, DropFields, TypesFromParts DEF server, phone
<1> QED BY <1>1, <1>2, <1>3, <1>4, <1>5, <1>6

\* So do revocations from elsewhere, and time.
LEMMA ElsewhereTypeOK ==
    ASSUME NoneApart, TypeOK,
           \/ \E s \in Session : RevokeRemote(s)
           \/ \E k \in Token : Expire(k) \/ Prune(k)
    PROVE  TypeOK'
<1>0. used \in [Bounds -> Nat] /\ {"remote", "expiries"} \subseteq Bounds
  BY DEF TypeOK, Bounds
<1>1. ASSUME NEW s \in Session, RevokeRemote(s) PROVE TypeOK'
  <2>1. Ended(s, "revoked")
    BY <1>1, RevokedEnds DEF RevokeRemote
  <2>2. used' \in [Bounds -> Nat]
    BY <1>0, <1>1, SpendType DEF RevokeRemote
  <2> QED BY <1>1, <2>1, <2>2 DEF TypeOK, RevokeRemote, phone, Ended
<1>a. /\ session \in [Session -> {"none", "live", "revoked", "replayed"}]
      /\ token \in [Token -> TokenRow] /\ request \in [Request -> Requests]
      /\ store \in Pair /\ due \in BOOLEAN /\ refresh \in [Slot -> Refreshes]
      /\ ui \in [pc : {"out", "signingIn", "in", "revoking", "clearing"}, pair : Pair]
      /\ signedOut \in BOOLEAN
  BY TypesFromParts
<1>2. ASSUME NEW k \in Token, Expire(k) PROVE TypeOK'
  <2>1. used' \in [Bounds -> Nat]
    BY <1>0, <1>2, SpendType DEF Expire
  <2>2. /\ token[k].age # "none" /\ UNCHANGED <<session, request, phone, refresh>>
        /\ token' = [token EXCEPT ![k].age = "expired"]
    BY <1>2 DEF Expire
  <2>3. /\ token' \in [Token -> TokenRow]
        /\ \A n \in Token : (token'[n].age = "none" <=> token[n].age = "none")
    BY <2>2, AgedToken
  <2>4. Asked(token', request')
    BY <1>a, <2>2, <2>3, AskedStays
  <2> QED BY <1>a, <2>1, <2>2, <2>3, <2>4, TypesFromParts DEF phone
<1>3. ASSUME NEW k \in Token, Prune(k) PROVE TypeOK'
  <2>2. /\ token[k].age # "none" /\ UNCHANGED <<session, request, phone, refresh, used>>
        /\ token' = [token EXCEPT ![k].age = "pruned"]
    BY <1>3 DEF Prune
  <2>3. /\ token' \in [Token -> TokenRow]
        /\ \A n \in Token : (token'[n].age = "none" <=> token[n].age = "none")
    BY <2>2, AgedToken
  <2>4. Asked(token', request')
    BY <1>a, <2>2, <2>3, AskedStays
  <2> QED BY <1>0, <1>a, <2>2, <2>3, <2>4, TypesFromParts DEF phone
<1> QED BY <1>1, <1>2, <1>3

\* So does what the phone does.
LEMMA PhoneTypeOK ==
    ASSUME NoneApart, TypeOK, Held,
           \/ \E i \in Slot : Save(i) \/ Clear(i) \/ \E q \in Request : BeginRefresh(i, q)
           \/ AccessAges \/ SignIn \/ SignedIn \/ SignOut \/ RevokeArrives \/ RevokeFails
           \/ ClearTokens \/ Gate \/ Kill
    PROVE  TypeOK'
<1>0. /\ used \in [Bounds -> Nat] /\ "faults" \in Bounds /\ store \in Pair
      /\ ui \in [pc : {"out", "signingIn", "in", "revoking", "clearing"}, pair : Pair]
  BY DEF TypeOK, Bounds
<1>1. ASSUME NEW i \in Slot, Save(i) \/ Clear(i) PROVE TypeOK'
  <2>1. store' \in Pair /\ due' \in BOOLEAN
    BY <1>1, OverFields, IdleTypes DEF Save, Clear
  <2> QED BY <1>1, <2>1, OverFields DEF TypeOK, Refreshes, server
<1>2. ASSUME NEW i \in Slot, NEW q \in Request, BeginRefresh(i, q) PROVE TypeOK'
  <2>1. UNCHANGED <<server, phone, used>> /\ Known(store.refresh) /\ store.refresh # None
    BY <1>2 DEF BeginRefresh, Held, Referred
  <2>2. Asked(token', request')
    BY <1>2, <2>1, BeginFields, TypesFromParts DEF Asked, Known, server
  <2> QED BY <1>2, <2>1, <2>2, BeginFields, TypesFromParts DEF server, phone
<1>3. CASE AccessAges
  BY <1>3 DEF TypeOK, AccessAges, server
<1>4. CASE SignIn
  <2>1. UNCHANGED <<request, store, due, refresh, signedOut, used>>
    BY <1>4 DEF SignIn
  <2>2. Asked(token', request')
    BY <1>4, <2>1, SignInFields, AskedStays, TypesFromParts
  <2>3. ui' \in [pc : {"out", "signingIn", "in", "revoking", "clearing"}, pair : Pair]
    BY <1>4, SignInFields
  <2> QED BY <1>4, <2>1, <2>2, <2>3, SignInFields, TypesFromParts
<1>5. CASE SignedIn
  BY <1>0, <1>5, IdleTypes DEF TypeOK, SignedIn, server
<1>6. CASE SignOut
  <2>1. UNCHANGED <<server, request, store, due, refresh, signedOut, used>>
    BY <1>6 DEF SignOut
  <2> QED BY <1>6, <2>1, SignOutFields DEF TypeOK, server
<1>7. CASE RevokeArrives
  BY <1>0, <1>7 DEF TypeOK, RevokeArrives, Revoked
<1>8. CASE RevokeFails
  BY <1>0, <1>8, SpendType, IdleTypes DEF TypeOK, RevokeFails, server
<1>9. CASE ClearTokens
  BY <1>0, <1>9, IdleTypes DEF TypeOK, ClearTokens, server
<1>10. CASE Gate
  BY <1>10, IdleTypes DEF TypeOK, Gate, server
<1>11. CASE Kill
  <2>1. UNCHANGED <<server, signedOut>>
    BY <1>11 DEF Kill
  <2>2. Asked(token', request')
    BY <1>11, <2>1, KillFields, AskedStays, TypesFromParts DEF server
  <2>3. ui' \in [pc : {"out", "signingIn", "in", "revoking", "clearing"}, pair : Pair]
    BY <1>11, KillFields, IdleTypes
  <2> QED BY <1>11, <2>1, <2>2, <2>3, KillFields, TypesFromParts DEF server
<1> QED BY <1>1, <1>2, <1>3, <1>4, <1>5, <1>6, <1>7, <1>8, <1>9, <1>10, <1>11

\* The types are kept by every step.
LEMMA PhoneNextType == NoneApart /\ TypeOK /\ Held /\ [Next]_vars => TypeOK'
<1> SUFFICES ASSUME NoneApart, TypeOK, Held, [Next]_vars PROVE TypeOK'
  OBVIOUS
<1>1. CASE UNCHANGED vars
  BY <1>1 DEF vars, TypeOK
<1>2. CASE Next
  BY <1>2, ServerTypeOK, ElsewhereTypeOK, PhoneTypeOK DEF Next
<1> QED BY <1>1, <1>2

-----------------------------------------------------------------------------
(* The phone: what stays                                                   *)

\* Rows stay of their session and used, sessions stay made and ended, bounds stay spent.
Stays ==
    /\ \A k \in Token : token[k].age # "none" =>
         /\ token'[k].age # "none" /\ token'[k].session = token[k].session
         /\ token[k].used => token'[k].used
    /\ \A s \in Session : session[s] # "none" =>
         session'[s] # "none" /\ (session'[s] = "live" => session[s] = "live")
    /\ \A b \in Bounds : used'[b] >= used[b]

\* A refresh's steps on the server undo nothing of that.
LEMMA ServerStays ==
    ASSUME NoneApart, TypeOK, NEW q \in Request,
           Lookup(q) \/ Replay(q) \/ Commit(q) \/ Fault(q) \/ Respond(q) \/ Drop(q)
    PROVE  Stays
<1>0. used \in [Bounds -> Nat] /\ {"faults", "drops"} \subseteq Bounds
  BY DEF TypeOK, Bounds
<1>1. CASE Lookup(q) \/ Respond(q)
  BY <1>0, <1>1 DEF Lookup, Respond, server, Stays
<1>2. CASE Replay(q)
  <2>1. request[q].pc = "replay" /\ UNCHANGED <<token, used>>
        /\ session' = Revoked(token[request[q].token].session, "replayed", session)
    BY <1>2 DEF Replay
  <2>2. token[request[q].token].session \in Session
    BY <2>1 DEF TypeOK, TokenRow
  <2> QED BY <1>0, <2>1, <2>2, RevokedEnds DEF Stays, Ended
<1>3. CASE Commit(q)
  <2>1. UNCHANGED <<session, used>>
    BY <1>3 DEF Commit
  <2> QED BY <1>0, <1>3, <2>1, CommitFields DEF Stays
<1>4. CASE Fault(q)
  <2>1. UNCHANGED <<session, token>> /\ Spend("faults")
    BY <1>4 DEF Fault, server
  <2> QED BY <1>0, <2>1, SpendType DEF Stays
<1>5. CASE Drop(q)
  <2>1. UNCHANGED <<session, token>> /\ Spend("drops")
    BY <1>5 DEF Drop, server
  <2> QED BY <1>0, <2>1, SpendType DEF Stays
<1> QED BY <1>1, <1>2, <1>3, <1>4, <1>5

\* No step undoes any of that.
LEMMA NextStays ==
    ASSUME NoneApart, TypeOK, Held, [Next]_vars
    PROVE  Stays
<1>0. /\ used \in [Bounds -> Nat] /\ {"faults", "remote", "expiries", "kills"} \subseteq Bounds
      /\ token \in [Token -> TokenRow]
  BY DEF TypeOK, Bounds
<1>1. ASSUME NEW s \in Session, RevokeRemote(s) PROVE Stays
  <2>1. token' = token /\ Spend("remote")
    BY <1>1 DEF RevokeRemote
  <2>2. Ended(s, "revoked")
    BY <1>1, RevokedEnds DEF RevokeRemote
  <2> QED BY <1>0, <2>1, <2>2, SpendType DEF Stays, Ended
<1>2. ASSUME NEW k \in Token, Expire(k) PROVE Stays
  <2>1. token[k].age # "none" /\ session' = session /\ Spend("expiries")
        /\ token' = [token EXCEPT ![k].age = "expired"]
    BY <1>2 DEF Expire
  <2>2. \A n \in Token : token'[n].used = token[n].used /\ token'[n].session = token[n].session
                         /\ (token'[n].age = "none" <=> token[n].age = "none")
    BY <2>1, AgedToken
  <2> QED BY <1>0, <2>1, <2>2, SpendType DEF Stays
<1>3. ASSUME NEW k \in Token, Prune(k) PROVE Stays
  <2>1. token[k].age # "none" /\ UNCHANGED <<session, used>>
        /\ token' = [token EXCEPT ![k].age = "pruned"]
    BY <1>3 DEF Prune
  <2>2. \A n \in Token : token'[n].used = token[n].used /\ token'[n].session = token[n].session
                         /\ (token'[n].age = "none" <=> token[n].age = "none")
    BY <2>1, AgedToken
  <2> QED BY <1>0, <2>1, <2>2 DEF Stays
<1>4. ASSUME UNCHANGED <<session, token>>, UNCHANGED used \/ Spend("faults") \/ Spend("kills")
      PROVE  Stays
  <2>1. \A b \in Bounds : used'[b] >= used[b]
    BY <1>0, <1>4, SpendType
  <2> QED BY <1>4, <2>1 DEF Stays
<1>5. ASSUME NEW i \in Slot, Save(i) \/ Clear(i) \/ \E q \in Request : BeginRefresh(i, q)
      PROVE  Stays
  BY <1>4, <1>5 DEF Save, Clear, BeginRefresh, server
<1>6. CASE SignIn
  <2>1. used' = used
    BY <1>6 DEF SignIn
  <2> QED BY <1>0, <1>6, <2>1, SignInFields DEF Stays
<1>7. CASE RevokeArrives
  <2>1. token' = token /\ used' = used
    BY <1>7 DEF RevokeArrives
  <2>2. CASE session' = session
    BY <1>0, <2>1, <2>2 DEF Stays
  <2>3. CASE session' # session
    <3>1. Known(ui.pair.refresh)
      BY <1>7 DEF RevokeArrives, Held, Referred
    <3>2. token[ui.pair.refresh].session \in Session
      BY <3>1 DEF Held, Rooted, Known
    <3>3. Ended(token[ui.pair.refresh].session, "revoked")
      BY <1>7, <2>3, <3>2, RevokedEnds DEF RevokeArrives
    <3> QED BY <1>0, <2>1, <3>2, <3>3 DEF Stays, Ended
  <2> QED BY <2>2, <2>3
<1>8. CASE AccessAges \/ SignedIn \/ SignOut \/ RevokeFails \/ ClearTokens \/ Gate \/ Kill
  BY <1>4, <1>8 DEF AccessAges, SignedIn, SignOut, RevokeFails, ClearTokens, Gate, Kill, server
<1>9. CASE UNCHANGED vars
  BY <1>4, <1>9 DEF vars
<1> QED BY <1>1, <1>2, <1>3, <1>5, <1>6, <1>7, <1>8, <1>9, ServerStays DEF Next

-----------------------------------------------------------------------------
(* The phone: what is referred to                                          *)

\* A new token is of a session that exists.
LEMMA NextRooted ==
    ASSUME NoneApart, TypeOK, TypeOK', Held, Stays, [Next]_vars
    PROVE  Rooted'
<1>0. /\ token' \in [Token -> TokenRow] /\ token \in [Token -> TokenRow]
      /\ \A k \in Token : token[k].age # "none" =>
           token[k].session \in Session /\ session[token[k].session] # "none"
  BY TypesFromParts DEF Held, Rooted, Known
<1>1. ASSUME NEW k \in Token, token'[k].age # "none"
      PROVE  token'[k].session \in Session /\ session'[token'[k].session] # "none"
  <2>1. CASE token[k].age # "none"
    BY <1>0, <2>1 DEF Stays
  <2>2. CASE token[k].age = "none"
    <3>1. ASSUME NEW q \in Request, Commit(q)
          PROVE  token'[k].session \in Session /\ session'[token'[k].session] # "none"
      <4>1. k = NextToken
        BY <1>1, <2>2, <3>1, CommitFields
      <4>2. session' = session
        BY <3>1 DEF Commit
      <4> QED BY <1>0, <3>1, <4>1, <4>2, CommitFields DEF Known
    <3>2. CASE SignIn
      BY <1>1, <2>2, <3>2, SignInFields
    <3>3. ASSUME NEW n \in Token, Expire(n) \/ Prune(n)
          PROVE  FALSE
      <4>1. PICK age \in {"expired", "pruned"} :
               token' = [token EXCEPT ![n].age = age] /\ token[n].age # "none"
        BY <3>3 DEF Expire, Prune
      <4> QED BY <1>1, <2>2, <4>1, AgedToken
    <3>4. CASE token' = token
      BY <1>1, <2>2, <3>4
    <3> QED BY <3>1, <3>2, <3>3, <3>4
            DEF Next, vars, Lookup, Replay, Fault, Respond, Drop, BeginRefresh, RevokeRemote,
                Save, Clear, AccessAges, SignedIn, SignOut, RevokeArrives, RevokeFails,
                ClearTokens, Gate, Kill, server
  <2> QED BY <2>1, <2>2
<1> QED BY <1>1 DEF Rooted, Known

\* A token expires only when one is left to.
LEMMA NextYoung ==
    ASSUME NoneApart, TypeOK, Held, Stays, [Next]_vars
    PROVE  Young'
<1>0. /\ used \in [Bounds -> Nat] /\ "expiries" \in Bounds /\ token \in [Token -> TokenRow]
      /\ used'["expiries"] >= used["expiries"]
  BY DEF TypeOK, Bounds, Stays
<1> SUFFICES ASSUME used'["expiries"] = 0, NEW k \in Token
             PROVE  token'[k].age \in {"none", "fresh"}
  BY DEF Young
<1>1. used["expiries"] = 0
  BY <1>0
<1>2. \A n \in Token : token[n].age \in {"none", "fresh"}
  BY <1>1 DEF Held, Young
<1>3. ASSUME NEW q \in Request, Commit(q) PROVE token'[k].age \in {"none", "fresh"}
  BY <1>2, <1>3, CommitFields
<1>4. CASE SignIn
  BY <1>2, <1>4, SignInFields
<1>5. ASSUME NEW n \in Token, Expire(n) \/ Prune(n) PROVE FALSE
  <2>1. CASE Expire(n)
    BY <1>0, <2>1, SpendType DEF Expire
  <2>2. CASE Prune(n)
    BY <1>2, <2>2 DEF Prune
  <2> QED BY <1>5, <2>1, <2>2
<1>6. CASE token' = token
  BY <1>2, <1>6
<1> QED BY <1>3, <1>4, <1>5, <1>6
        DEF Next, vars, Lookup, Replay, Fault, Respond, Drop, BeginRefresh, RevokeRemote,
            Save, Clear, AccessAges, SignedIn, SignOut, RevokeArrives, RevokeFails,
            ClearTokens, Gate, Kill, server

\* Tokens stay known, pairs stay whole.
LEMMA KnownStays ==
    ASSUME Stays
    PROVE  /\ \A k : Known(k) => k \in Token /\ token'[k].age # "none"
                                 /\ token'[k].session = token[k].session
           /\ \A pair \in Pair : Whole(pair) =>
                /\ pair.refresh \in Token /\ token'[pair.refresh].age # "none"
                /\ token'[pair.refresh].session = pair.access
BY DEF Stays, Known, Whole

\* Whatever is stored, held or answered next refers to tokens that are known.
LEMMA NextReferred ==
    ASSUME NoneApart, TypeOK, TypeOK', Held, Stays, [Next]_vars
    PROVE  Referred'
<1> DEFINE StoreOK == store.refresh # None => Known(store.refresh)
           RefreshOK == \A i \in Slot : refresh[i].pc = "save" => Whole(refresh[i].pair)
           RequestOK == \A q \in Request : request[q].pc = "issued" =>
                          /\ Whole(request[q].answer)
                          /\ request[q].answer.access = token[request[q].token].session
           UiOK == /\ ui.pc = "signingIn" => Whole(ui.pair)
                   /\ ui.pc = "revoking" => Known(ui.pair.refresh)
<1>0. StoreOK /\ RefreshOK /\ RequestOK /\ UiOK /\ TypeOK
  BY DEF Held, Referred
<1>00. /\ request \in [Request -> Requests] /\ refresh \in [Slot -> Refreshes]
       /\ \A q \in Request : request[q].pc # "idle" => Known(request[q].token)
  BY TypesFromParts DEF Asked, Requests, Known
<1>a. store' = store => StoreOK'
  BY <1>0, KnownStays DEF Known
<1>b. ASSUME NEW i \in Slot, refresh'[i] = refresh[i], refresh'[i].pc = "save"
      PROVE  Whole(refresh[i].pair)'
  BY <1>0, <1>b DEF Whole, Known, Stays
<1>c. ASSUME NEW q \in Request, request'[q].pc = "issued", request[q].pc = "issued",
             request'[q].answer = request[q].answer, request'[q].token = request[q].token
      PROVE  /\ Whole(request[q].answer)'
             /\ request'[q].answer.access = token'[request'[q].token].session
  BY <1>0, <1>00, <1>c DEF Whole, Known, Stays
<1>d. ui' = ui => UiOK'
  BY <1>0 DEF Whole, Known, Stays
<1>e. refresh' = refresh => RefreshOK'
  BY <1>b
<1>f. request' = request => RequestOK'
  BY <1>c
<1> HIDE DEF StoreOK, RefreshOK, RequestOK, UiOK
<1> SUFFICES StoreOK' /\ RefreshOK' /\ RequestOK' /\ UiOK'
  BY DEF Referred, StoreOK, RefreshOK, RequestOK, UiOK
<1>1. ASSUME NEW q \in Request, Lookup(q) \/ Replay(q) \/ Fault(q)
      PROVE  StoreOK' /\ RefreshOK' /\ RequestOK' /\ UiOK'
  <2>1. UNCHANGED <<phone, refresh>>
    BY <1>1 DEF Lookup, Replay, Fault
  <2>2. \E pc \in {"rejected", "replay", "commit", "failed"} : Moved(q, pc)
    BY <1>1, LookupFields, ReplayFields, FaultFields, VerdictType
  <2>3. RequestOK'
    BY <1>c, <2>2 DEF RequestOK, Moved
  <2> QED BY <1>a, <1>d, <1>e, <2>1, <2>3 DEF phone
<1>2. ASSUME NEW q \in Request, Commit(q)
      PROVE  StoreOK' /\ RefreshOK' /\ RequestOK' /\ UiOK'
  <2>1. UNCHANGED <<phone, refresh>>
    BY <1>2 DEF Commit
  <2>2. /\ Whole(request[q].answer)'
        /\ request'[q].answer.access = token'[request'[q].token].session
    BY <1>2, CommitFields DEF Whole, Known, Moved
  <2>3. RequestOK'
    BY <1>2, <1>c, <2>2, CommitFields DEF RequestOK, Moved
  <2> QED BY <1>a, <1>d, <1>e, <2>1, <2>3 DEF phone
<1>3. ASSUME NEW q \in Request, Respond(q)
      PROVE  StoreOK' /\ RefreshOK' /\ RequestOK' /\ UiOK'
  <2>1. UNCHANGED <<phone, token>>
    BY <1>3 DEF Respond, server
  <2>2. RequestOK'
    BY <1>3, <1>c, RespondFields, IdleTypes DEF RequestOK
  <2>3. ASSUME NEW i \in Slot, refresh'[i].pc = "save" PROVE Whole(refresh[i].pair)'
    <3>1. CASE i # request[q].slot
      BY <1>3, <1>b, <2>3, <3>1, RespondFields
    <3>2. CASE i = request[q].slot
      <4>1. i # None
        BY DEF NoneApart
      <4>2. refresh'[i] = Outcome(request[q])
        BY <1>3, <3>2, <4>1, RespondFields
      <4>3. request[q] \in Requests
        BY <1>00
      <4>4. refresh'[i].pair = request[q].answer /\ request[q].pc = "issued"
        BY <2>3, <4>2, <4>3, OutcomeType
      <4> QED BY <1>0, <2>1, <4>4 DEF RequestOK, Whole, Known
    <3> QED BY <3>1, <3>2
  <2>4. RefreshOK'
    BY <2>3 DEF RefreshOK
  <2> QED BY <1>a, <1>d, <2>1, <2>2, <2>4 DEF phone
<1>4. ASSUME NEW q \in Request, Drop(q)
      PROVE  StoreOK' /\ RefreshOK' /\ RequestOK' /\ UiOK'
  <2>1. UNCHANGED phone
    BY <1>4 DEF Drop
  <2>2. RequestOK'
    BY <1>4, <1>c, DropFields DEF RequestOK
  <2>3. RefreshOK'
    BY <1>4, <1>b, DropFields, IdleTypes DEF RefreshOK
  <2> QED BY <1>a, <1>d, <2>1, <2>2, <2>3 DEF phone
<1>5. ASSUME NEW i \in Slot, NEW q \in Request, BeginRefresh(i, q)
      PROVE  StoreOK' /\ RefreshOK' /\ RequestOK' /\ UiOK'
  <2>1. UNCHANGED phone
    BY <1>5 DEF BeginRefresh
  <2>2. RequestOK'
    BY <1>5, <1>c, BeginFields DEF RequestOK
  <2>3. RefreshOK'
    BY <1>5, <1>b, BeginFields DEF RefreshOK
  <2> QED BY <1>a, <1>d, <2>1, <2>2, <2>3 DEF phone
<1>6. ASSUME UNCHANGED <<request, refresh, store, ui>>
      PROVE  StoreOK' /\ RefreshOK' /\ RequestOK' /\ UiOK'
  BY <1>6, <1>a, <1>d, <1>e, <1>f
<1>7. ASSUME NEW i \in Slot, Save(i) \/ Clear(i)
      PROVE  StoreOK' /\ RefreshOK' /\ RequestOK' /\ UiOK'
  <2>1. UNCHANGED <<request, ui>>
    BY <1>7 DEF Save, Clear
  <2>2. RefreshOK'
    BY <1>7, <1>b, OverFields, IdleTypes DEF RefreshOK
  <2>3. StoreOK'
    <3>1. CASE Save(i)
      BY <1>0, <3>1 DEF Save, StoreOK, RefreshOK, Whole, Known, Stays
    <3>2. CASE Clear(i)
      BY <3>2, IdleTypes DEF Clear, StoreOK
    <3> QED BY <1>7, <3>1, <3>2
  <2> QED BY <1>d, <1>f, <2>1, <2>2, <2>3
<1>8. CASE SignIn
  <2>1. UNCHANGED <<request, store, refresh>>
    BY <1>8 DEF SignIn
  <2>2. UiOK'
    BY <1>8, SignInFields DEF UiOK, Whole, Known
  <2> QED BY <1>a, <1>e, <1>f, <2>1, <2>2
<1>9. CASE SignedIn \/ ClearTokens
  <2>1. UNCHANGED <<request, refresh>> /\ ui'.pc \in {"in", "out"}
        /\ (store' = NoPair \/ (ui.pc = "signingIn" /\ store' = ui.pair))
    BY <1>9 DEF SignedIn, ClearTokens, TypeOK
  <2>2. StoreOK' /\ UiOK'
    BY <1>0, <2>1, IdleTypes DEF StoreOK, UiOK, Whole, Known, Stays
  <2> QED BY <1>e, <1>f, <2>1, <2>2
<1>10. CASE SignOut
  <2>1. UNCHANGED <<request, store, refresh>>
    BY <1>10 DEF SignOut
  <2>2. UiOK'
    BY <1>0, <1>10, SignOutFields DEF UiOK, StoreOK, Known, Stays
  <2> QED BY <1>a, <1>e, <1>f, <2>1, <2>2
<1>11. CASE RevokeArrives \/ RevokeFails \/ Gate
  <2>1. UNCHANGED <<request, store, refresh>> /\ ui'.pc \in {"clearing", "out"}
    BY <1>11 DEF RevokeArrives, RevokeFails, Gate, TypeOK
  <2>2. UiOK'
    BY <2>1 DEF UiOK
  <2> QED BY <1>a, <1>e, <1>f, <2>1, <2>2
<1>12. CASE Kill
  <2>1. ui'.pc \in {"out", "in"} /\ RefreshOK' /\ RequestOK'
    BY <1>12, <1>c, KillFields, IdleTypes DEF RefreshOK, RequestOK
  <2>2. StoreOK'
    BY <1>0, <1>12, KillFields DEF StoreOK, RefreshOK, Whole, Known, Stays
  <2> QED BY <2>1, <2>2 DEF UiOK
<1> QED BY <1>1, <1>2, <1>3, <1>4, <1>5, <1>6, <1>7, <1>8, <1>9, <1>10, <1>11, <1>12
        DEF Next, vars, RevokeRemote, Expire, Prune, AccessAges, phone

\* Everything that is held refers to tokens and sessions that exist.
LEMMA NextHeld == NoneApart /\ TypeOK /\ Held /\ [Next]_vars => Held'
<1> SUFFICES ASSUME NoneApart, TypeOK, Held, [Next]_vars PROVE Held'
  OBVIOUS
<1>1. TypeOK' /\ Stays
  BY PhoneNextType, NextStays
<1> QED BY <1>1, NextRooted, NextYoung, NextReferred DEF Held

-----------------------------------------------------------------------------
(* The phone: one refresh at a time                                        *)

\* Every caller shares the refresh under way, and only its request is waited for.
LEMMA NextOneAtATime == NoneApart /\ TypeOK /\ OneAtATime /\ [Next]_vars => OneAtATime'
<1> SUFFICES ASSUME NoneApart, TypeOK, OneAtATime, [Next]_vars PROVE OneAtATime'
  OBVIOUS
<1>0. /\ request \in [Request -> Requests] /\ refresh \in [Slot -> Refreshes]
      /\ \A q \in Request : request[q].slot \in Slot \union {None}
  BY TypesFromParts DEF Requests
<1>a. ASSUME \A i \in Slot : refresh'[i].pc # "idle" => refresh[i].pc # "idle",
             \A q \in Request : request'[q].slot # None =>
                 /\ request[q].slot = request'[q].slot
                 /\ request'[q].pc # "idle"
                 /\ refresh[request[q].slot].pc = "sent" => refresh'[request[q].slot].pc = "sent"
      PROVE  OneAtATime'
  BY <1>0, <1>a DEF OneAtATime
<1>1. ASSUME NEW q \in Request, Lookup(q) \/ Replay(q) \/ Commit(q) \/ Fault(q)
      PROVE  OneAtATime'
  <2>1. refresh' = refresh
    BY <1>1 DEF Lookup, Replay, Commit, Fault
  <2>2. \E pc \in {"rejected", "replay", "commit", "issued", "failed"} : Moved(q, pc)
    BY <1>1, LookupFields, ReplayFields, CommitFields, FaultFields, VerdictType
  <2> QED BY <1>a, <2>1, <2>2 DEF Moved, OneAtATime
<1>2. ASSUME NEW q \in Request, Respond(q) PROVE OneAtATime'
  <2>1. /\ request'[q] = IdleRequest /\ \A p \in Request : p # q => request'[p] = request[p]
        /\ \A i \in Slot : i # request[q].slot => refresh'[i] = refresh[i]
        /\ request[q].slot = None => refresh' = refresh
    BY <1>2, RespondFields
  <2>2. \A i \in Slot : refresh'[i].pc # "idle" => refresh[i].pc # "idle"
    BY <2>1 DEF OneAtATime
  <2> QED BY <1>a, <2>1, <2>2, IdleTypes DEF OneAtATime
<1>3. ASSUME NEW q \in Request, Drop(q) PROVE OneAtATime'
  <2>1. \A p \in Request : request'[p].slot = None
    BY <1>3, DropFields DEF OneAtATime, NoneApart
  <2>2. \A i \in Slot : refresh'[i].pc # "idle" => refresh[i].pc # "idle"
    BY <1>3, DropFields, IdleTypes
  <2> QED BY <1>a, <2>1, <2>2
<1>4. ASSUME NEW i \in Slot, NEW q \in Request, BeginRefresh(i, q) PROVE OneAtATime'
  <2>1. \A j \in Slot : refresh[j].pc = "idle"
    BY <1>4 DEF BeginRefresh, MayRefresh
  <2>2. \A p \in Request : request[p].slot = None
    BY <1>0, <2>1 DEF OneAtATime
  <2> QED BY <1>4, <2>1, <2>2, BeginFields DEF OneAtATime
<1>5. ASSUME NEW i \in Slot, Save(i) \/ Clear(i) PROVE OneAtATime'
  <2>1. request' = request /\ refresh[i].pc \in {"save", "clear"}
    BY <1>5 DEF Save, Clear
  <2>2. refresh'[i] = IdleRefresh /\ \A j \in Slot : j # i => refresh'[j] = refresh[j]
    BY <1>5, OverFields
  <2>3. \A p \in Request : request[p].slot # None =>
          request[p].pc # "idle" /\ request[p].slot \in Slot \ {i}
    BY <1>0, <2>1 DEF OneAtATime
  <2>4. \A j \in Slot : refresh'[j].pc # "idle" => refresh[j].pc # "idle"
    BY <2>2, IdleTypes
  <2> QED BY <1>a, <2>1, <2>2, <2>3, <2>4
<1>6. CASE Kill
  BY <1>6, <1>a, KillFields, IdleTypes DEF OneAtATime
<1>7. CASE UNCHANGED <<request, refresh>>
  BY <1>7 DEF OneAtATime
<1> QED BY <1>1, <1>2, <1>3, <1>4, <1>5, <1>6, <1>7
        DEF Next, vars, RevokeRemote, Expire, Prune, AccessAges, SignIn, SignedIn, SignOut,
            RevokeArrives, RevokeFails, ClearTokens, Gate

-----------------------------------------------------------------------------
(* The phone: a live session keeps a token                                 *)

\* A token is used up only together with the issue of the next one.
LEMMA NextNeverLockedOut ==
    ASSUME NoneApart, TypeOK, Held, Stays, NeverLockedOut, [Next]_vars
    PROVE  NeverLockedOut'
<1> SUFFICES ASSUME NEW s \in Session, session'[s] = "live"
             PROVE  \E k \in Token : token'[k].session = s /\ ~token'[k].used
  BY DEF NeverLockedOut
<1>0. token \in [Token -> TokenRow] /\ session \in [Session -> {"none", "live", "revoked", "replayed"}]
  BY DEF TypeOK
<1>1. CASE SignIn
  <2>1. CASE s = NextSession
    BY <1>1, <2>1, SignInFields
  <2>2. CASE s # NextSession
    <3>1. session[s] = "live"
      BY <1>1, <2>2, SignInFields
    <3>2. PICK k \in Token : token[k].session = s /\ ~token[k].used
      BY <3>1 DEF NeverLockedOut
    <3>3. k # NextToken
      BY <1>0, <1>1, <3>2, SignInFields DEF TokenRow, NoneApart
    <3> QED BY <1>1, <3>2, <3>3, SignInFields
  <2> QED BY <2>1, <2>2
<1>2. CASE ~SignIn
  <2>1. session[s] = "live"
    <3>1. CASE session[s] = "none"
      <4>1. session'[s] = session[s]
        <5>1. session' = session \/ \E x, why : session' = Revoked(x, why, session)
          BY <1>2 DEF Next, vars, Lookup, Replay, Commit, Fault, Respond, Drop, BeginRefresh,
               RevokeRemote, Expire, Prune, Save, Clear, AccessAges, SignedIn, SignOut,
               RevokeArrives, RevokeFails, ClearTokens, Gate, Kill, server
        <5> QED BY <1>0, <3>1, <5>1 DEF Revoked
      <4> QED BY <3>1, <4>1
    <3>2. CASE session[s] # "none"
      BY <3>2 DEF Stays
    <3> QED BY <3>1, <3>2
  <2>2. PICK k \in Token : token[k].session = s /\ ~token[k].used
    BY <2>1 DEF NeverLockedOut
  <2>3. token[k].age # "none"
    BY <1>0, <2>2 DEF TokenRow, NoneApart
  <2>4. ASSUME NEW q \in Request, Commit(q)
        PROVE  \E n \in Token : token'[n].session = s /\ ~token'[n].used
    <3>1. CASE k = request[q].token
      BY <2>2, <2>4, <3>1, CommitFields
    <3>2. CASE k # request[q].token
      BY <2>2, <2>3, <2>4, <3>2, CommitFields
    <3> QED BY <3>1, <3>2
  <2>5. ASSUME NEW n \in Token, Expire(n) \/ Prune(n)
        PROVE  token'[k].session = s /\ ~token'[k].used
    <3>1. PICK age \in {"expired", "pruned"} :
             token' = [token EXCEPT ![n].age = age] /\ token[n].age # "none"
      BY <2>5 DEF Expire, Prune
    <3> QED BY <2>2, <3>1, AgedToken
  <2>6. CASE token' = token
    BY <2>2, <2>6
  <2> QED BY <1>2, <2>4, <2>5, <2>6
          DEF Next, vars, Lookup, Replay, Fault, Respond, Drop, BeginRefresh, RevokeRemote,
              Save, Clear, AccessAges, SignedIn, SignOut, RevokeArrives, RevokeFails,
              ClearTokens, Gate, Kill, server
<1> QED BY <1>1, <1>2

-----------------------------------------------------------------------------
(* The phone: one chain of tokens                                          *)

\* As long as everything is awaited, a request is the only one, and nothing is to be saved.
LEMMA OnlyRequest ==
    ASSUME OneAtATime, Awaited, TypeOK, NEW q \in Request, request[q].pc # "idle"
    PROVE  /\ \A p \in Request : p # q => request[p].pc = "idle"
           /\ \A i \in Slot : refresh[i].pc # "save"
           /\ \A k : Coming(k) => request[q].pc = "issued" /\ request[q].answer.refresh = k
           /\ request[q].slot \in Slot
<1>1. /\ request[q].slot \in Slot /\ refresh[request[q].slot].pc = "sent"
      /\ \A p \in Request : p # q => request[p].pc = "idle"
  BY DEF TypeOK, OneAtATime, Awaited
<1>2. \A i \in Slot : refresh[i].pc # "save"
  BY <1>1 DEF OneAtATime
<1> QED BY <1>1, <1>2 DEF Coming

\* A token that was not used is not taken for a replay.
LEMMA NoReplayVerdict ==
    ASSUME NEW k, ~token[k].used
    PROVE  Verdict(k) # "replay"
BY DEF Verdict

\* A calm past was calm.
LEMMA CalmBefore == TypeOK /\ Stays /\ Calm' => Calm
BY DEF TypeOK, Stays, Calm, Bounds

\* As long as the refreshes and tokens are let alone, what is unused and apart stays so.
LEMMA QuietChain ==
    ASSUME NoneApart, TypeOK, Awaited, Unused, UNCHANGED <<request, refresh>>,
           store' = store \/ store' = NoPair,
           \A k \in Token : token'[k].used = token[k].used
    PROVE  /\ Awaited' /\ Unused'
           /\ Apart /\ Referred /\ (ui' = ui \/ ui'.pc # "signingIn") => Apart'
<1>1. \A k : Coming(k)' <=> Coming(k)
  BY DEF Coming
<1>2. Awaited'
  BY DEF Awaited
<1>3. \A q \in Request : request[q].pc # "idle" => request[q].token \in Token
  BY DEF TypeOK
<1>4. store'.refresh # None => store'.refresh \in Token /\ store'.refresh = store.refresh
  BY IdleTypes DEF TypeOK, Pair
<1>5. Unused'
  BY <1>1, <1>3, <1>4 DEF Unused
<1>6. ASSUME Apart, Referred, ui' = ui, ui.pc = "signingIn" PROVE Apart'
  <2>1. ui.pair.refresh \in Token
    BY <1>6 DEF Referred, Whole, Known
  <2>2. ui.pair.refresh # None
    BY <2>1 DEF NoneApart
  <2>3. store'.refresh # ui.pair.refresh
    BY <1>4, <1>6, <2>2 DEF Apart
  <2> QED BY <1>1, <1>6, <2>1, <2>3 DEF Apart
<1> QED BY <1>2, <1>5, <1>6 DEF Apart

\* Without an interruption what is sent, coming or stored can be used, and is nowhere else.
LEMMA NextChain ==
    ASSUME NoneApart, TypeOK, TypeOK', Held, OneAtATime, Chain, Stays, [Next]_vars
    PROVE  Chain'
<1> SUFFICES ASSUME Calm' PROVE Awaited' /\ Unused' /\ Apart'
  BY DEF Chain
<1>0. /\ Calm /\ Awaited /\ Unused /\ Apart /\ Rooted /\ Referred
      /\ request \in [Request -> Requests] /\ refresh \in [Slot -> Refreshes]
      /\ used \in [Bounds -> Nat] /\ {"drops", "kills"} \subseteq Bounds
      /\ token \in [Token -> TokenRow] /\ store \in Pair
      /\ \A q \in Request : request[q].pc # "idle" => Known(request[q].token)
  BY CalmBefore, TypesFromParts DEF Chain, Held, Bounds, Asked, Requests, Known
<1>a. ASSUME UNCHANGED <<request, refresh, token>>, store' = store \/ store' = NoPair,
             ui' = ui \/ ui'.pc # "signingIn"
      PROVE  Awaited' /\ Unused' /\ Apart'
  BY <1>0, <1>a, QuietChain
<1>1. ASSUME NEW q \in Request, Lookup(q) \/ Replay(q) \/ Fault(q)
      PROVE  Awaited' /\ Unused' /\ Apart'
  <2>1. UNCHANGED <<phone, refresh>> /\ token' = token /\ request[q].pc # "idle"
    BY <1>1 DEF Lookup, Replay, Fault, server
  <2>2. \E pc \in {"rejected", "commit", "failed"} :
           Moved(q, pc) /\ (pc = "commit" => ~token[request[q].token].used)
    <3>1. CASE Lookup(q)
      <4>1. ~token[request[q].token].used
        BY <1>0, <3>1 DEF Lookup, Unused
      <4>2. Verdict(request[q].token) \in {"rejected", "commit"}
        BY <4>1, NoReplayVerdict, VerdictType
      <4> QED BY <3>1, <4>1, <4>2, LookupFields
    <3>2. CASE Replay(q)
      BY <3>2, ReplayFields
    <3>3. CASE Fault(q)
      BY <3>3, FaultFields
    <3> QED BY <1>1, <3>1, <3>2, <3>3
  <2>3. PICK pc \in {"rejected", "commit", "failed"} :
           Moved(q, pc) /\ (pc = "commit" => ~token[request[q].token].used)
    BY <2>2
  <2>4. request[q].pc # "issued"
    BY <1>1 DEF Lookup, Replay, Fault
  <2>5. \A k : Coming(k)' <=> Coming(k)
    BY <2>1, <2>3, <2>4 DEF Coming, Moved
  <2>6. Awaited' /\ Unused'
    BY <1>0, <2>1, <2>3, <2>5 DEF Awaited, Unused, Moved, phone
  <2>7. Apart'
    BY <1>0, <2>1, <2>3, <2>5 DEF Apart, Moved, phone
  <2> QED BY <2>6, <2>7
<1>2. ASSUME NEW q \in Request, Commit(q) PROVE Awaited' /\ Unused' /\ Apart'
  <2> DEFINE k == request[q].token
  <2>1. UNCHANGED <<phone, refresh>> /\ request[q].pc = "commit"
    BY <1>2 DEF Commit
  <2>2. /\ \A p \in Request : p # q => request[p].pc = "idle"
        /\ \A i \in Slot : refresh[i].pc # "save"
        /\ \A n : ~Coming(n)
    BY <1>0, <2>1, OnlyRequest
  <2>3. /\ request'[q].pc = "issued" /\ request'[q].answer.refresh = NextToken
        /\ request'[q].token = k /\ request'[q].slot = request[q].slot
        /\ \A p \in Request : p # q => request'[p].pc = "idle"
        /\ NextToken \in Token /\ ~token'[NextToken].used /\ token[NextToken].age = "none"
        /\ \A n \in Token : n # NextToken /\ n # k => token'[n] = token[n]
    BY <1>2, <2>2, CommitFields DEF Moved
  <2>4. \A n : Coming(n)' <=> n = NextToken
    BY <2>1, <2>2, <2>3 DEF Coming
  <2>5. Awaited' /\ Unused'
    BY <1>0, <2>1, <2>3, <2>4 DEF Awaited, Unused
  <2>6. ASSUME ui.pc = "signingIn"
        PROVE  /\ ~token'[ui.pair.refresh].used
               /\ store.refresh # ui.pair.refresh /\ ui.pair.refresh # NextToken
               /\ k # ui.pair.refresh
    <3>1. Known(ui.pair.refresh) /\ k # ui.pair.refresh /\ ~token[ui.pair.refresh].used
          /\ store.refresh # ui.pair.refresh
      BY <1>0, <2>1, <2>6 DEF Referred, Whole, Apart
    <3> QED BY <2>3, <3>1 DEF Known
  <2>7. Apart'
    BY <2>1, <2>3, <2>4, <2>6 DEF Apart, phone
  <2> QED BY <2>5, <2>7
<1>3. ASSUME NEW q \in Request, Respond(q) PROVE Awaited' /\ Unused' /\ Apart'
  <2>1. UNCHANGED <<phone, token>> /\ request[q].pc # "idle"
    BY <1>3 DEF Respond, server
  <2>2. /\ \A p \in Request : p # q => request[p].pc = "idle"
        /\ \A i \in Slot : refresh[i].pc # "save"
        /\ \A n : Coming(n) => request[q].pc = "issued" /\ request[q].answer.refresh = n
        /\ request[q].slot \in Slot /\ request[q].slot # None
    BY <1>0, <2>1, OnlyRequest DEF NoneApart
  <2>3. /\ \A p \in Request : request'[p].pc = "idle"
        /\ refresh'[request[q].slot] = Outcome(request[q])
        /\ \A i \in Slot : i # request[q].slot => refresh'[i] = refresh[i]
    BY <1>3, <2>2, RespondFields, IdleTypes
  <2>4. request[q] \in Requests
    BY <1>0
  <2>5. \A n : Coming(n)' <=> Coming(n)
    <3>1. \A n : Coming(n) <=> request[q].pc = "issued" /\ request[q].answer.refresh = n
      BY <2>2 DEF Coming
    <3>2. \A n : Coming(n)' <=> Outcome(request[q]).pc = "save"
                                /\ Outcome(request[q]).pair.refresh = n
      BY <2>2, <2>3 DEF Coming
    <3> QED BY <2>4, <3>1, <3>2, OutcomeType
  <2>6. Awaited' /\ Unused'
    BY <1>0, <2>1, <2>3, <2>5 DEF Awaited, Unused, phone
  <2>7. Apart'
    BY <1>0, <2>1, <2>3, <2>5 DEF Apart, phone
  <2> QED BY <2>6, <2>7
<1>4. ASSUME NEW i \in Slot, NEW q \in Request, BeginRefresh(i, q)
      PROVE  Awaited' /\ Unused' /\ Apart'
  <2>1. /\ UNCHANGED phone /\ token' = token /\ store.refresh # None
        /\ request[q].pc = "idle" /\ \A j \in Slot : refresh[j].pc = "idle"
    BY <1>4 DEF BeginRefresh, MayRefresh, server
  <2>2. /\ request'[q].pc = "lookup" /\ request'[q].token = store.refresh
        /\ request'[q].slot = i /\ i # None
        /\ \A p \in Request : p # q => request'[p] = request[p]
        /\ refresh'[i].pc = "sent" /\ \A j \in Slot : j # i => refresh'[j] = refresh[j]
    BY <1>4, BeginFields DEF NoneApart
  <2>3. \A p \in Request : request[p].pc = "idle"
    <3>1. ASSUME NEW p \in Request, request[p].pc # "idle" PROVE FALSE
      <4>1. request[p].slot \in Slot /\ refresh[request[p].slot].pc = "sent"
        BY <1>0, <3>1, OnlyRequest DEF Awaited, OneAtATime
      <4> QED BY <2>1, <4>1
    <3> QED BY <3>1
  <2>4. (\A n : ~Coming(n)) /\ (\A n : ~Coming(n)')
    BY <2>1, <2>2, <2>3 DEF Coming
  <2>5. ~token[store.refresh].used
    BY <1>0, <2>1, <2>4 DEF Unused
  <2>6. Awaited' /\ Unused'
    BY <1>0, <2>1, <2>2, <2>3, <2>4, <2>5 DEF Awaited, Unused, phone
  <2>7. Apart'
    BY <1>0, <2>1, <2>2, <2>3, <2>4 DEF Apart, phone
  <2> QED BY <2>6, <2>7
<1>5. ASSUME NEW i \in Slot, Save(i) \/ Clear(i) PROVE Awaited' /\ Unused' /\ Apart'
  <2>1. /\ UNCHANGED <<token, request, ui>> /\ refresh[i].pc \in {"save", "clear"}
        /\ refresh'[i] = IdleRefresh /\ \A j \in Slot : j # i => refresh'[j] = refresh[j]
    BY <1>5, OverFields DEF Save, Clear, server
  <2>2. \A q \in Request : request[q].pc = "idle"
    <3>1. ASSUME NEW q \in Request, request[q].pc # "idle" PROVE FALSE
      <4>1. request[q].slot \in Slot /\ refresh[request[q].slot].pc = "sent"
        BY <1>0, <3>1, OnlyRequest DEF Awaited, OneAtATime
      <4> QED BY <2>1, <4>1 DEF OneAtATime
    <3> QED BY <3>1
  <2>3. \A j \in Slot : j # i => refresh[j].pc = "idle"
    BY <2>1 DEF OneAtATime
  <2>4. \A n : ~Coming(n)'
    BY <2>1, <2>2, <2>3, IdleTypes DEF Coming
  <2>5. store'.refresh # None => Coming(store'.refresh)
    <3>1. CASE Save(i)
      BY <3>1 DEF Save, Coming
    <3>2. CASE Clear(i)
      BY <3>2, IdleTypes DEF Clear
    <3> QED BY <1>5, <3>1, <3>2
  <2>6. store' \in Pair
    BY TypesFromParts
  <2>7. Awaited' /\ Unused'
    BY <1>0, <2>1, <2>2, <2>4, <2>5, <2>6 DEF Awaited, Unused, Pair
  <2>8. Apart'
    <3>1. ui.pc = "signingIn" => ui.pair.refresh # None
      BY <1>0 DEF Referred, Whole, Known, NoneApart
    <3> QED BY <1>0, <2>1, <2>2, <2>4, <2>5, <3>1 DEF Apart
  <2> QED BY <2>7, <2>8
<1>6. CASE SignIn
  <2>1. UNCHANGED <<request, store, refresh>>
    BY <1>6 DEF SignIn
  <2>2. \A n : Coming(n)' <=> Coming(n)
    BY <2>1 DEF Coming
  <2>3. \A n : Known(n) => n # NextToken /\ token'[n] = token[n]
    BY <1>6, SignInFields DEF Known
  <2>4. \A n : Coming(n) => Known(n)
    BY <1>0 DEF Coming, Referred, Whole
  <2>5. /\ store.refresh # None => Known(store.refresh)
        /\ NextToken # None /\ ~token'[NextToken].used /\ ui'.pair.refresh = NextToken
    BY <1>0, <1>6, SignInFields DEF Referred
  <2>6. Awaited' /\ Unused'
    BY <1>0, <2>1, <2>2, <2>3, <2>4, <2>5 DEF Awaited, Unused
  <2>7. Apart'
    BY <1>0, <2>1, <2>2, <2>3, <2>4, <2>5 DEF Apart
  <2> QED BY <2>6, <2>7
<1>7. CASE SignedIn
  <2>1. UNCHANGED <<request, refresh, token>> /\ ui.pc = "signingIn" /\ ui'.pc = "in"
        /\ store' = ui.pair
    BY <1>7 DEF SignedIn, server
  <2>2. \A n : Coming(n)' <=> Coming(n)
    BY <2>1 DEF Coming
  <2>3. ~token[ui.pair.refresh].used
    BY <1>0, <2>1 DEF Apart
  <2> QED BY <1>0, <2>1, <2>2, <2>3 DEF Awaited, Unused, Apart
<1>8. ASSUME NEW k \in Token, Expire(k) \/ Prune(k) PROVE Awaited' /\ Unused' /\ Apart'
  <2>1. PICK age \in {"expired", "pruned"} :
           token' = [token EXCEPT ![k].age = age] /\ token[k].age # "none"
    BY <1>8 DEF Expire, Prune
  <2>2. \A n \in Token : token'[n].used = token[n].used
    BY <2>1, AgedToken
  <2>3. UNCHANGED <<request, refresh, store, ui>>
    BY <1>8 DEF Expire, Prune, phone
  <2> QED BY <1>0, <2>2, <2>3, QuietChain
<1>9. CASE \E q \in Request : Drop(q)
  BY <1>9, DropFields DEF Calm
<1>10. CASE Kill
  BY <1>10, KillFields DEF Calm
<1>11. CASE SignOut \/ RevokeArrives \/ RevokeFails \/ ClearTokens \/ Gate
  <2>1. ui'.pc # "signingIn"
    <3>1. CASE SignOut
      BY <3>1, SignOutFields
    <3>2. CASE RevokeArrives \/ RevokeFails \/ ClearTokens \/ Gate
      BY <3>2 DEF RevokeArrives, RevokeFails, ClearTokens, Gate, TypeOK
    <3> QED BY <1>11, <3>1, <3>2
  <2>2. UNCHANGED <<request, refresh, token>> /\ (store' = store \/ store' = NoPair)
    BY <1>11 DEF SignOut, RevokeArrives, RevokeFails, ClearTokens, Gate, server
  <2> QED BY <1>a, <2>1, <2>2
<1>12. CASE UNCHANGED <<request, refresh, token, store, ui>>
  BY <1>a, <1>12
<1> QED BY <1>1, <1>2, <1>3, <1>4, <1>5, <1>6, <1>7, <1>8, <1>9, <1>10, <1>11, <1>12
        DEF Next, vars, RevokeRemote, AccessAges, phone, server

\* Without an interruption no session is taken for stolen, and a token is exchanged once.
LEMMA NextOneChain ==
    ASSUME NoneApart, TypeOK, TypeOK', Held, OneAtATime, Chain, OneChain, Stays, [Next]_vars
    PROVE  OneChain'
<1> SUFFICES ASSUME Calm'
             PROVE  /\ \A s \in Session : session'[s] # "replayed"
                    /\ \A k, n \in Token :
                         (/\ token'[k].session # None /\ token'[k].session = token'[n].session
                          /\ ~token'[k].used /\ ~token'[n].used) => k = n
  BY DEF OneChain, NoSpuriousReplay, OneCurrentToken, Calm
<1>0. /\ Calm /\ Awaited /\ Unused /\ Rooted /\ Referred
      /\ session \in [Session -> {"none", "live", "revoked", "replayed"}]
      /\ token \in [Token -> TokenRow]
      /\ \A s \in Session : session[s] # "replayed"
      /\ \A k, n \in Token :
           (/\ token[k].session # None /\ token[k].session = token[n].session
            /\ ~token[k].used /\ ~token[n].used) => k = n
  BY CalmBefore, TypesFromParts DEF Chain, Held, OneChain, NoSpuriousReplay, OneCurrentToken, Calm
<1>1. \A s \in Session : session'[s] # "replayed"
  <2>1. ASSUME NEW q \in Request, Replay(q) PROVE FALSE
    BY <1>0, <2>1 DEF Replay, Unused
  <2>2. CASE SignIn
    BY <1>0, <2>2, SignInFields
  <2>3. CASE ~SignIn
    <3>1. session' = session \/ \E x : session' = Revoked(x, "revoked", session)
      BY <2>1, <2>3 DEF Next, vars, Lookup, Commit, Fault, Respond, Drop, BeginRefresh,
           RevokeRemote, Expire, Prune, Save, Clear, AccessAges, SignedIn, SignOut,
           RevokeArrives, RevokeFails, ClearTokens, Gate, Kill, server
    <3> QED BY <1>0, <3>1 DEF Revoked
  <2> QED BY <2>2, <2>3
<1>2. ASSUME NEW k \in Token, NEW n \in Token,
             token'[k].session # None, token'[k].session = token'[n].session,
             ~token'[k].used, ~token'[n].used
      PROVE  k = n
  <2>1. ASSUME \A m \in Token : token'[m].used = token[m].used /\ token'[m].session = token[m].session
        PROVE  k = n
    BY <1>0, <1>2, <2>1
  <2>2. ASSUME NEW q \in Request, Commit(q) PROVE k = n
    <3>1. ~token[request[q].token].used
      BY <1>0, <2>2 DEF Commit, Unused
    <3>2. k # request[q].token /\ n # request[q].token
      BY <1>2, <2>2, CommitFields
    <3>3. \A m \in Token : m # request[q].token /\ m # NextToken => token'[m] = token[m]
      BY <2>2, CommitFields
    <3>4. /\ request[q].token \in Token
          /\ token'[NextToken].session = token[request[q].token].session
          /\ token[request[q].token].session \in Session
      BY <2>2, CommitFields DEF Known
    <3> QED BY <1>0, <1>2, <3>1, <3>2, <3>3, <3>4
  <2>3. CASE SignIn
    <3>1. \A m \in Token : m # NextToken => token'[m] = token[m]
      BY <2>3, SignInFields
    <3>2. \A m \in Token : m # NextToken => token[m].session # NextSession
      <4>1. SUFFICES ASSUME NEW m \in Token, token[m].session = NextSession PROVE FALSE
        OBVIOUS
      <4>2. NextSession \in Session /\ session[NextSession] = "none" /\ NextSession # None
        BY <2>3, SignInFields DEF NoneApart
      <4>3. token[m].age # "none"
        BY <1>0, <4>1, <4>2 DEF TokenRow
      <4> QED BY <1>0, <4>1, <4>2, <4>3 DEF Rooted, Known
    <3>3. token'[NextToken].session = NextSession
      BY <2>3, SignInFields
    <3> QED BY <1>0, <1>2, <3>1, <3>2, <3>3
  <2>4. ASSUME NEW m \in Token, Expire(m) \/ Prune(m) PROVE k = n
    <3>1. PICK age \in {"expired", "pruned"} :
             token' = [token EXCEPT ![m].age = age] /\ token[m].age # "none"
      BY <2>4 DEF Expire, Prune
    <3> QED BY <2>1, <3>1, AgedToken
  <2>5. CASE token' = token
    BY <2>1, <2>5
  <2> QED BY <2>2, <2>3, <2>4, <2>5
          DEF Next, vars, Lookup, Replay, Fault, Respond, Drop, BeginRefresh, RevokeRemote,
              Save, Clear, AccessAges, SignedIn, SignOut, RevokeArrives, RevokeFails,
              ClearTokens, Gate, Kill, server
<1> QED BY <1>1, <1>2

-----------------------------------------------------------------------------
(* The phone: a sign-out is final                                          *)

\* What is within the phone is of a session that has been made.
LEMMA WithinMade ==
    ASSUME TypeOK, Held, OneAtATime, NEW s, Within(s)
    PROVE  s \in Session /\ session[s] # "none"
<1>1. CASE store.refresh # None /\ token[store.refresh].session = s
  BY <1>1 DEF Held, Referred, Rooted, Known
<1>2. CASE \E q \in Request : request[q].slot # None /\ token[request[q].token].session = s
  <2>1. PICK q \in Request : request[q].slot # None /\ token[request[q].token].session = s
    BY <1>2
  <2>2. Known(request[q].token)
    BY <2>1, TypesFromParts DEF OneAtATime, Asked, Requests, Known
  <2> QED BY <2>1, <2>2 DEF Held, Rooted, Known
<1>3. CASE \E i \in Slot : refresh[i].pc = "save" /\ refresh[i].pair.access = s
  BY <1>3 DEF Held, Referred, Rooted, Whole, Known
<1> QED BY <1>1, <1>2, <1>3 DEF Within

\* A refresh under way keeps the token of a session that has been within the phone.
LEMMA WithinStays ==
    ASSUME NoneApart, TypeOK, Held, OneAtATime, Stays, NEW s,
           UNCHANGED store, Within(s)',
           \A i \in Slot : refresh'[i].pc = "save" =>
               Within(refresh'[i].pair.access),
           \A q \in Request : request'[q].slot # None =>
               \/ request[q].slot # None /\ request'[q].token = request[q].token
               \/ store.refresh # None /\ request'[q].token = store.refresh
    PROVE  Within(s)
<1>1. CASE store'.refresh # None /\ token'[store'.refresh].session = s
  BY <1>1 DEF Held, Referred, Known, Stays, Within
<1>2. CASE \E q \in Request : request'[q].slot # None /\ token'[request'[q].token].session = s
  <2>1. PICK q \in Request : request'[q].slot # None /\ token'[request'[q].token].session = s
    BY <1>2
  <2>2. CASE request[q].slot # None /\ request'[q].token = request[q].token
    <3>1. Known(request[q].token)
      BY <2>2, TypesFromParts DEF OneAtATime, Asked, Requests, Known
    <3> QED BY <2>1, <2>2, <3>1 DEF Within, Stays, Known
  <2>3. CASE store.refresh # None /\ request'[q].token = store.refresh
    BY <2>1, <2>3 DEF Within, Held, Referred, Stays, Known
  <2> QED BY <2>1, <2>2, <2>3
<1>3. CASE \E i \in Slot : refresh'[i].pc = "save" /\ refresh'[i].pair.access = s
  BY <1>3
<1> QED BY <1>1, <1>2, <1>3 DEF Within

\* What a refresh does on its way to the phone brings nothing in.
LEMMA RefreshWithin ==
    ASSUME NoneApart, TypeOK, Held, OneAtATime, Stays, NEW q \in Request,
           \/ Lookup(q) \/ Replay(q) \/ Commit(q) \/ Fault(q) \/ Respond(q) \/ Drop(q)
           \/ \E i \in Slot : BeginRefresh(i, q),
           NEW s, Within(s)'
    PROVE  Within(s)
<1>0. request \in [Request -> Requests] /\ refresh \in [Slot -> Refreshes]
      /\ UNCHANGED phone /\ UNCHANGED store
  BY TypesFromParts
     DEF phone, Lookup, Replay, Commit, Fault, Respond, Drop, BeginRefresh
<1>1. CASE Lookup(q) \/ Replay(q) \/ Commit(q) \/ Fault(q)
  <2>1. refresh' = refresh
    BY <1>1 DEF Lookup, Replay, Commit, Fault
  <2>2. \E pc \in {"rejected", "replay", "commit", "issued", "failed"} : Moved(q, pc)
    BY <1>1, LookupFields, ReplayFields, CommitFields, FaultFields, VerdictType
  <2>3. \A i \in Slot : refresh'[i].pc = "save" => Within(refresh'[i].pair.access)
    BY <2>1 DEF Within
  <2> QED BY <1>0, <2>2, <2>3, WithinStays DEF Moved
<1>2. CASE Respond(q)
  <2>1. ASSUME NEW i \in Slot, refresh'[i].pc = "save" PROVE Within(refresh'[i].pair.access)
    <3>1. CASE i # request[q].slot
      BY <1>2, <2>1, <3>1, RespondFields DEF Within
    <3>2. CASE i = request[q].slot
      <4>1. i # None
        BY DEF NoneApart
      <4>2. refresh'[i] = Outcome(request[q]) /\ request[q] \in Requests
        BY <1>0, <1>2, <3>2, <4>1, RespondFields
      <4>3. refresh'[i].pair = request[q].answer /\ request[q].pc = "issued"
        BY <2>1, <4>2, OutcomeType
      <4>4. refresh'[i].pair.access = token[request[q].token].session
        BY <4>3 DEF Held, Referred
      <4> QED BY <3>2, <4>1, <4>4 DEF Within
    <3> QED BY <3>1, <3>2
  <2>2. \A p \in Request : request'[p].slot # None =>
          request[p].slot # None /\ request'[p].token = request[p].token
    BY <1>2, RespondFields, IdleTypes
  <2> QED BY <1>0, <2>1, <2>2, WithinStays
<1>3. CASE Drop(q)
  <2>1. \A i \in Slot : refresh'[i].pc = "save" => Within(refresh'[i].pair.access)
    BY <1>3, DropFields, IdleTypes DEF Within
  <2>2. \A p \in Request : request'[p].slot # None =>
          request[p].slot # None /\ request'[p].token = request[p].token
    BY <1>3, DropFields
  <2> QED BY <1>0, <2>1, <2>2, WithinStays
<1>4. ASSUME NEW i \in Slot, BeginRefresh(i, q) PROVE Within(s)
  <2>1. \A j \in Slot : refresh'[j].pc = "save" => Within(refresh'[j].pair.access)
    BY <1>4, BeginFields DEF Within
  <2>2. store.refresh # None
    BY <1>4 DEF BeginRefresh
  <2>3. \A p \in Request : request'[p].slot # None =>
          \/ request[p].slot # None /\ request'[p].token = request[p].token
          \/ store.refresh # None /\ request'[p].token = store.refresh
    BY <1>4, <2>2, BeginFields
  <2> QED BY <1>0, <2>1, <2>3, WithinStays
<1> QED BY <1>1, <1>2, <1>3, <1>4

\* Once a refresh is over nothing is within the phone but what it stores.
LEMMA OverWithin ==
    ASSUME NoneApart, TypeOK, Held, OneAtATime, NEW i \in Slot, Save(i) \/ Clear(i),
           NEW s, Within(s)'
    PROVE  /\ Save(i) /\ refresh[i].pair.access = s /\ Within(s)
           /\ store'.refresh # None /\ token'[store'.refresh].session = s
<1>1. /\ UNCHANGED <<token, request>> /\ refresh[i].pc \in {"save", "clear"}
      /\ refresh'[i] = IdleRefresh /\ \A j \in Slot : j # i => refresh'[j] = refresh[j]
  BY OverFields DEF Save, Clear, server
<1>2. \A j \in Slot : refresh'[j].pc = "idle"
  BY <1>1, IdleTypes DEF OneAtATime
<1>3. \A q \in Request : request'[q].slot = None
  <2>1. ASSUME NEW q \in Request, request[q].slot # None PROVE FALSE
    <3>1. request[q].slot \in Slot /\ refresh[request[q].slot].pc = "sent"
      BY <2>1, TypesFromParts DEF OneAtATime, Requests
    <3> QED BY <1>1, <3>1 DEF OneAtATime
  <2> QED BY <1>1, <2>1
<1>4. store'.refresh # None /\ token'[store'.refresh].session = s
  BY <1>2, <1>3 DEF Within
<1>5. Save(i)
  BY <1>4, IdleTypes DEF Clear
<1>6. Whole(refresh[i].pair) /\ store' = refresh[i].pair /\ refresh[i].pc = "save"
  BY <1>5 DEF Save, Held, Referred
<1> QED BY <1>1, <1>4, <1>5, <1>6 DEF Whole, Within

\* As long as everything was heard, it was before.
LEMMA HeardBefore == TypeOK /\ Stays /\ Heard' => Heard
BY DEF TypeOK, Stays, Heard, Bounds

\* Every step keeps what is within the phone of the session that the next sign-out revokes.
LEMMA NextLeaving ==
    ASSUME NoneApart, TypeOK, Held, OneAtATime, Leaving, Stays, [Next]_vars
    PROVE  Leaving'
<1> DEFINE Here(s) == /\ ui.pc \in {"in", "revoking"} /\ ~signedOut
                      /\ ui.pc = "in" => store.refresh # None /\ token[store.refresh].session = s
                      /\ ui.pc = "revoking" => token[ui.pair.refresh].session = s
<1> SUFFICES ASSUME Heard', NEW s \in Session, Within(s)', Live(s)'
             PROVE  Here(s)'
  BY DEF Leaving
<1>0. /\ Heard /\ used \in [Bounds -> Nat] /\ "faults" \in Bounds /\ "expiries" \in Bounds
      /\ used'["faults"] = 0 /\ used'["expiries"] = 0
  BY HeardBefore DEF TypeOK, Bounds, Heard
<1>a. ASSUME Within(s) PROVE Live(s) /\ Here(s) /\ session[s] = "live"
  BY <1>0, <1>a, WithinMade DEF Leaving, Live, Stays
<1>b. ASSUME Within(s), UNCHANGED phone PROVE Here(s)'
  BY <1>a, <1>b DEF phone, Held, Referred, Known, Stays
<1>1. ASSUME NEW q \in Request,
             \/ Lookup(q) \/ Replay(q) \/ Commit(q) \/ Fault(q) \/ Respond(q) \/ Drop(q)
             \/ \E i \in Slot : BeginRefresh(i, q)
      PROVE  Here(s)'
  <2>1. UNCHANGED phone
    BY <1>1 DEF Lookup, Replay, Commit, Fault, Respond, Drop, BeginRefresh
  <2> QED BY <1>1, <1>b, <2>1, RefreshWithin
<1>2. ASSUME UNCHANGED <<store, request, refresh>> PROVE Within(s)
  BY <1>2, WithinStays DEF Within
<1>3. ASSUME NEW i \in Slot, Save(i) \/ Clear(i) PROVE Here(s)'
  <2>1. /\ Save(i) /\ refresh[i].pair.access = s /\ Within(s)
        /\ store'.refresh # None /\ token'[store'.refresh].session = s
    BY <1>3, OverWithin
  <2>2. ui' = ui /\ signedOut' = signedOut /\ token' = token
    BY <2>1 DEF Save, server
  <2> QED BY <1>a, <2>1, <2>2
<1>4. CASE SignIn
  <2>1. UNCHANGED <<store, request, refresh>> /\ ui.pc = "out"
    BY <1>4 DEF SignIn
  <2> QED BY <1>2, <1>a, <2>1
<1>5. CASE SignedIn
  <2>1. /\ UNCHANGED <<token, request, refresh>> /\ ui.pc = "signingIn" /\ ui'.pc = "in"
        /\ store' = ui.pair /\ signedOut' = FALSE
    BY <1>5 DEF SignedIn, server
  <2>2. store'.refresh # None /\ token'[store'.refresh].session = s
    BY <1>a, <2>1 DEF Within
  <2> QED BY <2>1, <2>2
<1>6. CASE SignOut
  <2>1. UNCHANGED <<store, token, request, refresh, signedOut>> /\ ui.pc = "in"
    BY <1>6 DEF SignOut, server
  <2>2. Here(s)
    BY <1>2, <1>a, <2>1
  <2>3. ui'.pc = "revoking" /\ ui'.pair = store
    BY <1>6, <2>1, <2>2, SignOutFields
  <2> QED BY <2>1, <2>2, <2>3
<1>7. CASE RevokeArrives
  <2>1. UNCHANGED <<store, token, request, refresh, signedOut>> /\ ui.pc = "revoking"
    BY <1>7 DEF RevokeArrives
  <2>2. token[ui.pair.refresh].session = s
    BY <1>2, <1>a, <2>1
  <2>3. Finds(ui.pair.refresh)
    BY <1>0, <2>1 DEF Heard, Finds, Held, Referred, Young, Known
  <2>4. session' = Revoked(s, "revoked", session)
    BY <1>7, <2>2, <2>3 DEF RevokeArrives
  <2> QED BY <2>4, RevokedEnds DEF Ended, Live
<1>8. CASE RevokeFails
  BY <1>0, <1>8, SpendType DEF RevokeFails
<1>9. CASE ClearTokens
  <2>1. UNCHANGED <<token, request, refresh>> /\ ui.pc = "clearing" /\ store' = NoPair
    BY <1>9 DEF ClearTokens, server
  <2>2. Within(s)
    BY <2>1, IdleTypes DEF Within
  <2> QED BY <1>a, <2>1, <2>2
<1>10. CASE Gate
  <2>1. UNCHANGED <<store, request, refresh>> /\ ui.pc = "in" /\ store.refresh = None
    BY <1>10 DEF Gate
  <2> QED BY <1>2, <1>a, <2>1
<1>11. CASE Kill
  <2>1. token' = token /\ signedOut' = signedOut
    BY <1>11 DEF Kill, server
  <2>2. (\A q \in Request : request'[q].slot = None) /\ (\A i \in Slot : refresh'[i].pc = "idle")
    BY <1>11, KillFields, IdleTypes
  <2>3. store'.refresh # None /\ token[store'.refresh].session = s
    BY <2>1, <2>2 DEF Within
  <2>4. Within(s)
    BY <1>11, <2>3, KillFields DEF Within, Held, Referred, Whole
  <2>5. ui'.pc = "in"
    BY <1>11, <2>3, KillFields
  <2> QED BY <1>a, <2>1, <2>3, <2>4, <2>5
<1>12. CASE UNCHANGED <<store, request, refresh, ui, signedOut>>
  BY <1>2, <1>a, <1>12 DEF Held, Referred, Known, Stays
<1> QED BY <1>1, <1>3, <1>4, <1>5, <1>6, <1>7, <1>8, <1>9, <1>10, <1>11, <1>12
        DEF Next, vars, RevokeRemote, Expire, Prune, AccessAges, phone

\* Where a stored access token comes from: it was stored, was about to be, or is none.
LEMMA AccessFrom ==
    ASSUME TypeOK, [Next]_vars
    PROVE  \/ store'.access = store.access /\ (signedOut' => signedOut)
           \/ store'.access = None
           \/ /\ \E i \in Slot : refresh[i].pc = "save" /\ store'.access = refresh[i].pair.access
              /\ signedOut' = signedOut
           \/ ui.pc = "signingIn" /\ store'.access = ui.pair.access /\ ~signedOut'
<1>1. CASE Kill
  BY <1>1, KillFields DEF Kill
<1>2. ASSUME NEW i \in Slot, Save(i) \/ Clear(i)
      PROVE  \/ store'.access = None
             \/ /\ refresh[i].pc = "save" /\ store'.access = refresh[i].pair.access
                /\ signedOut' = signedOut
  BY <1>2, IdleTypes DEF Save, Clear
<1>3. CASE SignedIn \/ ClearTokens
  BY <1>3, IdleTypes DEF SignedIn, ClearTokens
<1>4. CASE UNCHANGED <<store, signedOut>>
  BY <1>4
<1> QED BY <1>1, <1>2, <1>3, <1>4
        DEF Next, vars, Lookup, Replay, Commit, Fault, Respond, Drop, BeginRefresh, RevokeRemote,
            Expire, Prune, AccessAges, SignIn, SignOut, RevokeArrives, RevokeFails, Gate, phone

\* A stored access token is of a session that was made, and of none that lives once a
\* sign-out has been heard.
LEMMA NextSignOutFinal ==
    ASSUME NoneApart, TypeOK, Held, Leaving, Accessed, SignOutFinal, Stays, [Next]_vars
    PROVE  Accessed' /\ SignOutFinal'
<1>0. Heard' => Heard
  BY HeardBefore
<1>1. CASE store'.access = store.access /\ (signedOut' => signedOut)
  BY <1>0, <1>1 DEF Accessed, SignOutFinal, Stays, Heard
<1>2. CASE store'.access = None
  BY <1>2 DEF Accessed, SignOutFinal
<1>3. ASSUME NEW i \in Slot, refresh[i].pc = "save", store'.access = refresh[i].pair.access,
             signedOut' = signedOut
      PROVE  Accessed' /\ SignOutFinal'
  <2> DEFINE s == refresh[i].pair.access
  <2>1. s \in Session /\ session[s] # "none"
    BY <1>3 DEF Held, Referred, Rooted, Whole, Known
  <2>2. Within(s)
    BY <1>3 DEF Within
  <2>3. Heard /\ signedOut => session[s] # "live"
    BY <2>1, <2>2 DEF Leaving, Live
  <2> QED BY <1>0, <1>3, <2>1, <2>3 DEF Accessed, SignOutFinal, Stays, Heard
<1>4. CASE ui.pc = "signingIn" /\ store'.access = ui.pair.access /\ ~signedOut'
  <2>1. ui.pair.access \in Session /\ session[ui.pair.access] # "none"
    BY <1>4 DEF Held, Referred, Rooted, Whole, Known
  <2> QED BY <1>4, <2>1 DEF Accessed, SignOutFinal, Stays
<1> QED BY <1>1, <1>2, <1>3, <1>4, AccessFrom

-----------------------------------------------------------------------------
(* The phone: theorems                                                     *)

\* A phone that nobody has signed in on.
LEMMA PhoneInit == Init => PhoneInv
<1> SUFFICES ASSUME Init PROVE PhoneInv
  OBVIOUS
<1>1. TypeOK
  BY PhoneInitType
<1>2. /\ \A k \in Token : token[k].session = None /\ token[k].age = "none"
      /\ \A q \in Request : request[q].pc = "idle" /\ request[q].slot = None
      /\ \A i \in Slot : refresh[i].pc = "idle"
      /\ store.access = None /\ store.refresh = None /\ ui.pc = "out"
      /\ \A s \in Session : session[s] = "none"
  BY IdleTypes DEF Init
<1>3. Held
  BY <1>2 DEF Held, Rooted, Referred, Young, Known
<1>4. OneAtATime /\ Chain
  BY <1>2 DEF OneAtATime, Chain, Awaited, Unused, Apart, Coming
<1>5. OneChain /\ NeverLockedOut
  BY <1>2 DEF OneChain, NoSpuriousReplay, OneCurrentToken, NeverLockedOut
<1>6. Leaving /\ Accessed /\ SignOutFinal
  BY <1>2 DEF Leaving, Live, Accessed, SignOutFinal
<1> QED BY <1>1, <1>3, <1>4, <1>5, <1>6 DEF PhoneInv

\* Every step keeps the whole invariant.
LEMMA PhoneNext == NoneApart /\ PhoneInv /\ [Next]_vars => PhoneInv'
<1> SUFFICES ASSUME NoneApart, PhoneInv, [Next]_vars PROVE PhoneInv'
  OBVIOUS
<1>1. TypeOK' /\ Held' /\ Stays
  BY PhoneNextType, NextHeld, NextStays DEF PhoneInv
<1>2. OneAtATime' /\ Chain' /\ OneChain' /\ NeverLockedOut'
  BY <1>1, NextOneAtATime, NextChain, NextOneChain, NextNeverLockedOut DEF PhoneInv
<1>3. Leaving' /\ Accessed' /\ SignOutFinal'
  BY <1>1, NextLeaving, NextSignOutFinal DEF PhoneInv
<1> QED BY <1>1, <1>2, <1>3 DEF PhoneInv

\* The invariant holds in every state, whatever the phone and its network do.
THEOREM PhoneInvariance == ASSUME NoneApart PROVE Spec => []PhoneInv
<1>1. PhoneInv /\ [Next]_vars => PhoneInv'
  BY PhoneNext
<1> QED BY <1>1, PhoneInit, PTL DEF Spec

\* Without a dropped connection or a killed app the tokens of a session form one chain and
\* no refresh is taken for a replay, whatever sign-outs, faults and revocations intervene.
THEOREM SessionsStayChains == ASSUME NoneApart PROVE Spec => []OneChain
<1>1. PhoneInv => OneChain
  BY DEF PhoneInv
<1> QED BY <1>1, PhoneInvariance, PTL

\* A session that lives can be refreshed, whatever has crashed, dropped or raced; and once
\* the server has heard a sign-out, nothing that is put back on the phone lives.
THEOREM SessionsLiveUntilSignOut == ASSUME NoneApart PROVE Spec => []LiveUntilSignOut
<1>1. PhoneInv => LiveUntilSignOut
  BY DEF PhoneInv, LiveUntilSignOut
<1> QED BY <1>1, PhoneInvariance, PTL

-----------------------------------------------------------------------------
(* The connection: the invariant                                           *)

\* A connector is one of those that exist, a job is attempted at least once, and an app has
\* finitely many links.
Connectors ==
    /\ Connector \subseteq [reviews : BOOLEAN, google : BOOLEAN]
    /\ Attempts \in Nat \ {0}
    /\ IsFiniteSet(Link)

Execs == [pc : {"idle", "load", "open", "fetch", "reviews", "derive", "fail"}, job : BOOLEAN,
          made : 0 .. Attempts - 1, run : Nat, of : SUBSET Link, todo : SUBSET Link,
          readable : BOOLEAN, failures : Nat, read : BOOLEAN, wrote : BOOLEAN,
          reached : SUBSET Link, since : Nat]

\* An execution of testConnection or listRemoteResources.
Testers == [pc : {"idle", "call", "count", "record"}, refused : BOOLEAN, errors : Nat]

SyncTypes ==
    /\ C!TypeOK
    /\ exec \in [Slot -> Execs]
    /\ tester \in Testers
    /\ spent \in [C!Bounds -> Nat]

\* An execution that has not looked at any link has counted nothing.
Fresh(e) == e.failures = 0 /\ e.reached = {}

Started ==
    \A s \in Slot : /\ exec[s].pc \in {"idle", "load", "open"} => Fresh(exec[s])
                    /\ exec[s].pc = "open" => exec[s].todo = exec[s].of

\* Runs go with their connection, and only then.
GoneTogether == \A r \in DOMAIN runs : runs[r] = "GONE" => ~conn.there

\* Without reviews every link that was tried is reached or counted as a failure, once; and a
\* run that fails has reached nothing, or has something left to queue.
Tallied(e) ==
    /\ e.pc # "reviews"
    /\ e.pc = "fetch" => /\ e.reached \subseteq e.of \ e.todo
                         /\ e.failures + Cardinality(e.reached) = Cardinality(e.of \ e.todo)
    /\ e.pc = "derive" => /\ e.reached \subseteq e.of
                          /\ e.failures + Cardinality(e.reached) = Cardinality(e.of)
    /\ e.pc = "fail" /\ conn.there => e.reached = {} \/ e.todo # {}

Counted == ~conn.reviews => \A s \in Slot : Tallied(exec[s])

\* An execution has read the row no later than it was switched last, and before that if the
\* connection is switched off.
Current ==
    \A s \in Slot :
        /\ exec[s].since <= epoch
        /\ conn.status = "DISABLED" /\ exec[s].pc \notin {"idle", "load"} => exec[s].since # epoch

SyncInv ==
    /\ SyncTypes /\ Started /\ GoneTogether /\ Counted /\ Current
    /\ C!EveryRunEnds /\ C!DeriveFollowsWrites /\ C!NoSyncOnceDisabled

-----------------------------------------------------------------------------
(* The connection: types                                                   *)

\* An execution that starts over has looked at nothing yet.
LEMMA StartsOver ==
    ASSUME Attempts \in Nat \ {0}, NEW e \in Execs
    PROVE  /\ C!Idle \in Execs /\ C!Retried(e) \in Execs /\ C!Stalled(e) \in Execs
           /\ \A o \in {C!Idle, C!Retried(e), C!Stalled(e)} :
                /\ o.pc \in {"idle", "load"} /\ Fresh(o) /\ o.since = 0
                /\ o.todo = {} /\ o.of = {}
<1>1. C!Idle \in Execs /\ C!Idle.pc = "idle" /\ Fresh(C!Idle) /\ C!Idle.since = 0
      /\ C!Idle.todo = {} /\ C!Idle.of = {}
  BY DEF C!Idle, Execs, Fresh
<1>2. ASSUME NEW n \in 0 .. Attempts - 1,
             NEW o, o = [C!Idle EXCEPT !.pc = "load", !.job = TRUE, !.made = n]
      PROVE  /\ o \in Execs /\ o.pc = "load" /\ Fresh(o) /\ o.since = 0
             /\ o.todo = {} /\ o.of = {}
  BY <1>2 DEF C!Idle, Execs, Fresh
<1>3. /\ C!Retried(e) \in Execs /\ C!Retried(e).pc \in {"idle", "load"} /\ Fresh(C!Retried(e))
      /\ C!Retried(e).since = 0 /\ C!Retried(e).todo = {} /\ C!Retried(e).of = {}
  <2>1. CASE e.job /\ e.made + 1 < Attempts
    <3>1. e.made + 1 \in 0 .. Attempts - 1
      BY <2>1 DEF Execs
    <3>2. C!Retried(e) = [C!Idle EXCEPT !.pc = "load", !.job = TRUE, !.made = e.made + 1]
      BY <2>1 DEF C!Retried
    <3> QED BY <1>2, <3>1, <3>2
  <2>2. CASE ~(e.job /\ e.made + 1 < Attempts)
    BY <2>2, <1>1 DEF C!Retried
  <2> QED BY <2>1, <2>2
<1>4. /\ C!Stalled(e) \in Execs /\ C!Stalled(e).pc \in {"idle", "load"} /\ Fresh(C!Stalled(e))
      /\ C!Stalled(e).since = 0 /\ C!Stalled(e).todo = {} /\ C!Stalled(e).of = {}
  <2>1. CASE e.job
    <3>1. C!Stalled(e) = [C!Idle EXCEPT !.pc = "load", !.job = TRUE, !.made = e.made]
      BY <2>1 DEF C!Stalled
    <3> QED BY <1>2, <3>1 DEF Execs
  <2>2. CASE ~e.job
    BY <2>2, <1>1 DEF C!Stalled
  <2> QED BY <2>1, <2>2
<1> QED BY <1>1, <1>3, <1>4

\* An action of one execution leaves the others alone.
Only(s) == \A t \in Slot : t # s => exec'[t] = exec[t]

\* Spending a bound leaves the others alone.
LEMMA SyncSpendType ==
    ASSUME spent \in [C!Bounds -> Nat], NEW b \in C!Bounds, C!Spend(b)
    PROVE  /\ spent' \in [C!Bounds -> Nat] /\ spent'[b] > 0
           /\ \A d \in C!Bounds : spent'[d] >= spent[d] /\ (d # b => spent'[d] = spent[d])
BY DEF C!Spend

\* What an execution that starts over looks like, and what one keeps that goes on.
Over(o) == /\ o.pc \in {"idle", "load"} /\ Fresh(o) /\ o.since = 0
           /\ o.todo = {} /\ o.of = {}
Kept(e, o) == o.run = e.run /\ o.of = e.of /\ o.since = e.since
Alike(e, o) == o.failures = e.failures /\ o.reached = e.reached

\* Replacing one execution leaves the others alone.
LEMMA Replaced ==
    ASSUME exec \in [Slot -> Execs], NEW s \in Slot, NEW o \in Execs,
           exec' = [exec EXCEPT ![s] = o]
    PROVE  exec' \in [Slot -> Execs] /\ Only(s) /\ exec'[s] = o
BY DEF Only

\* A sync that begins, or whose process dies, starts over.
LEMMA StartFields ==
    ASSUME Connectors, SyncTypes, NEW s \in Slot, C!Begin(s) \/ C!Crash(s)
    PROVE  /\ exec' \in [Slot -> Execs] /\ Only(s) /\ Over(exec'[s])
           /\ spent' \in [C!Bounds -> Nat]
           /\ \A d \in C!Bounds : spent'[d] >= spent[d]
           /\ UNCHANGED <<conn, link, runs, tester, dirty, epoch>>
<1>1. CASE C!Begin(s)
  <2>1. PICK job \in BOOLEAN :
          exec' = [exec EXCEPT ![s] = [C!Idle EXCEPT !.pc = "load", !.job = job]]
    BY <1>1 DEF C!Begin
  <2> DEFINE o == [C!Idle EXCEPT !.pc = "load", !.job = job]
  <2>2. o \in Execs /\ Over(o)
    <3>1. job \in BOOLEAN /\ 0 \in 0 .. Attempts - 1
      BY <2>1 DEF Connectors
    <3> QED BY <3>1 DEF C!Idle, Execs, Over, Fresh
  <2>3. exec' = [exec EXCEPT ![s] = o]
    BY <2>1
  <2> HIDE DEF o
  <2>4. exec' \in [Slot -> Execs] /\ Only(s) /\ Over(exec'[s])
    BY <2>2, <2>3, Replaced DEF SyncTypes
  <2>5. C!Spend("syncs") /\ "syncs" \in C!Bounds
    BY <1>1 DEF C!Begin, C!Bounds
  <2> QED BY <1>1, <2>4, <2>5, SyncSpendType DEF C!Begin, SyncTypes
<1>2. CASE C!Crash(s)
  <2> DEFINE o == C!Stalled(exec[s])
  <2>1. exec[s] \in Execs
    BY DEF SyncTypes
  <2>2. o \in Execs /\ Over(o)
    BY <2>1, StartsOver DEF Over, Connectors
  <2>3. exec' = [exec EXCEPT ![s] = o]
    BY <1>2 DEF C!Crash
  <2> HIDE DEF o
  <2>4. exec' \in [Slot -> Execs] /\ Only(s) /\ Over(exec'[s])
    BY <2>2, <2>3, Replaced DEF SyncTypes
  <2>5. C!Spend("crashes") /\ "crashes" \in C!Bounds
    BY <1>2 DEF C!Crash, C!Bounds
  <2> QED BY <1>2, <2>4, <2>5, SyncSpendType DEF C!Crash, SyncTypes
<1> QED BY <1>1, <1>2

\* One that reads the row starts over, or holds what it read.
LEMMA LoadFields ==
    ASSUME Connectors, SyncTypes, NEW s \in Slot, C!Load(s)
    PROVE  /\ exec' \in [Slot -> Execs] /\ Only(s)
           /\ \/ Over(exec'[s])
              \/ /\ conn.there /\ conn.status # "DISABLED" /\ exec'[s].pc = "open"
                 /\ exec'[s].of = link /\ exec'[s].todo = link /\ exec'[s].since = epoch
                 /\ Alike(exec[s], exec'[s])
           /\ exec[s].pc = "load"
           /\ UNCHANGED <<conn, link, runs, tester, dirty, epoch, spent>>
<1> DEFINE e == exec[s]
           o == [e EXCEPT !.pc = "open", !.of = link, !.todo = link,
                          !.readable = conn.readable, !.since = epoch]
<1>1. e \in Execs
  BY DEF SyncTypes
<1>2. /\ o \in Execs /\ o.pc = "open" /\ o.of = link /\ o.todo = link /\ o.since = epoch
      /\ Alike(e, o)
  <2>1. link \in SUBSET Link /\ epoch \in Nat /\ conn.readable \in BOOLEAN
    BY DEF SyncTypes, C!TypeOK, C!Conn
  <2> HIDE DEF e
  <2> QED BY <1>1, <2>1 DEF Execs, Alike
<1>3. exec' = [exec EXCEPT ![s] = IF ~conn.there THEN C!Retried(e)
                                  ELSE IF ~C!Syncable(conn.status) THEN C!Idle ELSE o]
  BY DEF C!Load
<1>4. C!Retried(e) \in Execs /\ Over(C!Retried(e)) /\ C!Idle \in Execs /\ Over(C!Idle)
  BY <1>1, StartsOver DEF Over, Connectors
<1> HIDE DEF o
<1>5. CASE ~conn.there
  <2>1. exec' = [exec EXCEPT ![s] = C!Retried(e)]
    BY <1>3, <1>5
  <2> QED BY <1>4, <2>1, Replaced DEF SyncTypes, C!Load
<1>6. CASE conn.there /\ ~C!Syncable(conn.status)
  <2>1. exec' = [exec EXCEPT ![s] = C!Idle]
    BY <1>3, <1>6
  <2> QED BY <1>4, <2>1, Replaced DEF SyncTypes, C!Load
<1>7. CASE conn.there /\ C!Syncable(conn.status)
  <2>1. exec' = [exec EXCEPT ![s] = o]
    BY <1>3, <1>7
  <2> QED BY <1>2, <1>7, <2>1, Replaced DEF SyncTypes, C!Load, C!Syncable
<1> QED BY <1>5, <1>6, <1>7

\* The run is opened by the execution that works on it, or the execution starts over.
LEMMA OpenFields ==
    ASSUME Connectors, SyncTypes, NEW s \in Slot, C!Open(s)
    PROVE  /\ exec' \in [Slot -> Execs] /\ Only(s)
           /\ \/ ~conn.there /\ Over(exec'[s]) /\ runs' = runs
              \/ /\ conn.there /\ exec'[s].pc \in {"fetch", "fail"}
                 /\ runs' = Append(runs, "RUNNING") /\ exec'[s].run = Len(runs) + 1
                 /\ exec'[s].of = exec[s].of /\ exec'[s].todo = exec[s].todo
                 /\ exec'[s].since = exec[s].since /\ Alike(exec[s], exec'[s])
           /\ exec[s].pc = "open"
           /\ UNCHANGED <<conn, link, tester, dirty, epoch, spent>>
<1> DEFINE e == exec[s]
           o == C!Opened(e)
<1>1. e \in Execs
  BY DEF SyncTypes
<1>2. /\ o \in Execs /\ o.pc \in {"fetch", "fail"} /\ o.run = Len(runs) + 1
      /\ o.of = e.of /\ o.todo = e.todo /\ o.since = e.since /\ Alike(e, o)
  <2>1. Len(runs) + 1 \in Nat
    BY DEF SyncTypes, C!TypeOK
  <2>2. PICK p \in {"fetch", "fail"} : p = IF e.readable THEN "fetch" ELSE "fail"
    OBVIOUS
  <2>3. o = [e EXCEPT !.run = Len(runs) + 1, !.pc = p]
    BY <2>2 DEF C!Opened
  <2> HIDE DEF e, o
  <2> QED BY <1>1, <2>1, <2>3 DEF Execs, Alike
<1>3. exec' = [exec EXCEPT ![s] = IF conn.there THEN o ELSE C!Retried(e)]
  BY DEF C!Open
<1>4. C!Retried(e) \in Execs /\ Over(C!Retried(e))
  BY <1>1, StartsOver DEF Over, Connectors
<1> HIDE DEF o
<1>5. CASE ~conn.there
  <2>1. exec' = [exec EXCEPT ![s] = C!Retried(e)]
    BY <1>3, <1>5
  <2> QED BY <1>4, <1>5, <2>1, Replaced DEF SyncTypes, C!Open
<1>6. CASE conn.there
  <2>1. exec' = [exec EXCEPT ![s] = o]
    BY <1>3, <1>6
  <2> QED BY <1>2, <1>6, <2>1, Replaced DEF SyncTypes, C!Open
<1> QED BY <1>5, <1>6

\* What a call for a link leaves behind, and how a link goes on.
LEMMA CallFields ==
    ASSUME NEW e \in Execs, NEW l \in Link, NEW wrote \in BOOLEAN
    PROVE  /\ C!Reached(e, l, wrote) \in Execs /\ Kept(e, C!Reached(e, l, wrote))
           /\ C!Reached(e, l, wrote).failures = e.failures
           /\ C!Reached(e, l, wrote).reached = e.reached \union {l}
           /\ C!Reached(e, l, wrote).pc = e.pc /\ C!Reached(e, l, wrote).todo = e.todo
           /\ C!Failed(e, wrote) \in Execs /\ Kept(e, C!Failed(e, wrote))
           /\ C!Failed(e, wrote).failures = e.failures + 1
           /\ C!Failed(e, wrote).reached = e.reached
           /\ C!Failed(e, wrote).pc = e.pc /\ C!Failed(e, wrote).todo = e.todo
<1>1. PICK r \in BOOLEAN, w \in BOOLEAN : r = (e.read \/ wrote) /\ w = (e.wrote \/ wrote)
  OBVIOUS
<1>2. PICK n \in Nat : n = e.failures + 1
  BY DEF Execs
<1>3. r \in BOOLEAN /\ w \in BOOLEAN /\ n \in Nat
  BY <1>1, <1>2
<1>4. C!Reached(e, l, wrote) = [e EXCEPT !.read = r, !.wrote = w, !.reached = @ \union {l}]
  BY <1>1 DEF C!Reached
<1>5. C!Failed(e, wrote) = [e EXCEPT !.failures = n, !.read = r]
  BY <1>1, <1>2 DEF C!Failed
<1>6. C!Reached(e, l, wrote) \in Execs /\ C!Failed(e, wrote) \in Execs
  <2>1. [e EXCEPT !.read = r, !.wrote = w, !.reached = @ \union {l}] \in Execs
    BY <1>3 DEF Execs
  <2>2. [e EXCEPT !.failures = n, !.read = r] \in Execs
    BY <1>3 DEF Execs
  <2> QED BY <1>4, <1>5, <2>1, <2>2
<1>7. /\ Kept(e, C!Reached(e, l, wrote)) /\ C!Reached(e, l, wrote).failures = e.failures
      /\ C!Reached(e, l, wrote).reached = e.reached \union {l}
      /\ C!Reached(e, l, wrote).pc = e.pc /\ C!Reached(e, l, wrote).todo = e.todo
  BY <1>4 DEF Execs, Kept
<1>8. /\ Kept(e, C!Failed(e, wrote)) /\ C!Failed(e, wrote).failures = n
      /\ C!Failed(e, wrote).reached = e.reached
      /\ C!Failed(e, wrote).pc = e.pc /\ C!Failed(e, wrote).todo = e.todo
  BY <1>5 DEF Execs, Kept
<1> QED BY <1>2, <1>6, <1>7, <1>8

\* A link that is settled, or waits for its reviews, changes nothing else.
LEMMA LinkFields ==
    ASSUME NEW e \in Execs, NEW l \in Link
    PROVE  /\ C!Settled(e, l) \in Execs /\ Kept(e, C!Settled(e, l)) /\ Alike(e, C!Settled(e, l))
           /\ C!Settled(e, l).pc = "fetch" /\ C!Settled(e, l).todo = e.todo \ {l}
           /\ C!After(e, l) \in Execs /\ Kept(e, C!After(e, l)) /\ Alike(e, C!After(e, l))
           /\ IF conn.reviews THEN C!After(e, l).pc = "reviews" /\ C!After(e, l).todo = e.todo
              ELSE C!After(e, l).pc = "fetch" /\ C!After(e, l).todo = e.todo \ {l}
BY DEF Execs, Kept, Alike, C!Settled, C!After

\* Metrics that are fetched reach their link; its reviews follow, if there are any.
LEMMA MetricsFields ==
    ASSUME SyncTypes, NEW s \in Slot, NEW l \in Link, C!Metrics(s, l)
    PROVE  /\ exec' \in [Slot -> Execs] /\ Only(s)
           /\ exec[s].pc = "fetch" /\ l \in exec[s].todo
           /\ Kept(exec[s], exec'[s]) /\ exec'[s].failures = exec[s].failures
           /\ exec'[s].reached = exec[s].reached \union {l}
           /\ IF conn.reviews THEN exec'[s].pc = "reviews" /\ exec'[s].todo = exec[s].todo
              ELSE exec'[s].pc = "fetch" /\ exec'[s].todo = exec[s].todo \ {l}
           /\ dirty' \in {dirty, dirty \union {l}}
           /\ UNCHANGED <<conn, link, runs, tester, epoch, spent>>
<1>1. exec[s] \in Execs /\ exec[s].pc = "fetch" /\ l \in exec[s].todo
  BY DEF SyncTypes, C!Metrics, C!Fetching
<1>2. PICK rows \in BOOLEAN :
        /\ exec' = [exec EXCEPT ![s] = C!After(C!Reached(exec[s], l, rows), l)]
        /\ dirty' = IF rows THEN dirty \union {l} ELSE dirty
  BY DEF C!Metrics
<1> DEFINE m == C!Reached(exec[s], l, rows)
           o == C!After(m, l)
<1>3. /\ m \in Execs /\ Kept(exec[s], m) /\ m.failures = exec[s].failures
      /\ m.reached = exec[s].reached \union {l} /\ m.todo = exec[s].todo
  BY <1>1, CallFields
<1>4. o \in Execs /\ Kept(m, o) /\ Alike(m, o)
      /\ IF conn.reviews THEN o.pc = "reviews" /\ o.todo = m.todo
         ELSE o.pc = "fetch" /\ o.todo = m.todo \ {l}
  BY <1>3, LinkFields
<1>5. exec' = [exec EXCEPT ![s] = o] /\ dirty' \in {dirty, dirty \union {l}}
  BY <1>2
<1> HIDE DEF o, m
<1>6. exec' \in [Slot -> Execs] /\ Only(s) /\ exec'[s] = o
  BY <1>4, <1>5, Replaced DEF SyncTypes
<1>7. UNCHANGED <<conn, link, runs, tester, epoch, spent>>
  BY DEF C!Metrics
<1> QED BY <1>1, <1>3, <1>4, <1>5, <1>6, <1>7 DEF Kept, Alike

\* Metrics that fail are counted, and may have been written in part.
LEMMA MetricsFailFields ==
    ASSUME SyncTypes, NEW s \in Slot, NEW l \in Link, C!MetricsFail(s, l)
    PROVE  /\ exec' \in [Slot -> Execs] /\ Only(s)
           /\ exec[s].pc = "fetch" /\ l \in exec[s].todo
           /\ Kept(exec[s], exec'[s]) /\ exec'[s].failures = exec[s].failures + 1
           /\ exec'[s].reached = exec[s].reached
           /\ IF conn.reviews THEN exec'[s].pc = "reviews" /\ exec'[s].todo = exec[s].todo
              ELSE exec'[s].pc = "fetch" /\ exec'[s].todo = exec[s].todo \ {l}
           /\ dirty' \in {dirty, dirty \union {l}}
           /\ UNCHANGED <<conn, link, runs, tester, epoch>>
           /\ spent' \in [C!Bounds -> Nat] /\ \A d \in C!Bounds : spent'[d] >= spent[d]
<1>1. exec[s] \in Execs /\ exec[s].pc = "fetch" /\ l \in exec[s].todo
  BY DEF SyncTypes, C!MetricsFail, C!Fetching
<1>2. PICK batches \in BOOLEAN :
        /\ exec' = [exec EXCEPT ![s] = C!After(C!Failed(exec[s], batches), l)]
        /\ dirty' = IF batches THEN dirty \union {l} ELSE dirty
  BY DEF C!MetricsFail
<1> DEFINE m == C!Failed(exec[s], batches)
           o == C!After(m, l)
<1>3. /\ m \in Execs /\ Kept(exec[s], m) /\ m.failures = exec[s].failures + 1
      /\ m.reached = exec[s].reached /\ m.todo = exec[s].todo
  BY <1>1, CallFields
<1>4. o \in Execs /\ Kept(m, o) /\ Alike(m, o)
      /\ IF conn.reviews THEN o.pc = "reviews" /\ o.todo = m.todo
         ELSE o.pc = "fetch" /\ o.todo = m.todo \ {l}
  BY <1>3, LinkFields
<1>5. exec' = [exec EXCEPT ![s] = o] /\ dirty' \in {dirty, dirty \union {l}}
  BY <1>2
<1> HIDE DEF o, m
<1>6. exec' \in [Slot -> Execs] /\ Only(s) /\ exec'[s] = o
  BY <1>4, <1>5, Replaced DEF SyncTypes
<1>7. C!Spend("faults") /\ "faults" \in C!Bounds
  BY DEF C!MetricsFail, C!Bounds
<1>8. spent' \in [C!Bounds -> Nat] /\ \A d \in C!Bounds : spent'[d] >= spent[d]
  BY <1>7, SyncSpendType DEF SyncTypes
<1>9. UNCHANGED <<conn, link, runs, tester, epoch>>
  BY DEF C!MetricsFail
<1> QED BY <1>1, <1>3, <1>4, <1>5, <1>6, <1>8, <1>9 DEF Kept, Alike

\* A link's reviews settle it.
LEMMA ReviewsFields ==
    ASSUME SyncTypes, NEW s \in Slot, NEW l \in Link, C!Reviews(s, l)
    PROVE  /\ exec' \in [Slot -> Execs] /\ Only(s)
           /\ exec[s].pc = "reviews" /\ exec'[s].pc = "fetch"
           /\ exec'[s].todo = exec[s].todo \ {l} /\ Kept(exec[s], exec'[s])
           /\ UNCHANGED <<conn, link, runs, tester, dirty, epoch>>
           /\ spent' \in [C!Bounds -> Nat] /\ \A d \in C!Bounds : spent'[d] >= spent[d]
<1>1. exec[s] \in Execs /\ exec[s].pc = "reviews"
  BY DEF SyncTypes, C!Reviews
<1>2. PICK m \in {C!Reached(exec[s], l, rows) : rows \in BOOLEAN}
                 \union {C!Failed(exec[s], batches) : batches \in BOOLEAN} :
        exec' = [exec EXCEPT ![s] = C!Settled(m, l)]
  BY DEF C!Reviews
<1>3. m \in Execs /\ Kept(exec[s], m) /\ m.todo = exec[s].todo
  BY <1>1, <1>2, CallFields
<1> DEFINE o == C!Settled(m, l)
<1>4. o \in Execs /\ Kept(m, o) /\ o.pc = "fetch" /\ o.todo = m.todo \ {l}
  BY <1>3, LinkFields
<1>5. exec' = [exec EXCEPT ![s] = o]
  BY <1>2
<1> HIDE DEF o
<1>6. exec' \in [Slot -> Execs] /\ Only(s) /\ exec'[s] = o
  BY <1>4, <1>5, Replaced DEF SyncTypes
<1>7. spent' \in [C!Bounds -> Nat] /\ \A d \in C!Bounds : spent'[d] >= spent[d]
  <2>1. spent' = spent \/ C!Spend("faults")
    BY DEF C!Reviews
  <2>2. "faults" \in C!Bounds
    BY DEF C!Bounds
  <2> QED BY <2>1, <2>2, SyncSpendType DEF SyncTypes
<1>8. UNCHANGED <<conn, link, runs, tester, dirty, epoch>>
  BY DEF C!Reviews
<1> QED BY <1>1, <1>3, <1>4, <1>6, <1>7, <1>8 DEF Kept

\* A sync that has been through its links writes the row, if that is still there, and goes on
\* to derive all of them.
LEMMA CloseFields ==
    ASSUME SyncTypes, NEW s \in Slot, C!Close(s)
    PROVE  /\ exec' \in [Slot -> Execs] /\ Only(s)
           /\ exec[s].pc = "fetch" /\ exec[s].todo = {}
           /\ Kept(exec[s], exec'[s]) /\ Alike(exec[s], exec'[s])
           /\ exec'[s].todo = exec[s].of
           /\ exec'[s].pc = (IF conn.there THEN "derive" ELSE "fail")
           /\ conn' \in C!Conn /\ conn'.there = conn.there /\ conn'.reviews = conn.reviews
           /\ conn'.status \in {conn.status, "ACTIVE"}
           /\ UNCHANGED <<link, runs, tester, dirty, epoch, spent>>
<1>1. exec[s] \in Execs /\ exec[s].pc = "fetch" /\ exec[s].todo = {} /\ conn \in C!Conn
  BY DEF SyncTypes, C!TypeOK, C!Close
<1>2. PICK p \in {"derive", "fail"} : p = IF conn.there THEN "derive" ELSE "fail"
  OBVIOUS
<1> DEFINE o == [exec[s] EXCEPT !.pc = p, !.todo = exec[s].of]
<1>3. o \in Execs /\ Kept(exec[s], o) /\ Alike(exec[s], o) /\ o.todo = exec[s].of /\ o.pc = p
  <2> DEFINE e == exec[s]
  <2> HIDE DEF e
  <2>1. p \in {"derive", "fail"}
    BY <1>2
  <2> QED BY <1>1, <2>1 DEF Execs, Kept, Alike
<1>4. exec' = [exec EXCEPT ![s] = o]
  BY <1>2 DEF C!Close, C!ToDerive, SyncTypes
<1> HIDE DEF o
<1>5. exec' \in [Slot -> Execs] /\ Only(s) /\ exec'[s] = o
  BY <1>3, <1>4, Replaced DEF SyncTypes
<1>6. /\ conn' \in C!Conn /\ conn'.there = conn.there /\ conn'.reviews = conn.reviews
      /\ conn'.status \in {conn.status, "ACTIVE"}
  <2>1. PICK n \in Nat : n = IF C!HasSuccess(exec[s]) THEN 0 ELSE conn.errors + 1
    BY <1>1 DEF C!Conn
  <2>2. n \in Nat /\ "ACTIVE" \in C!Status
    BY <2>1 DEF C!Status
  <2>3. CASE ~conn.there
    BY <1>1, <2>3 DEF C!Close
  <2>4. CASE conn.there
    <3>1. conn' = [conn EXCEPT !.status = "ACTIVE", !.errors = n]
      BY <2>1, <2>4 DEF C!Close
    <3> QED BY <1>1, <2>2, <3>1 DEF C!Conn
  <2> QED BY <2>3, <2>4
<1>7. UNCHANGED <<link, runs, tester, dirty, epoch, spent>>
  BY DEF C!Close
<1> QED BY <1>1, <1>2, <1>3, <1>5, <1>6, <1>7

\* Deriving a link takes it off the list.
LEMMA DeriveFields ==
    ASSUME SyncTypes, NEW s \in Slot, NEW l \in Link, C!Derive(s, l)
    PROVE  /\ exec' \in [Slot -> Execs] /\ Only(s)
           /\ exec[s].pc = "derive" /\ l \in exec[s].todo /\ exec'[s].pc = "derive"
           /\ Kept(exec[s], exec'[s]) /\ Alike(exec[s], exec'[s])
           /\ exec'[s].todo = exec[s].todo \ {l} /\ dirty' = dirty \ {l}
           /\ UNCHANGED <<conn, link, runs, tester, epoch, spent>>
<1> DEFINE o == [exec[s] EXCEPT !.todo = @ \ {l}]
<1>1. exec[s] \in Execs /\ exec[s].pc = "derive" /\ l \in exec[s].todo
  BY DEF SyncTypes, C!Derive
<1>2. o \in Execs /\ Kept(exec[s], o) /\ Alike(exec[s], o) /\ o.pc = "derive"
      /\ o.todo = exec[s].todo \ {l}
  BY <1>1 DEF Execs, Kept, Alike
<1>3. exec' = [exec EXCEPT ![s] = o]
  BY DEF C!Derive
<1> HIDE DEF o
<1>4. exec' \in [Slot -> Execs] /\ Only(s) /\ exec'[s] = o
  BY <1>2, <1>3, Replaced DEF SyncTypes
<1>5. dirty' = dirty \ {l} /\ UNCHANGED <<conn, link, runs, tester, epoch, spent>>
  BY DEF C!Derive
<1> QED BY <1>1, <1>2, <1>4, <1>5

\* One that cannot queue a derivation fails, with that one left.
LEMMA DeriveFailsFields ==
    ASSUME SyncTypes, NEW s \in Slot, C!DeriveFails(s)
    PROVE  /\ exec' \in [Slot -> Execs] /\ Only(s)
           /\ exec[s].pc = "derive" /\ exec[s].todo # {} /\ exec'[s].pc = "fail"
           /\ Kept(exec[s], exec'[s]) /\ Alike(exec[s], exec'[s])
           /\ exec'[s].todo = exec[s].todo
           /\ UNCHANGED <<conn, link, runs, tester, dirty, epoch>>
           /\ spent' \in [C!Bounds -> Nat] /\ \A d \in C!Bounds : spent'[d] >= spent[d]
           /\ spent'["unqueued"] > 0
<1> DEFINE o == [exec[s] EXCEPT !.pc = "fail"]
<1>1. exec[s] \in Execs /\ exec[s].pc = "derive" /\ exec[s].todo # {}
  BY DEF SyncTypes, C!DeriveFails
<1>2. o \in Execs /\ Kept(exec[s], o) /\ Alike(exec[s], o) /\ o.pc = "fail"
      /\ o.todo = exec[s].todo
  BY <1>1 DEF Execs, Kept, Alike
<1>3. exec' = [exec EXCEPT ![s] = o]
  BY DEF C!DeriveFails
<1> HIDE DEF o
<1>4. exec' \in [Slot -> Execs] /\ Only(s) /\ exec'[s] = o
  BY <1>2, <1>3, Replaced DEF SyncTypes
<1>5. C!Spend("unqueued") /\ "unqueued" \in C!Bounds
  BY DEF C!DeriveFails, C!Bounds
<1>6. /\ spent' \in [C!Bounds -> Nat] /\ \A d \in C!Bounds : spent'[d] >= spent[d]
      /\ spent'["unqueued"] > 0
  BY <1>5, SyncSpendType DEF SyncTypes
<1>7. UNCHANGED <<conn, link, runs, tester, dirty, epoch>>
  BY DEF C!DeriveFails
<1> QED BY <1>1, <1>2, <1>4, <1>6, <1>7

Outcomes == {"RUNNING", "SUCCESS", "PARTIAL", "FAILED", "GONE"}

\* A run is ended by its execution, unless it went with its connection.
LEMMA FinishedRuns ==
    ASSUME runs \in Seq(Outcomes), NEW e \in Execs, e.run \in DOMAIN runs,
           NEW status \in Outcomes \ {"RUNNING", "GONE"}
    PROVE  /\ C!Finished(e, status) \in Seq(Outcomes)
           /\ DOMAIN C!Finished(e, status) = DOMAIN runs
           /\ C!Finished(e, status)[e.run] = IF runs[e.run] = "GONE" THEN "GONE" ELSE status
           /\ \A r \in DOMAIN runs \ {e.run} : C!Finished(e, status)[r] = runs[r]
<1>1. CASE runs[e.run] = "GONE"
  BY <1>1 DEF C!Finished
<1>2. CASE runs[e.run] # "GONE"
  BY <1>2 DEF C!Finished
<1> QED BY <1>1, <1>2

\* A sync that is through fails if every link failed or its run is gone; or it is over, and
\* its run a success.
LEMMA FinishFields ==
    ASSUME Connectors, SyncTypes, NEW s \in Slot, C!Finish(s)
    PROVE  /\ exec' \in [Slot -> Execs] /\ Only(s)
           /\ exec[s].pc = "derive" /\ exec[s].todo = {} /\ exec[s].run \in DOMAIN runs
           /\ \/ /\ exec'[s].pc = "fail" /\ Kept(exec[s], exec'[s]) /\ Alike(exec[s], exec'[s])
                 /\ exec'[s].todo = exec[s].todo /\ runs' = runs
                 /\ C!TotalFailure(exec[s]) \/ runs[exec[s].run] = "GONE"
              \/ /\ Over(exec'[s]) /\ ~C!TotalFailure(exec[s]) /\ runs[exec[s].run] # "GONE"
                 /\ runs' \in Seq(Outcomes) /\ DOMAIN runs' = DOMAIN runs
                 /\ runs'[exec[s].run] \in {"PARTIAL", "SUCCESS"}
                 /\ \A r \in DOMAIN runs \ {exec[s].run} : runs'[r] = runs[r]
           /\ UNCHANGED <<conn, link, tester, dirty, epoch, spent>>
<1> DEFINE o == [exec[s] EXCEPT !.pc = "fail"]
<1>1. /\ exec[s] \in Execs /\ exec[s].pc = "derive" /\ exec[s].todo = {}
      /\ exec[s].run \in DOMAIN runs /\ runs \in Seq(Outcomes)
  BY DEF SyncTypes, C!Finish, C!TypeOK, C!Working, Outcomes
<1>2. o \in Execs /\ Kept(exec[s], o) /\ Alike(exec[s], o) /\ o.pc = "fail"
      /\ o.todo = exec[s].todo
  BY <1>1 DEF Execs, Kept, Alike
<1>3. C!Idle \in Execs /\ Over(C!Idle)
  BY <1>1, StartsOver DEF Over, Connectors
<1>4. UNCHANGED <<conn, link, tester, dirty, epoch, spent>>
  BY DEF C!Finish
<1>5. CASE C!TotalFailure(exec[s]) \/ runs[exec[s].run] = "GONE"
  <2>1. exec' = [exec EXCEPT ![s] = o] /\ runs' = runs
    BY <1>5 DEF C!Finish
  <2> HIDE DEF o
  <2>2. exec' \in [Slot -> Execs] /\ Only(s) /\ exec'[s] = o
    BY <1>2, <2>1, Replaced DEF SyncTypes
  <2> QED BY <1>1, <1>2, <1>4, <1>5, <2>1, <2>2
<1>6. CASE ~(C!TotalFailure(exec[s]) \/ runs[exec[s].run] = "GONE")
  <2>1. PICK status \in {"PARTIAL", "SUCCESS"} :
          exec' = [exec EXCEPT ![s] = C!Idle] /\ runs' = C!Finished(exec[s], status)
    BY <1>6 DEF C!Finish
  <2>2. exec' \in [Slot -> Execs] /\ Only(s) /\ exec'[s] = C!Idle
    BY <1>3, <2>1, Replaced DEF SyncTypes
  <2>3. status \in Outcomes \ {"RUNNING", "GONE"}
    BY <2>1 DEF Outcomes
  <2>4. /\ runs' \in Seq(Outcomes) /\ DOMAIN runs' = DOMAIN runs
        /\ runs'[exec[s].run] = status
        /\ \A r \in DOMAIN runs \ {exec[s].run} : runs'[r] = runs[r]
    BY <1>1, <1>6, <2>1, <2>3, FinishedRuns
  <2> QED BY <1>1, <1>3, <1>4, <1>6, <2>1, <2>2, <2>4
<1> QED BY <1>5, <1>6

\* One that fails ends its run so, and starts over.
LEMMA FailFields ==
    ASSUME Connectors, SyncTypes, NEW s \in Slot, C!Fail(s)
    PROVE  /\ exec' \in [Slot -> Execs] /\ Only(s) /\ Over(exec'[s])
           /\ exec[s].pc = "fail" /\ exec[s].run \in DOMAIN runs
           /\ runs' \in Seq(Outcomes) /\ DOMAIN runs' = DOMAIN runs
           /\ runs'[exec[s].run] = (IF runs[exec[s].run] = "GONE" THEN "GONE" ELSE "FAILED")
           /\ \A r \in DOMAIN runs \ {exec[s].run} : runs'[r] = runs[r]
           /\ UNCHANGED <<conn, link, tester, dirty, epoch, spent>>
<1> DEFINE o == C!Retried(exec[s])
<1>1. /\ exec[s] \in Execs /\ exec[s].pc = "fail"
      /\ exec[s].run \in DOMAIN runs /\ runs \in Seq(Outcomes)
  BY DEF SyncTypes, C!Fail, C!TypeOK, C!Working, Outcomes
<1>2. o \in Execs /\ Over(o)
  BY <1>1, StartsOver DEF Over, Connectors
<1>3. exec' = [exec EXCEPT ![s] = o] /\ runs' = C!Finished(exec[s], "FAILED")
  BY DEF C!Fail, C!FailedRuns
<1> HIDE DEF o
<1>4. exec' \in [Slot -> Execs] /\ Only(s) /\ exec'[s] = o
  BY <1>2, <1>3, Replaced DEF SyncTypes
<1>5. "FAILED" \in Outcomes \ {"RUNNING", "GONE"}
  BY DEF Outcomes
<1>6. /\ runs' \in Seq(Outcomes) /\ DOMAIN runs' = DOMAIN runs
      /\ runs'[exec[s].run] = (IF runs[exec[s].run] = "GONE" THEN "GONE" ELSE "FAILED")
      /\ \A r \in DOMAIN runs \ {exec[s].run} : runs'[r] = runs[r]
  BY <1>1, <1>3, <1>5, FinishedRuns
<1>7. UNCHANGED <<conn, link, tester, dirty, epoch, spent>>
  BY DEF C!Fail
<1> QED BY <1>1, <1>2, <1>4, <1>6, <1>7

\* The tests, the token refreshes and the admin leave the executions alone; only the admin
\* switches the connection, or removes it with its runs.
Elsewhere ==
    \/ \E s \in Slot : C!RefreshToken(s)
    \/ C!StartTest \/ C!TestRefreshes \/ C!TestAnswers \/ C!TestThrows \/ C!ReadErrors
    \/ C!RecordError \/ C!SetStatus \/ C!Reconnect \/ C!RotateKey \/ C!Remove \/ C!Relink

\* A row that is good again, or gone, is one with the same connector.
LEMMA RowTypes ==
    ASSUME NEW c \in C!Conn
    PROVE  /\ C!Good(c) \in C!Conn /\ C!Good(c).status = "ACTIVE"
           /\ C!Good(c).there = c.there /\ C!Good(c).reviews = c.reviews
           /\ LET d == [c EXCEPT !.there = FALSE]
              IN  d \in C!Conn /\ d.status = c.status /\ ~d.there /\ d.reviews = c.reviews
<1>1. "ACTIVE" \in C!Status
  BY DEF C!Status
<1> QED BY <1>1 DEF C!Conn, C!Good

\* The row with these three columns written, and what that leaves alone.
Row(c, status, errors, readable) ==
    [c EXCEPT !.status = status, !.errors = errors, !.readable = readable]
Written(c, d, status) ==
    d \in C!Conn /\ d.status = status /\ d.there = c.there /\ d.reviews = c.reviews

\* Writing these columns gives a row, with the status written.
LEMMA WrittenTypes ==
    ASSUME NEW c \in C!Conn, NEW status \in C!Status, NEW errors \in Nat,
           NEW readable \in BOOLEAN
    PROVE  Written(c, Row(c, status, errors, readable), status)
BY DEF C!Conn, Row, Written

\* Each step that leaves the executions alone: only a switch disables the connection, and only
\* a removal ends its runs.
LEMMA ElsewhereFields ==
    ASSUME SyncTypes, Elsewhere
    PROVE  /\ exec' = exec /\ dirty' = dirty
           /\ conn' \in C!Conn /\ conn'.reviews = conn.reviews
           /\ link' \subseteq Link /\ tester' \in Testers
           /\ spent' \in [C!Bounds -> Nat] /\ \A d \in C!Bounds : spent'[d] >= spent[d]
           /\ epoch' \in {epoch, epoch + 1}
           /\ conn'.status = "DISABLED" => conn.status = "DISABLED" \/ epoch' = epoch + 1
           /\ \/ conn'.there = conn.there /\ runs' = runs
              \/ /\ ~conn'.there /\ runs' \in Seq(Outcomes) /\ DOMAIN runs' = DOMAIN runs
                 /\ \A r \in DOMAIN runs : runs'[r] = "GONE"
<1>1. /\ conn \in C!Conn /\ conn.status \in C!Status /\ conn.errors \in Nat
      /\ conn.readable \in BOOLEAN /\ conn.there \in BOOLEAN
      /\ link \subseteq Link /\ tester \in Testers
      /\ tester.errors \in Nat /\ spent \in [C!Bounds -> Nat] /\ epoch \in Nat
      /\ runs \in Seq(Outcomes)
  BY DEF SyncTypes, C!TypeOK, C!Conn, Testers, Outcomes
<1>2. {"faults", "tests", "refreshes", "admin", "unlinks"} \subseteq C!Bounds
  BY DEF C!Bounds
<1>3. spent' = spent \/ \E b \in C!Bounds : C!Spend(b)
  BY <1>2 DEF Elsewhere, C!RefreshToken, C!StartTest, C!TestRefreshes, C!TestAnswers,
     C!TestThrows, C!ReadErrors, C!RecordError, C!SetStatus, C!Reconnect, C!RotateKey,
     C!Remove, C!Relink, C!Admin
<1>4. spent' \in [C!Bounds -> Nat] /\ \A d \in C!Bounds : spent'[d] >= spent[d]
  BY <1>1, <1>3, SyncSpendType
<1>5. exec' = exec /\ dirty' = dirty
  BY DEF Elsewhere, C!RefreshToken, C!StartTest, C!TestRefreshes, C!TestAnswers,
     C!TestThrows, C!ReadErrors, C!RecordError, C!SetStatus, C!Reconnect, C!RotateKey,
     C!Remove, C!Relink, C!Admin
<1>6. CASE (\E s \in Slot : C!RefreshToken(s)) \/ C!TestRefreshes
  <2>1. conn' = C!Good(conn) /\ UNCHANGED <<link, runs, tester, epoch>>
    BY <1>6 DEF C!RefreshToken, C!TestRefreshes
  <2> QED BY <1>1, <1>4, <1>5, <2>1, RowTypes
<1>7. CASE C!StartTest \/ C!TestThrows \/ C!ReadErrors
  <2>1. UNCHANGED <<conn, link, runs, epoch>>
    BY <1>7 DEF C!StartTest, C!TestThrows, C!ReadErrors
  <2>2. tester' \in Testers
    BY <1>1, <1>7 DEF C!StartTest, C!TestThrows, C!ReadErrors, Testers
  <2> QED BY <1>1, <1>4, <1>5, <2>1, <2>2
<1>8. CASE C!TestAnswers
  <2>1. tester' \in Testers /\ UNCHANGED <<link, runs, epoch>>
    BY <1>1, <1>8 DEF C!TestAnswers, Testers
  <2>2. CASE conn' \in {conn, C!Good(conn)}
    BY <1>1, <1>4, <1>5, <2>1, <2>2, RowTypes
  <2>3. CASE conn' = [conn EXCEPT !.status = "ERROR", !.errors = @ + 1]
    <3>1. conn' = Row(conn, "ERROR", conn.errors + 1, conn.readable)
      BY <1>1, <2>3 DEF C!Conn, Row
    <3>2. "ERROR" \in C!Status /\ conn.errors + 1 \in Nat
      BY <1>1 DEF C!Status
    <3>3. Written(conn, Row(conn, "ERROR", conn.errors + 1, conn.readable), "ERROR")
      BY <1>1, <3>2, WrittenTypes, Zenon
    <3>4. Written(conn, conn', "ERROR")
      BY <3>1, <3>3
    <3> QED BY <1>1, <1>4, <1>5, <2>1, <3>4 DEF Written
  <2> QED BY <1>8, <2>2, <2>3 DEF C!TestAnswers
<1>9. CASE C!RecordError
  <2>1. tester' \in Testers /\ UNCHANGED <<link, runs, epoch>>
    BY <1>1, <1>9 DEF C!RecordError, Testers
  <2>2. PICK n \in Nat : n = tester.errors + 1
    BY <1>1
  <2>3. PICK status \in C!Status :
          status = IF tester.refused THEN "NEEDS_REAUTH"
                   ELSE IF n >= ErrorLimit THEN "ERROR" ELSE conn.status
    BY <1>1 DEF C!Status
  <2>4. conn' = conn \/ conn' = [conn EXCEPT !.errors = n, !.status = status]
    BY <1>9, <2>2, <2>3 DEF C!RecordError
  <2>5. /\ conn' \in C!Conn /\ conn'.status \in {conn.status, status}
        /\ conn'.there = conn.there /\ conn'.reviews = conn.reviews
    <3>1. CASE conn' = [conn EXCEPT !.errors = n, !.status = status]
      <4>1. conn' = Row(conn, status, n, conn.readable)
        BY <1>1, <3>1 DEF C!Conn, Row
      <4>2. status \in C!Status /\ n \in Nat
        BY <2>2, <2>3
      <4>3. Written(conn, Row(conn, status, n, conn.readable), status)
        BY <1>1, <4>2, WrittenTypes, Zenon
      <4> QED BY <4>1, <4>3 DEF Written
    <3> QED BY <1>1, <2>4, <3>1
  <2> QED BY <1>1, <1>4, <1>5, <2>1, <2>3, <2>5
<1>10. CASE C!SetStatus \/ C!Reconnect \/ C!RotateKey
  <2>1. UNCHANGED <<link, runs, tester>>
    BY <1>10 DEF C!SetStatus, C!Reconnect, C!RotateKey, C!Admin
  <2>2. PICK status \in {"PENDING", "DISABLED", conn.status}, errors \in {0, conn.errors},
             readable \in BOOLEAN :
          /\ conn' = Row(conn, status, errors, readable)
          /\ IF status = "DISABLED" /\ conn.status # "DISABLED" THEN epoch' = epoch + 1
             ELSE epoch' \in {epoch, epoch + 1}
    <3>1. CASE C!SetStatus
      <4>1. PICK status \in {"PENDING", "DISABLED"} : conn' = [conn EXCEPT !.status = status]
        BY <3>1 DEF C!SetStatus
      <4>2. conn' = Row(conn, status, conn.errors, conn.readable)
        BY <1>1, <4>1 DEF C!Conn, Row
      <4>3. epoch' = epoch + 1
        BY <3>1 DEF C!SetStatus
      <4> QED BY <1>1, <4>1, <4>2, <4>3
    <3>2. CASE C!Reconnect
      <4>1. conn' = Row(conn, "PENDING", 0, TRUE) /\ epoch' = epoch + 1
        BY <3>2 DEF C!Reconnect, Row
      <4> QED BY <4>1
    <3>3. CASE C!RotateKey
      <4>1. conn' = Row(conn, conn.status, conn.errors, FALSE)
        BY <1>1, <3>3 DEF C!RotateKey, C!Conn, Row
      <4> QED BY <1>1, <3>3, <4>1 DEF C!RotateKey
    <3> QED BY <1>10, <3>1, <3>2, <3>3
  <2>3. status \in C!Status /\ errors \in Nat /\ readable \in BOOLEAN
    BY <1>1, <2>2 DEF C!Status
  <2>4. Written(conn, Row(conn, status, errors, readable), status)
    BY <1>1, <2>3, WrittenTypes, Zenon
  <2>5. Written(conn, conn', status)
    BY <2>2, <2>4
  <2> QED BY <1>1, <1>4, <1>5, <2>1, <2>2, <2>5 DEF Written
<1>11. CASE C!Remove
  <2>1. /\ conn' = [conn EXCEPT !.there = FALSE] /\ link' = {}
        /\ runs' = [r \in DOMAIN runs |-> "GONE"] /\ UNCHANGED <<tester, epoch>>
    BY <1>11 DEF C!Remove
  <2>2. runs' \in Seq(Outcomes) /\ DOMAIN runs' = DOMAIN runs
    BY <1>1, <2>1 DEF Outcomes
  <2>3. conn' \in C!Conn /\ conn'.status = conn.status /\ ~conn'.there
        /\ conn'.reviews = conn.reviews
    BY <1>1, <2>1, RowTypes
  <2> QED BY <1>1, <1>4, <1>5, <2>1, <2>2, <2>3
<1>12. CASE C!Relink
  <2>1. link' \subseteq Link /\ UNCHANGED <<conn, runs, tester, epoch>>
    BY <1>1, <1>12 DEF C!Relink
  <2> QED BY <1>1, <1>4, <1>5, <2>1
<1> QED BY <1>6, <1>7, <1>8, <1>9, <1>10, <1>11, <1>12 DEF Elsewhere

\* What an execution may do by itself.
Advances(s) ==
    \/ C!Begin(s) \/ C!Crash(s) \/ C!Load(s) \/ C!Open(s) \/ C!Close(s) \/ C!DeriveFails(s)
    \/ C!Finish(s) \/ C!Fail(s)
    \/ \E l \in Link : C!Metrics(s, l) \/ C!MetricsFail(s, l) \/ C!Reviews(s, l) \/ C!Derive(s, l)

\* Every step is one of an execution, or leaves them all alone.
LEMMA SyncSteps == C!Next => Elsewhere \/ \E s \in Slot : Advances(s)
BY DEF C!Next, C!Step, C!Trouble, Elsewhere, Advances

\* A step of one execution keeps the types if it keeps them itself.
LEMMA AdvanceTypes ==
    ASSUME SyncTypes, NEW s \in Slot, exec' \in [Slot -> Execs], Only(s),
           exec'[s].todo \subseteq exec'[s].of,
           runs' \in Seq(Outcomes), DOMAIN runs \subseteq DOMAIN runs',
           C!Working(exec'[s]) => exec'[s].run \in DOMAIN runs',
           conn' \in C!Conn, dirty' \subseteq Link, spent' \in [C!Bounds -> Nat],
           UNCHANGED <<link, tester, epoch>>
    PROVE  SyncTypes'
<1>1. \A t \in Slot :
        /\ exec'[t] \in Execs /\ exec'[t].todo \subseteq exec'[t].of
        /\ C!Working(exec'[t]) => exec'[t].run \in DOMAIN runs'
  <2> TAKE t \in Slot
  <2>1. CASE t = s
    BY <2>1
  <2>2. CASE t # s
    <3>1. exec'[t] = exec[t] /\ exec[t].todo \subseteq exec[t].of
          /\ (C!Working(exec[t]) => exec[t].run \in DOMAIN runs)
      BY <2>2 DEF Only, SyncTypes, C!TypeOK
    <3> QED BY <3>1
  <2> QED BY <2>1, <2>2
<1>2. \A t \in Slot :
        /\ exec'[t].pc \in {"idle", "load", "open", "fetch", "reviews", "derive", "fail"}
        /\ exec'[t].of \subseteq Link /\ exec'[t].made \in 0 .. Attempts - 1
  BY <1>1 DEF Execs
<1>3. /\ link \subseteq Link /\ tester \in Testers /\ epoch \in Nat
      /\ tester.pc \in {"idle", "call", "count", "record"}
  BY DEF SyncTypes, C!TypeOK, Testers
<1>4. C!TypeOK'
  BY <1>1, <1>2, <1>3 DEF C!TypeOK, Outcomes
<1> QED BY <1>3, <1>4 DEF SyncTypes, Testers

\* The types hold at first ...
LEMMA SyncInit == Connectors /\ C!Init => SyncTypes
<1> SUFFICES ASSUME Connectors, C!Init PROVE SyncTypes
  OBVIOUS
<1>1. conn \in C!Conn
  <2>1. PICK kind \in Connector :
          conn = [there |-> TRUE, status |-> "ACTIVE", errors |-> 0, readable |-> TRUE,
                  reviews |-> kind.reviews, google |-> kind.google]
    BY DEF C!Init
  <2>2. kind.reviews \in BOOLEAN /\ kind.google \in BOOLEAN
    BY DEF Connectors
  <2> QED BY <2>1, <2>2 DEF C!Conn, C!Status
<1>2. C!Idle \in Execs /\ C!Idle.todo = {} /\ C!Idle.of = {} /\ ~C!Working(C!Idle)
  <2>1. 0 \in 0 .. Attempts - 1
    BY DEF Connectors
  <2> QED BY <2>1 DEF C!Idle, Execs, C!Working
<1>3. exec \in [Slot -> Execs] /\ \A s \in Slot : exec[s] = C!Idle
  BY <1>2 DEF C!Init
<1>4. \A s \in Slot :
         /\ exec[s].pc \in {"idle", "load", "open", "fetch", "reviews", "derive", "fail"}
         /\ exec[s].todo \subseteq exec[s].of /\ exec[s].of \subseteq Link
         /\ exec[s].made \in 0 .. Attempts - 1
         /\ C!Working(exec[s]) => exec[s].run \in DOMAIN runs
  BY <1>2, <1>3 DEF Execs
<1>5. tester \in Testers
  BY DEF C!Init, Testers
<1>6. spent \in [C!Bounds -> Nat]
  BY DEF C!Init
<1>7. /\ link \subseteq Link /\ dirty \subseteq Link /\ epoch \in Nat
      /\ runs \in Seq({"RUNNING", "SUCCESS", "PARTIAL", "FAILED", "GONE"})
      /\ tester.pc \in {"idle", "call", "count", "record"}
  BY DEF C!Init
<1> QED BY <1>1, <1>3, <1>4, <1>5, <1>6, <1>7 DEF SyncTypes, C!TypeOK

\* ... and after every step.
LEMMA SyncNextTypes == Connectors /\ SyncTypes /\ [C!Next]_C!vars => SyncTypes'
<1> SUFFICES ASSUME Connectors, SyncTypes, [C!Next]_C!vars PROVE SyncTypes'
  OBVIOUS
<1> USE DEF Outcomes
<1>1. /\ conn \in C!Conn /\ runs \in Seq(Outcomes) /\ dirty \subseteq Link
      /\ spent \in [C!Bounds -> Nat] /\ link \subseteq Link /\ epoch \in Nat
      /\ \A s \in Slot : exec[s].todo \subseteq exec[s].of /\ exec[s] \in Execs
                         /\ (C!Working(exec[s]) => exec[s].run \in DOMAIN runs)
  BY DEF SyncTypes, C!TypeOK
<1>2. CASE UNCHANGED C!vars
  BY <1>2 DEF C!vars, SyncTypes, C!TypeOK, C!Working
<1>3. CASE Elsewhere
  <2>1. \A s \in Slot :
          /\ exec'[s].pc \in {"idle", "load", "open", "fetch", "reviews", "derive", "fail"}
          /\ exec'[s].todo \subseteq exec'[s].of /\ exec'[s].of \subseteq Link
          /\ exec'[s].made \in 0 .. Attempts - 1
          /\ C!Working(exec'[s]) => exec'[s].run \in DOMAIN runs'
    BY <1>1, <1>3, ElsewhereFields DEF Execs
  <2>2. tester'.pc \in {"idle", "call", "count", "record"} /\ epoch' \in Nat
    BY <1>1, <1>3, ElsewhereFields DEF Testers
  <2>3. runs' \in Seq(Outcomes)
    BY <1>1, <1>3, ElsewhereFields
  <2>4. C!TypeOK'
    BY <1>1, <1>3, <2>1, <2>2, <2>3, ElsewhereFields DEF C!TypeOK
  <2>5. exec' \in [Slot -> Execs]
    BY <1>3, ElsewhereFields DEF SyncTypes
  <2> QED BY <1>3, <2>4, <2>5, ElsewhereFields DEF SyncTypes, Testers
<1>4. ASSUME NEW s \in Slot, Advances(s) PROVE SyncTypes'
  <2>1. CASE C!Begin(s) \/ C!Crash(s)
    BY <1>1, <2>1, StartFields, AdvanceTypes DEF Over, C!Working
  <2>2. CASE C!Load(s)
    BY <1>1, <2>2, LoadFields, AdvanceTypes DEF Over, C!Working
  <2>3. CASE C!Open(s)
    <3>1. \/ runs' = runs
          \/ /\ runs' = Append(runs, "RUNNING") /\ Len(runs) + 1 \in DOMAIN runs'
             /\ DOMAIN runs \subseteq DOMAIN runs' /\ runs' \in Seq(Outcomes)
      <4>1. runs' = runs \/ runs' = Append(runs, "RUNNING")
        BY <2>3, OpenFields
      <4> QED BY <1>1, <4>1
    <3> QED BY <1>1, <2>3, <3>1, OpenFields, AdvanceTypes DEF Over, C!Working
  <2>4. CASE C!Close(s)
    BY <1>1, <2>4, CloseFields, AdvanceTypes DEF Kept, C!Working
  <2>5. CASE C!DeriveFails(s)
    BY <1>1, <2>5, DeriveFailsFields, AdvanceTypes DEF Kept, C!Working
  <2>6. CASE C!Finish(s)
    BY <1>1, <2>6, FinishFields, AdvanceTypes DEF Over, Kept, C!Working
  <2>7. CASE C!Fail(s)
    BY <1>1, <2>7, FailFields, AdvanceTypes DEF Over, C!Working
  <2>8. ASSUME NEW l \in Link, C!Metrics(s, l) PROVE SyncTypes'
    BY <1>1, <2>8, MetricsFields, AdvanceTypes DEF Kept, C!Working
  <2>9. ASSUME NEW l \in Link, C!MetricsFail(s, l) PROVE SyncTypes'
    <3>1. /\ exec' \in [Slot -> Execs] /\ Only(s) /\ dirty' \subseteq Link
          /\ UNCHANGED <<conn, link, runs, tester, epoch>> /\ spent' \in [C!Bounds -> Nat]
      BY <1>1, <2>9, MetricsFailFields
    <3>2. exec'[s].todo \subseteq exec'[s].of /\ exec'[s].run \in DOMAIN runs
      BY <1>1, <2>9, MetricsFailFields DEF Kept, C!Working
    <3> QED BY <1>1, <3>1, <3>2, AdvanceTypes
  <2>10. ASSUME NEW l \in Link, C!Reviews(s, l) PROVE SyncTypes'
    BY <1>1, <2>10, ReviewsFields, AdvanceTypes DEF Kept, C!Working
  <2>11. ASSUME NEW l \in Link, C!Derive(s, l) PROVE SyncTypes'
    BY <1>1, <2>11, DeriveFields, AdvanceTypes DEF Kept, C!Working
  <2> QED BY <1>4, <2>1, <2>2, <2>3, <2>4, <2>5, <2>6, <2>7, <2>8, <2>9, <2>10, <2>11
          DEF Advances
<1> QED BY <1>2, <1>3, <1>4, SyncSteps

\* What an execution has counted when it starts, and that a run goes with its connection.
LEMMA SyncNextStarted ==
    Connectors /\ SyncTypes /\ Started /\ GoneTogether /\ [C!Next]_C!vars
        => Started' /\ GoneTogether'
<1> SUFFICES ASSUME Connectors, SyncTypes, Started, GoneTogether, [C!Next]_C!vars
             PROVE  Started' /\ GoneTogether'
  OBVIOUS
<1>1. runs \in Seq(Outcomes)
  BY DEF SyncTypes, C!TypeOK, Outcomes
<1>2. CASE UNCHANGED C!vars
  BY <1>2 DEF C!vars, Started, Fresh, GoneTogether
<1>3. CASE Elsewhere
  <2>1. Started'
    BY <1>3, ElsewhereFields DEF Started, Fresh
  <2>2. GoneTogether'
    BY <1>3, ElsewhereFields DEF GoneTogether
  <2> QED BY <2>1, <2>2
<1>4. ASSUME NEW s \in Slot, Advances(s) PROVE Started' /\ GoneTogether'
  <2>1. ASSUME Only(s), exec'[s].pc \in {"idle", "load", "open"} => Fresh(exec'[s]),
               exec'[s].pc = "open" => exec'[s].todo = exec'[s].of
        PROVE  Started'
    <3> SUFFICES ASSUME NEW t \in Slot
                 PROVE  /\ exec'[t].pc \in {"idle", "load", "open"} => Fresh(exec'[t])
                        /\ exec'[t].pc = "open" => exec'[t].todo = exec'[t].of
      BY DEF Started, Fresh
    <3> QED BY <2>1 DEF Started, Only
  <2>2. ASSUME conn'.there = conn.there,
               \A r \in DOMAIN runs' : runs'[r] = "GONE" => r \in DOMAIN runs /\ runs[r] = "GONE"
        PROVE  GoneTogether'
    BY <2>2 DEF GoneTogether
  <2>3. CASE C!Begin(s) \/ C!Crash(s)
    BY <2>1, <2>2, <2>3, StartFields DEF Over
  <2>4. CASE C!Load(s)
    <3>1. Fresh(exec[s])
      BY <2>4, LoadFields DEF Started
    <3> QED BY <2>1, <2>2, <2>4, <3>1, LoadFields DEF Over, Alike, Fresh
  <2>5. CASE C!Open(s)
    <3>1. conn' = conn /\ runs' \in {runs, Append(runs, "RUNNING")}
      BY <2>5, OpenFields
    <3>2. \A r \in DOMAIN runs' : runs'[r] = "GONE" => r \in DOMAIN runs /\ runs[r] = "GONE"
      BY <1>1, <3>1
    <3>3. Started'
      BY <2>1, <2>5, OpenFields DEF Over
    <3> QED BY <2>2, <3>1, <3>2, <3>3
  <2>6. CASE C!Close(s)
    BY <2>1, <2>2, <2>6, CloseFields
  <2>7. CASE C!DeriveFails(s)
    BY <2>1, <2>2, <2>7, DeriveFailsFields
  <2>8. CASE C!Finish(s)
    BY <2>1, <2>2, <2>8, FinishFields DEF Over
  <2>9. CASE C!Fail(s)
    BY <2>1, <2>2, <2>9, FailFields DEF Over
  <2>10. ASSUME NEW l \in Link, C!Metrics(s, l) PROVE Started' /\ GoneTogether'
    BY <2>1, <2>2, <2>10, MetricsFields
  <2>11. ASSUME NEW l \in Link, C!MetricsFail(s, l) PROVE Started' /\ GoneTogether'
    BY <2>1, <2>2, <2>11, MetricsFailFields
  <2>12. ASSUME NEW l \in Link, C!Reviews(s, l) PROVE Started' /\ GoneTogether'
    BY <2>1, <2>2, <2>12, ReviewsFields
  <2>13. ASSUME NEW l \in Link, C!Derive(s, l) PROVE Started' /\ GoneTogether'
    BY <2>1, <2>2, <2>13, DeriveFields
  <2> QED BY <1>4, <2>3, <2>4, <2>5, <2>6, <2>7, <2>8, <2>9, <2>10, <2>11, <2>12, <2>13
          DEF Advances
<1> QED BY <1>2, <1>3, <1>4, SyncSteps

\* What an execution has read is not newer than the row, and older once that is switched off.
LEMMA SyncNextCurrent ==
    Connectors /\ SyncTypes /\ Current /\ [C!Next]_C!vars => Current'
<1> SUFFICES ASSUME Connectors, SyncTypes, Current, [C!Next]_C!vars PROVE Current'
  OBVIOUS
<1>1. epoch \in Nat /\ \A s \in Slot : exec[s].since \in Nat
  BY DEF SyncTypes, C!TypeOK, Execs
<1>2. CASE UNCHANGED C!vars
  BY <1>2 DEF C!vars, Current
<1>3. CASE Elsewhere
  BY <1>1, <1>3, ElsewhereFields DEF Current
<1>4. ASSUME NEW s \in Slot, Advances(s) PROVE Current'
  <2>1. ASSUME Only(s), epoch' = epoch, conn'.status = "DISABLED" => conn.status = "DISABLED",
               \/ exec'[s].pc \in {"idle", "load"} /\ exec'[s].since = 0
               \/ exec'[s].since = epoch /\ conn'.status # "DISABLED"
               \/ exec'[s].since = exec[s].since /\ exec[s].pc \notin {"idle", "load"}
        PROVE  Current'
    <3> SUFFICES ASSUME NEW t \in Slot
                 PROVE  /\ exec'[t].since <= epoch'
                        /\ conn'.status = "DISABLED" /\ exec'[t].pc \notin {"idle", "load"}
                             => exec'[t].since # epoch'
      BY DEF Current
    <3>1. CASE t # s
      BY <2>1, <3>1 DEF Current, Only
    <3>2. CASE t = s
      BY <1>1, <2>1, <3>2 DEF Current
    <3> QED BY <3>1, <3>2
  <2>2. CASE C!Begin(s) \/ C!Crash(s)
    BY <2>1, <2>2, StartFields DEF Over
  <2>3. CASE C!Load(s)
    BY <2>1, <2>3, LoadFields DEF Over
  <2>4. CASE C!Open(s)
    BY <2>1, <2>4, OpenFields DEF Over
  <2>5. CASE C!Close(s)
    BY <2>1, <2>5, CloseFields DEF Kept
  <2>6. CASE C!DeriveFails(s)
    BY <2>1, <2>6, DeriveFailsFields DEF Kept
  <2>7. CASE C!Finish(s)
    BY <2>1, <2>7, FinishFields DEF Over, Kept
  <2>8. CASE C!Fail(s)
    BY <2>1, <2>8, FailFields DEF Over
  <2>9. ASSUME NEW l \in Link, C!Metrics(s, l) PROVE Current'
    BY <2>1, <2>9, MetricsFields DEF Kept
  <2>10. ASSUME NEW l \in Link, C!MetricsFail(s, l) PROVE Current'
    BY <2>1, <2>10, MetricsFailFields DEF Kept
  <2>11. ASSUME NEW l \in Link, C!Reviews(s, l) PROVE Current'
    BY <2>1, <2>11, ReviewsFields DEF Kept
  <2>12. ASSUME NEW l \in Link, C!Derive(s, l) PROVE Current'
    BY <2>1, <2>12, DeriveFields DEF Kept
  <2> QED BY <1>4, <2>2, <2>3, <2>4, <2>5, <2>6, <2>7, <2>8, <2>9, <2>10, <2>11, <2>12
          DEF Advances
<1> QED BY <1>2, <1>3, <1>4, SyncSteps

\* A run that is open has an execution at work on it, as long as no process has died.
LEMMA SyncNextRunEnds ==
    Connectors /\ SyncTypes /\ C!EveryRunEnds /\ [C!Next]_C!vars => C!EveryRunEnds'
<1> SUFFICES ASSUME Connectors, SyncTypes, C!EveryRunEnds, [C!Next]_C!vars,
                    spent'["crashes"] = 0
             PROVE  \A r \in DOMAIN runs' : runs'[r] = "RUNNING" =>
                      \E t \in Slot : C!Working(exec'[t]) /\ exec'[t].run = r
  BY DEF C!EveryRunEnds, C!Working
<1>1. runs \in Seq(Outcomes) /\ spent["crashes"] \in Nat /\ "crashes" \in C!Bounds
  BY DEF SyncTypes, C!TypeOK, Outcomes, C!Bounds
<1>2. CASE UNCHANGED C!vars
  BY <1>2 DEF C!vars, C!EveryRunEnds, C!Working
<1>3. CASE Elsewhere
  <2>1. spent["crashes"] = 0 /\ exec' = exec /\ runs \in Seq(Outcomes)
    BY <1>1, <1>3, ElsewhereFields
  <2>2. \A r \in DOMAIN runs' : runs'[r] = "RUNNING" => runs' = runs
    BY <1>3, ElsewhereFields
  <2> QED BY <2>1, <2>2 DEF C!EveryRunEnds
<1>4. ASSUME NEW s \in Slot, Advances(s)
      PROVE  \A r \in DOMAIN runs' : runs'[r] = "RUNNING" =>
               \E t \in Slot : C!Working(exec'[t]) /\ exec'[t].run = r
  <2>1. ASSUME Only(s), spent["crashes"] = 0,
               \A r \in DOMAIN runs' : runs'[r] = "RUNNING" =>
                 \/ r \in DOMAIN runs /\ runs[r] = "RUNNING"
                 \/ C!Working(exec'[s]) /\ exec'[s].run = r,
               \A r \in DOMAIN runs' : runs'[r] = "RUNNING" /\ C!Working(exec[s]) /\ exec[s].run = r
                 => C!Working(exec'[s]) /\ exec'[s].run = r
        PROVE  \A r \in DOMAIN runs' : runs'[r] = "RUNNING" =>
                 \E t \in Slot : C!Working(exec'[t]) /\ exec'[t].run = r
    <3> TAKE r \in DOMAIN runs'
    <3> HAVE runs'[r] = "RUNNING"
    <3>1. CASE C!Working(exec'[s]) /\ exec'[s].run = r
      BY <3>1
    <3>2. CASE r \in DOMAIN runs /\ runs[r] = "RUNNING"
      <4>1. PICK t \in Slot : C!Working(exec[t]) /\ exec[t].run = r
        BY <2>1, <3>2 DEF C!EveryRunEnds
      <4>2. CASE t # s
        <5>1. exec'[t] = exec[t]
          BY <2>1, <4>2 DEF Only
        <5> QED BY <4>1, <5>1
      <4>3. CASE t = s
        BY <2>1, <4>1, <4>3
      <4> QED BY <4>2, <4>3
    <3> QED BY <2>1, <3>1, <3>2
  <2>2. CASE C!Begin(s)
    <3>1. spent["crashes"] = 0
      BY <1>1, <2>2, StartFields
    <3>2. ~C!Working(exec[s])
      BY <2>2 DEF C!Begin, C!Working
    <3> QED BY <2>1, <2>2, <3>1, <3>2, StartFields
  <2>3. CASE C!Crash(s)
    <3>1. C!Spend("crashes")
      BY <2>3 DEF C!Crash
    <3> QED BY <1>1, <3>1, SyncSpendType DEF SyncTypes
  <2>4. CASE C!Load(s)
    BY <2>1, <2>4, LoadFields DEF C!Working
  <2>5. CASE C!Open(s)
    <3>1. CASE runs' = runs
      BY <2>1, <2>5, <3>1, OpenFields DEF C!Working
    <3>2. CASE runs' # runs
      <4>1. /\ runs' = Append(runs, "RUNNING") /\ exec'[s].run = Len(runs) + 1
            /\ C!Working(exec'[s]) /\ ~C!Working(exec[s]) /\ Only(s) /\ spent["crashes"] = 0
        BY <2>5, <3>2, OpenFields DEF C!Working
      <4>2. \A r \in DOMAIN runs' :
              \/ r \in DOMAIN runs /\ runs'[r] = runs[r]
              \/ r = Len(runs) + 1
        BY <1>1, <4>1
      <4>3. \A r \in DOMAIN runs' : runs'[r] = "RUNNING" =>
                 \/ r \in DOMAIN runs /\ runs[r] = "RUNNING"
                 \/ C!Working(exec'[s]) /\ exec'[s].run = r
        BY <4>1, <4>2
      <4> QED BY <2>1, <4>1, <4>3
    <3> QED BY <3>1, <3>2
  <2>6. CASE C!Close(s)
    BY <2>1, <2>6, CloseFields DEF Kept, C!Working
  <2>7. CASE C!DeriveFails(s)
    <3>1. spent["crashes"] = 0
      BY <1>1, <2>7, DeriveFailsFields
    <3> QED BY <2>1, <2>7, <3>1, DeriveFailsFields DEF Kept, C!Working
  <2>8. CASE C!Finish(s)
    <3>1. Only(s) /\ spent["crashes"] = 0 /\ exec[s].run \in DOMAIN runs
      BY <2>8, FinishFields
    <3>2. CASE exec'[s].pc = "fail" /\ exec'[s].run = exec[s].run /\ runs' = runs
      BY <2>1, <3>1, <3>2 DEF C!Working
    <3>3. CASE /\ DOMAIN runs' = DOMAIN runs /\ runs'[exec[s].run] \in {"PARTIAL", "SUCCESS"}
               /\ \A r \in DOMAIN runs \ {exec[s].run} : runs'[r] = runs[r]
      BY <2>1, <3>1, <3>3
    <3> QED BY <2>8, <3>2, <3>3, FinishFields DEF Kept
  <2>9. CASE C!Fail(s)
    <3>1. /\ Only(s) /\ spent["crashes"] = 0 /\ DOMAIN runs' = DOMAIN runs
          /\ runs'[exec[s].run] # "RUNNING"
          /\ \A r \in DOMAIN runs \ {exec[s].run} : runs'[r] = runs[r]
      BY <2>9, FailFields
    <3> QED BY <2>1, <3>1
  <2>10. ASSUME NEW l \in Link, C!Metrics(s, l)
         PROVE  \A r \in DOMAIN runs' : runs'[r] = "RUNNING" =>
                  \E t \in Slot : C!Working(exec'[t]) /\ exec'[t].run = r
    BY <2>1, <2>10, MetricsFields DEF Kept, C!Working
  <2>11. ASSUME NEW l \in Link, C!MetricsFail(s, l)
         PROVE  \A r \in DOMAIN runs' : runs'[r] = "RUNNING" =>
                  \E t \in Slot : C!Working(exec'[t]) /\ exec'[t].run = r
    <3>1. spent["crashes"] = 0
      BY <1>1, <2>11, MetricsFailFields
    <3> QED BY <2>1, <2>11, <3>1, MetricsFailFields DEF Kept, C!Working
  <2>12. ASSUME NEW l \in Link, C!Reviews(s, l)
         PROVE  \A r \in DOMAIN runs' : runs'[r] = "RUNNING" =>
                  \E t \in Slot : C!Working(exec'[t]) /\ exec'[t].run = r
    <3>1. spent["crashes"] = 0
      BY <1>1, <2>12, ReviewsFields
    <3> QED BY <2>1, <2>12, <3>1, ReviewsFields DEF Kept, C!Working
  <2>13. ASSUME NEW l \in Link, C!Derive(s, l)
         PROVE  \A r \in DOMAIN runs' : runs'[r] = "RUNNING" =>
                  \E t \in Slot : C!Working(exec'[t]) /\ exec'[t].run = r
    BY <2>1, <2>13, DeriveFields DEF Kept, C!Working
  <2> QED BY <1>4, <2>2, <2>3, <2>4, <2>5, <2>6, <2>7, <2>8, <2>9, <2>10, <2>11, <2>12, <2>13
          DEF Advances
<1> QED BY <1>2, <1>3, <1>4, SyncSteps

\* Metrics that were written are queued to be derived by whoever wrote them.
LEMMA SyncNextDerives ==
    Connectors /\ SyncTypes /\ C!DeriveFollowsWrites /\ [C!Next]_C!vars => C!DeriveFollowsWrites'
<1> SUFFICES ASSUME Connectors, SyncTypes, C!DeriveFollowsWrites, [C!Next]_C!vars,
                    NEW k \in dirty', conn'.there, ~(spent'["crashes"] > 0),
                    ~(spent'["unqueued"] > 0)
             PROVE  \E t \in Slot : C!Deriving(exec'[t], k)
  BY DEF C!DeriveFollowsWrites, C!Deriving
<1>1. /\ spent \in [C!Bounds -> Nat] /\ {"crashes", "unqueued"} \subseteq C!Bounds
      /\ \A s \in Slot : exec[s].todo \subseteq exec[s].of
  BY DEF SyncTypes, C!TypeOK, C!Bounds
<1>2. CASE UNCHANGED C!vars
  BY <1>2 DEF C!vars, C!DeriveFollowsWrites, C!Deriving
<1> DEFINE Calmer == \A d \in C!Bounds : spent'[d] >= spent[d]
<1>3. ASSUME k \in dirty, conn.there, Calmer
      PROVE  \E t \in Slot : C!Deriving(exec[t], k)
  <2>1. /\ spent["crashes"] \in Nat /\ spent["unqueued"] \in Nat
        /\ spent'["crashes"] \in Nat /\ spent'["unqueued"] \in Nat
    BY <1>1, SyncNextTypes DEF SyncTypes
  <2>2. ~(spent["crashes"] > 0) /\ ~(spent["unqueued"] > 0)
    BY <1>1, <1>3, <2>1
  <2> QED BY <1>3, <2>2 DEF C!DeriveFollowsWrites
<1>4. CASE Elsewhere
  <2>1. exec' = exec /\ k \in dirty /\ conn.there /\ Calmer
    BY <1>4, ElsewhereFields
  <2> QED BY <1>3, <2>1
<1>5. ASSUME NEW s \in Slot, Advances(s)
      PROVE  \E t \in Slot : C!Deriving(exec'[t], k)
  <2>1. ASSUME Only(s), Calmer, conn.there,
               k \in dirty \/ C!Deriving(exec'[s], k),
               C!Deriving(exec[s], k) => C!Deriving(exec'[s], k)
        PROVE  \E t \in Slot : C!Deriving(exec'[t], k)
    <3>1. CASE C!Deriving(exec'[s], k)
      BY <3>1
    <3>2. CASE ~C!Deriving(exec'[s], k)
      <4>1. PICK t \in Slot : C!Deriving(exec[t], k)
        BY <1>3, <2>1, <3>2
      <4>2. exec'[t] = exec[t]
        BY <2>1, <3>2, <4>1 DEF Only
      <4> QED BY <4>1, <4>2
    <3> QED BY <3>1, <3>2
  <2>2. ASSUME spent' = spent PROVE Calmer
    BY <1>1, <2>2
  <2> HIDE DEF Calmer
  <2>3. CASE C!Begin(s)
    <3>1. ~C!Deriving(exec[s], k)
      BY <2>3 DEF C!Begin, C!Deriving
    <3>2. Calmer
      BY <2>3, StartFields DEF Calmer
    <3> QED BY <2>1, <2>3, <3>1, <3>2, StartFields
  <2>4. CASE C!Crash(s)
    <3>1. C!Spend("crashes")
      BY <2>4 DEF C!Crash
    <3> QED BY <1>1, <3>1, SyncSpendType
  <2>5. CASE C!Load(s)
    <3>1. Only(s) /\ ~C!Deriving(exec[s], k) /\ k \in dirty /\ conn.there /\ spent' = spent
      BY <2>5, LoadFields DEF C!Deriving
    <3> QED BY <2>1, <2>2, <3>1
  <2>6. CASE C!Open(s)
    <3>1. Only(s) /\ ~C!Deriving(exec[s], k) /\ k \in dirty /\ conn.there /\ spent' = spent
      BY <2>6, OpenFields DEF C!Deriving
    <3> QED BY <2>1, <2>2, <3>1
  <2>7. CASE C!Close(s)
    <3>1. Only(s) /\ k \in dirty /\ conn.there /\ spent' = spent
      BY <2>7, CloseFields
    <3>2. C!Deriving(exec[s], k) => C!Deriving(exec'[s], k)
      BY <2>7, <3>1, CloseFields DEF C!Deriving, Kept
    <3> QED BY <2>1, <2>2, <3>1, <3>2
  <2>8. CASE C!DeriveFails(s)
    BY <2>8, DeriveFailsFields
  <2>9. CASE C!Finish(s)
    <3>1. /\ Only(s) /\ ~C!Deriving(exec[s], k) /\ k \in dirty /\ conn.there /\ spent' = spent
      BY <2>9, FinishFields DEF C!Deriving
    <3> QED BY <2>1, <2>2, <3>1
  <2>10. CASE C!Fail(s)
    <3>1. /\ Only(s) /\ ~C!Deriving(exec[s], k) /\ k \in dirty /\ conn.there /\ spent' = spent
      BY <2>10, FailFields DEF C!Deriving
    <3> QED BY <2>1, <2>2, <3>1
  <2>11. ASSUME NEW l \in Link, C!Metrics(s, l)
         PROVE  \E t \in Slot : C!Deriving(exec'[t], k)
    <3>1. /\ Only(s) /\ conn.there /\ spent' = spent /\ k \in dirty \union {l}
          /\ exec'[s].of = exec[s].of /\ exec'[s].pc \in {"fetch", "reviews"}
          /\ exec[s].pc = "fetch" /\ l \in exec[s].of
      BY <1>1, <2>11, MetricsFields DEF Kept
    <3>2. C!Deriving(exec[s], k) => C!Deriving(exec'[s], k)
      BY <3>1 DEF C!Deriving
    <3>3. k \in dirty \/ C!Deriving(exec'[s], k)
      BY <3>1 DEF C!Deriving
    <3> QED BY <2>1, <2>2, <3>1, <3>2, <3>3
  <2>12. ASSUME NEW l \in Link, C!MetricsFail(s, l)
         PROVE  \E t \in Slot : C!Deriving(exec'[t], k)
    <3>1. /\ Only(s) /\ conn.there /\ k \in dirty \union {l}
          /\ exec'[s].of = exec[s].of /\ exec'[s].pc \in {"fetch", "reviews"}
          /\ exec[s].pc = "fetch" /\ l \in exec[s].of
      BY <1>1, <2>12, MetricsFailFields DEF Kept
    <3>2. C!Deriving(exec[s], k) => C!Deriving(exec'[s], k)
      BY <3>1 DEF C!Deriving
    <3>3. k \in dirty \/ C!Deriving(exec'[s], k)
      BY <3>1 DEF C!Deriving
    <3>4. Calmer
      BY <2>12, MetricsFailFields DEF Calmer
    <3> QED BY <2>1, <3>1, <3>2, <3>3, <3>4
  <2>13. ASSUME NEW l \in Link, C!Reviews(s, l)
         PROVE  \E t \in Slot : C!Deriving(exec'[t], k)
    <3>1. /\ Only(s) /\ conn.there /\ k \in dirty
          /\ exec'[s].of = exec[s].of /\ exec'[s].pc = "fetch" /\ exec[s].pc = "reviews"
      BY <2>13, ReviewsFields DEF Kept
    <3>2. C!Deriving(exec[s], k) => C!Deriving(exec'[s], k)
      BY <3>1 DEF C!Deriving
    <3>3. Calmer
      BY <2>13, ReviewsFields DEF Calmer
    <3> QED BY <2>1, <3>1, <3>2, <3>3
  <2>14. ASSUME NEW l \in Link, C!Derive(s, l)
         PROVE  \E t \in Slot : C!Deriving(exec'[t], k)
    <3>1. /\ Only(s) /\ conn.there /\ k \in dirty /\ k # l /\ spent' = spent
          /\ exec'[s].todo = exec[s].todo \ {l} /\ exec'[s].pc = "derive" /\ exec[s].pc = "derive"
      BY <2>14, DeriveFields
    <3>2. C!Deriving(exec[s], k) => C!Deriving(exec'[s], k)
      BY <3>1 DEF C!Deriving
    <3> QED BY <2>1, <2>2, <3>1, <3>2
  <2> QED BY <1>5, <2>3, <2>4, <2>5, <2>6, <2>7, <2>8, <2>9, <2>10, <2>11, <2>12, <2>13, <2>14
          DEF Advances
<1> QED BY <1>2, <1>4, <1>5, SyncSteps

-----------------------------------------------------------------------------
(* The connection: how a run went                                          *)

\* The instance counts as this module does.
LEMMA SameCount == ASSUME NEW S PROVE C!Cardinality(S) = Cardinality(S)
BY DEF C!Cardinality, Cardinality

\* The links of an execution are finitely many; reaching one more counts one more.
LEMMA Counting ==
    ASSUME Connectors, SyncTypes, NEW s \in Slot
    PROVE  /\ IsFiniteSet(exec[s].of) /\ IsFiniteSet(exec[s].todo)
           /\ IsFiniteSet(exec[s].reached) /\ IsFiniteSet(exec[s].of \ exec[s].todo)
           /\ Cardinality(exec[s].reached) \in Nat /\ Cardinality(exec[s].of) \in Nat
           /\ Cardinality(exec[s].of \ exec[s].todo) \in Nat
           /\ exec[s].failures \in Nat
           /\ (Cardinality(exec[s].reached) = 0 <=> exec[s].reached = {})
           /\ (Cardinality(exec[s].of) = 0 <=> exec[s].of = {})
<1>1. /\ exec[s].of \subseteq Link /\ exec[s].todo \subseteq Link
      /\ exec[s].reached \subseteq Link /\ exec[s].failures \in Nat
      /\ exec[s].of \ exec[s].todo \subseteq Link
  BY DEF SyncTypes, Execs
<1>2. IsFiniteSet(Link)
  BY DEF Connectors
<1>3. /\ IsFiniteSet(exec[s].of) /\ IsFiniteSet(exec[s].todo)
      /\ IsFiniteSet(exec[s].reached) /\ IsFiniteSet(exec[s].of \ exec[s].todo)
  BY <1>1, <1>2, FS_Subset
<1>4. /\ Cardinality(exec[s].reached) \in Nat /\ Cardinality(exec[s].of) \in Nat
      /\ Cardinality(exec[s].of \ exec[s].todo) \in Nat
  BY <1>3, FS_CardinalityType
<1>5. /\ (Cardinality(exec[s].reached) = 0 <=> exec[s].reached = {})
      /\ (Cardinality(exec[s].of) = 0 <=> exec[s].of = {})
  BY <1>3, FS_EmptySet
<1> QED BY <1>1, <1>3, <1>4, <1>5

\* Without reviews every link is tried once: each is reached or counted as a failure.
LEMMA SyncNextCounted ==
    Connectors /\ SyncTypes /\ Started /\ GoneTogether /\ Counted /\ [C!Next]_C!vars => Counted'
<1> SUFFICES ASSUME Connectors, SyncTypes, Started, GoneTogether, Counted, [C!Next]_C!vars,
                    ~conn'.reviews
             PROVE  \A t \in Slot : Tallied(exec[t])'
  BY DEF Counted
<1>1. CASE UNCHANGED C!vars
  BY <1>1 DEF C!vars, Counted, Tallied
<1>2. CASE Elsewhere
  <2>1. /\ exec' = exec /\ ~conn.reviews /\ (conn'.there => conn.there)
    BY <1>2, ElsewhereFields
  <2> QED BY <2>1 DEF Counted, Tallied
<1>3. ASSUME NEW s \in Slot, Advances(s) PROVE \A t \in Slot : Tallied(exec[t])'
  <2>13. /\ IsFiniteSet(exec[s].reached) /\ IsFiniteSet(exec[s].of \ exec[s].todo)
         /\ Cardinality(exec[s].reached) \in Nat /\ Cardinality(exec[s].of) \in Nat
         /\ Cardinality(exec[s].of \ exec[s].todo) \in Nat
         /\ exec[s].failures \in Nat
         /\ (Cardinality(exec[s].reached) = 0 <=> exec[s].reached = {})
    BY Counting
  <2>1. ASSUME Only(s), Tallied(exec[s])', ~conn.reviews, conn'.there = conn.there
        PROVE  \A t \in Slot : Tallied(exec[t])'
    <3> TAKE t \in Slot
    <3>1. CASE t = s
      BY <2>1, <3>1
    <3>2. CASE t # s
      <4>1. exec'[t] = exec[t]
        BY <2>1, <3>2 DEF Only
      <4> QED BY <2>1, <4>1 DEF Counted, Tallied
    <3> QED BY <3>1, <3>2
  <2>2. CASE C!Begin(s) \/ C!Crash(s)
    <3>1. Tallied(exec[s])'
      BY <2>2, StartFields DEF Over, Tallied
    <3> QED BY <2>1, <2>2, <3>1, StartFields
  <2>3. CASE C!Load(s)
    <3>1. Tallied(exec[s])'
      BY <2>3, LoadFields DEF Over, Tallied
    <3> QED BY <2>1, <2>3, <3>1, LoadFields
  <2>4. CASE C!Open(s)
    <3>1. Fresh(exec[s]) /\ exec[s].todo = exec[s].of
      BY <2>4, OpenFields DEF Started
    <3>2. CASE Over(exec'[s])
      BY <2>1, <2>4, <3>2, OpenFields DEF Over, Tallied
    <3>3. CASE ~Over(exec'[s])
      <4>1. /\ exec'[s].pc \in {"fetch", "fail"} /\ exec'[s].of \ exec'[s].todo = {}
            /\ exec'[s].failures = 0 /\ exec'[s].reached = {}
        BY <2>4, <3>1, <3>3, OpenFields DEF Fresh, Alike
      <4>2. /\ Cardinality(exec'[s].of \ exec'[s].todo) = 0
            /\ Cardinality(exec'[s].reached) = 0
        BY <4>1, FS_EmptySet
      <4>3. Tallied(exec[s])'
        BY <4>1, <4>2 DEF Tallied
      <4> QED BY <2>1, <2>4, <4>3, OpenFields
    <3> QED BY <3>2, <3>3
  <2>5. CASE C!Close(s)
    <3>1. /\ Only(s) /\ ~conn.reviews /\ conn'.there = conn.there
          /\ exec[s].pc = "fetch" /\ exec[s].todo = {}
          /\ exec'[s].of = exec[s].of /\ exec'[s].reached = exec[s].reached
          /\ exec'[s].failures = exec[s].failures
          /\ exec'[s].pc = (IF conn.there THEN "derive" ELSE "fail")
      BY <2>5, CloseFields DEF Kept, Alike
    <3>2. Tallied(exec[s]) /\ exec[s].of \ exec[s].todo = exec[s].of
      BY <3>1 DEF Counted
    <3>3. Tallied(exec[s])'
      BY <3>1, <3>2 DEF Tallied
    <3> QED BY <2>1, <3>1, <3>3
  <2>6. CASE C!DeriveFails(s)
    <3>1. Tallied(exec[s])'
      BY <2>6, DeriveFailsFields DEF Tallied
    <3> QED BY <2>1, <2>6, <3>1, DeriveFailsFields
  <2>7. CASE C!Finish(s)
    <3>1. /\ Only(s) /\ ~conn.reviews /\ conn'.there = conn.there
          /\ exec[s].pc = "derive" /\ exec[s].run \in DOMAIN runs
      BY <2>7, FinishFields
    <3>2. Tallied(exec[s])
      BY <3>1 DEF Counted
    <3>3. CASE Over(exec'[s])
      BY <2>1, <3>1, <3>3 DEF Over, Tallied
    <3>4. CASE C!TotalFailure(exec[s]) /\ exec'[s].pc = "fail" /\ exec'[s].reached = exec[s].reached
      <4>1. exec[s].reached = {}
        <5>1. exec[s].failures = Cardinality(exec[s].of)
          BY <3>4, SameCount DEF C!TotalFailure
        <5> QED BY <2>13, <3>1, <3>2, <5>1 DEF Tallied
      <4>2. Tallied(exec[s])'
        BY <3>4, <4>1 DEF Tallied
      <4> QED BY <2>1, <3>1, <4>2
    <3>5. CASE runs[exec[s].run] = "GONE" /\ exec'[s].pc = "fail"
      <4>1. ~conn'.there
        BY <3>1, <3>5 DEF GoneTogether
      <4>2. Tallied(exec[s])'
        BY <3>5, <4>1 DEF Tallied
      <4> QED BY <2>1, <3>1, <4>2
    <3> QED BY <2>7, <3>3, <3>4, <3>5, FinishFields DEF Alike
  <2>8. CASE C!Fail(s)
    <3>1. Tallied(exec[s])'
      BY <2>8, FailFields DEF Over, Tallied
    <3> QED BY <2>1, <2>8, <3>1, FailFields
  <2>9. ASSUME NEW l \in Link, C!Metrics(s, l) PROVE \A t \in Slot : Tallied(exec[t])'
    <3>1. /\ Only(s) /\ ~conn.reviews /\ conn'.there = conn.there
          /\ exec[s].pc = "fetch" /\ l \in exec[s].todo /\ exec'[s].pc = "fetch"
          /\ exec'[s].of = exec[s].of /\ exec'[s].todo = exec[s].todo \ {l}
          /\ exec'[s].reached = exec[s].reached \union {l}
          /\ exec'[s].failures = exec[s].failures
      BY <2>9, MetricsFields DEF Kept
    <3>2. Tallied(exec[s]) /\ exec[s].todo \subseteq exec[s].of
      BY <3>1 DEF Counted, SyncTypes, C!TypeOK
    <3>3. /\ l \notin exec[s].reached /\ l \notin exec[s].of \ exec[s].todo
          /\ exec'[s].of \ exec'[s].todo = (exec[s].of \ exec[s].todo) \union {l}
      BY <3>1, <3>2 DEF Tallied
    <3>4. /\ Cardinality(exec'[s].reached) = Cardinality(exec[s].reached) + 1
          /\ Cardinality(exec'[s].of \ exec'[s].todo) = Cardinality(exec[s].of \ exec[s].todo) + 1
      <4>1. /\ Cardinality(exec[s].reached \union {l}) = Cardinality(exec[s].reached) + 1
            /\ Cardinality((exec[s].of \ exec[s].todo) \union {l})
                 = Cardinality(exec[s].of \ exec[s].todo) + 1
        BY <2>13, <3>3, FS_AddElement
      <4> QED BY <3>1, <3>3, <4>1
    <3>5. /\ exec'[s].reached \subseteq exec'[s].of \ exec'[s].todo
          /\ exec'[s].failures + Cardinality(exec'[s].reached)
               = Cardinality(exec'[s].of \ exec'[s].todo)
      <4>1. /\ exec[s].reached \subseteq exec[s].of \ exec[s].todo
            /\ exec[s].failures + Cardinality(exec[s].reached)
                 = Cardinality(exec[s].of \ exec[s].todo)
        BY <3>1, <3>2 DEF Tallied
      <4> QED BY <2>13, <3>1, <3>3, <3>4, <4>1
    <3>6. Tallied(exec[s])'
      BY <3>1, <3>5 DEF Tallied
    <3> QED BY <2>1, <3>1, <3>6
  <2>10. ASSUME NEW l \in Link, C!MetricsFail(s, l) PROVE \A t \in Slot : Tallied(exec[t])'
    <3>1. /\ Only(s) /\ ~conn.reviews /\ conn'.there = conn.there
          /\ exec[s].pc = "fetch" /\ l \in exec[s].todo /\ exec'[s].pc = "fetch"
          /\ exec'[s].of = exec[s].of /\ exec'[s].todo = exec[s].todo \ {l}
          /\ exec'[s].reached = exec[s].reached
          /\ exec'[s].failures = exec[s].failures + 1
      BY <2>10, MetricsFailFields DEF Kept
    <3>2. Tallied(exec[s]) /\ exec[s].todo \subseteq exec[s].of
      BY <3>1 DEF Counted, SyncTypes, C!TypeOK
    <3>3. /\ l \notin exec[s].of \ exec[s].todo
          /\ exec'[s].of \ exec'[s].todo = (exec[s].of \ exec[s].todo) \union {l}
      BY <3>1, <3>2 DEF Tallied
    <3>4. Cardinality(exec'[s].of \ exec'[s].todo) = Cardinality(exec[s].of \ exec[s].todo) + 1
      <4>1. Cardinality((exec[s].of \ exec[s].todo) \union {l})
              = Cardinality(exec[s].of \ exec[s].todo) + 1
        BY <2>13, <3>3, FS_AddElement
      <4> QED BY <3>3, <4>1
    <3>5. /\ exec'[s].reached \subseteq exec'[s].of \ exec'[s].todo
          /\ exec'[s].failures + Cardinality(exec'[s].reached)
               = Cardinality(exec'[s].of \ exec'[s].todo)
      <4>1. /\ exec[s].reached \subseteq exec[s].of \ exec[s].todo
            /\ exec[s].failures + Cardinality(exec[s].reached)
                 = Cardinality(exec[s].of \ exec[s].todo)
        BY <3>1, <3>2 DEF Tallied
      <4> QED BY <2>13, <3>1, <3>3, <3>4, <4>1
    <3>6. Tallied(exec[s])'
      BY <3>1, <3>5 DEF Tallied
    <3> QED BY <2>1, <3>1, <3>6
  <2>11. ASSUME NEW l \in Link, C!Reviews(s, l) PROVE \A t \in Slot : Tallied(exec[t])'
    <3>1. exec[s].pc = "reviews" /\ ~conn.reviews
      BY <2>11, ReviewsFields
    <3> QED BY <3>1 DEF Counted, Tallied
  <2>12. ASSUME NEW l \in Link, C!Derive(s, l) PROVE \A t \in Slot : Tallied(exec[t])'
    <3>1. /\ Only(s) /\ ~conn.reviews /\ conn'.there = conn.there
          /\ exec[s].pc = "derive" /\ exec'[s].pc = "derive" /\ exec'[s].of = exec[s].of
          /\ exec'[s].reached = exec[s].reached /\ exec'[s].failures = exec[s].failures
      BY <2>12, DeriveFields DEF Kept, Alike
    <3>2. Tallied(exec[s])'
      BY <3>1 DEF Counted, Tallied
    <3> QED BY <2>1, <3>1, <3>2
  <2> QED BY <1>3, <2>2, <2>3, <2>4, <2>5, <2>6, <2>7, <2>8, <2>9, <2>10, <2>11, <2>12
          DEF Advances
<1> QED BY <1>1, <1>2, <1>3, SyncSteps

\* It holds before any sync has begun.
LEMMA SyncInvInit == Connectors /\ C!Init => SyncInv
<1> SUFFICES ASSUME Connectors, C!Init PROVE SyncInv
  OBVIOUS
<1>1. SyncTypes
  BY SyncInit
<1>2. \A s \in Slot : /\ exec[s].pc = "idle" /\ exec[s].failures = 0 /\ exec[s].reached = {}
                      /\ exec[s].since = 0
  BY DEF C!Init, C!Idle
<1>3. runs = <<>> /\ dirty = {} /\ epoch = 0 /\ conn.status = "ACTIVE"
  BY DEF C!Init
<1> QED BY <1>1, <1>2, <1>3 DEF SyncInv, Started, Fresh, GoneTogether, Counted, Tallied, Current,
        C!EveryRunEnds, C!DeriveFollowsWrites, C!NoSyncOnceDisabled, C!Working

\* Each part of the invariant follows from those before it.
LEMMA SyncInvNext == Connectors /\ SyncInv /\ [C!Next]_C!vars => SyncInv'
<1> SUFFICES ASSUME Connectors, SyncInv, [C!Next]_C!vars PROVE SyncInv'
  OBVIOUS
<1>1. SyncTypes' /\ Started' /\ GoneTogether' /\ Current'
  BY SyncNextTypes, SyncNextStarted, SyncNextCurrent DEF SyncInv
<1>2. Counted' /\ C!EveryRunEnds' /\ C!DeriveFollowsWrites'
  BY SyncNextCounted, SyncNextRunEnds, SyncNextDerives DEF SyncInv
<1>3. C!NoSyncOnceDisabled'
  BY <1>1 DEF Current, C!NoSyncOnceDisabled, C!Working
<1> QED BY <1>1, <1>2, <1>3 DEF SyncInv

\* A sync that ends says success only if it reached a link, or there was none, and failure
\* only if it reached none or could not queue what it wrote.
LEMMA SyncVerdicts == Connectors /\ SyncInv /\ [C!Next]_C!vars => [C!VerdictFair]_C!vars
<1> SUFFICES ASSUME Connectors, SyncInv, [C!Next]_C!vars, NEW s \in Slot,
                    C!Working(exec[s]), ~C!Working(exec'[s]), conn.there, ~conn.reviews,
                    spent'["crashes"] = spent["crashes"]
             PROVE  /\ runs'[exec[s].run] \in {"SUCCESS", "PARTIAL"} /\ exec[s].of # {}
                         => exec[s].reached # {}
                    /\ runs'[exec[s].run] = "FAILED" => exec[s].reached = {} \/ exec[s].todo # {}
  BY DEF C!VerdictFair, C!Working
<1>1. /\ SyncTypes /\ Tallied(exec[s]) /\ GoneTogether
      /\ Cardinality(exec[s].reached) \in Nat /\ Cardinality(exec[s].of) \in Nat
      /\ exec[s].failures \in Nat
      /\ (Cardinality(exec[s].reached) = 0 <=> exec[s].reached = {})
      /\ (Cardinality(exec[s].of) = 0 <=> exec[s].of = {})
  BY Counting DEF SyncInv, Counted
<1>2. exec'[s] # exec[s]
  OBVIOUS
<1>3. CASE UNCHANGED C!vars
  BY <1>2, <1>3 DEF C!vars
<1>4. CASE Elsewhere
  BY <1>1, <1>2, <1>4, ElsewhereFields
<1>5. ASSUME NEW t \in Slot, Advances(t), t # s
      PROVE  exec'[s] = exec[s]
  <2>1. C!Begin(t) \/ C!Crash(t) \/ C!Load(t) \/ C!Open(t) => Only(t)
    BY <1>1, StartFields, LoadFields, OpenFields
  <2>2. C!Close(t) \/ C!DeriveFails(t) \/ C!Finish(t) \/ C!Fail(t) => Only(t)
    BY <1>1, CloseFields, DeriveFailsFields, FinishFields, FailFields
  <2>3. ASSUME NEW l \in Link
        PROVE  C!Metrics(t, l) \/ C!MetricsFail(t, l) \/ C!Reviews(t, l) \/ C!Derive(t, l)
                 => Only(t)
    BY <1>1, MetricsFields, MetricsFailFields, ReviewsFields, DeriveFields
  <2>4. Only(t)
    BY <1>5, <2>1, <2>2, <2>3 DEF Advances
  <2> QED BY <1>5, <2>4 DEF Only
<1>6. ASSUME Advances(s) PROVE C!Finish(s) \/ C!Fail(s)
  <2>1. ~C!Crash(s)
    <3>1. C!Crash(s) => C!Spend("crashes") /\ "crashes" \in C!Bounds
      BY DEF C!Crash, C!Bounds
    <3>2. spent \in [C!Bounds -> Nat]
      BY <1>1 DEF SyncTypes
    <3> QED BY <3>1, <3>2 DEF C!Spend
  <2>2. ~C!Begin(s) /\ ~C!Load(s) /\ ~C!Open(s)
    BY DEF C!Begin, C!Load, C!Open, C!Working
  <2>3. ~C!Close(s) /\ ~C!DeriveFails(s)
    BY <1>1, CloseFields, DeriveFailsFields DEF C!Working
  <2>4. ASSUME NEW l \in Link
        PROVE  ~C!Metrics(s, l) /\ ~C!MetricsFail(s, l) /\ ~C!Reviews(s, l) /\ ~C!Derive(s, l)
    BY <1>1, MetricsFields, MetricsFailFields, ReviewsFields, DeriveFields DEF C!Working
  <2> QED BY <1>6, <2>1, <2>2, <2>3, <2>4 DEF Advances
<1>7. CASE C!Finish(s)
  <2>1. /\ exec[s].pc = "derive" /\ ~C!TotalFailure(exec[s])
        /\ runs'[exec[s].run] \in {"PARTIAL", "SUCCESS"}
    BY <1>1, <1>7, FinishFields DEF C!Working
  <2>2. exec[s].of # {} => exec[s].reached # {}
    <3>1. exec[s].failures + Cardinality(exec[s].reached) = Cardinality(exec[s].of)
      BY <1>1, <2>1 DEF Tallied
    <3>2. ~(exec[s].failures > 0 /\ exec[s].failures = Cardinality(exec[s].of))
      BY <2>1, SameCount DEF C!TotalFailure
    <3> QED BY <1>1, <3>1, <3>2
  <2> QED BY <2>1, <2>2
<1>8. CASE C!Fail(s)
  <2>1. /\ exec[s].pc = "fail" /\ runs'[exec[s].run] \in {"GONE", "FAILED"}
    BY <1>1, <1>8, FailFields
  <2>2. exec[s].reached = {} \/ exec[s].todo # {}
    BY <1>1, <2>1 DEF Tallied
  <2> QED BY <2>1, <2>2
<1> QED BY <1>2, <1>3, <1>4, <1>5, <1>6, <1>7, <1>8, SyncSteps

\* The invariant holds in every state, whatever links, executions and failures there are.
THEOREM SyncInvariance == ASSUME Connectors PROVE C!Spec => []SyncInv
<1>1. SyncInv /\ [C!Next]_C!vars => SyncInv'
  BY SyncInvNext
<1> QED BY <1>1, SyncInvInit, PTL DEF C!Spec

\* Once a connection is switched off, no sync of it starts: not by a retry, nor after a crash.
THEOREM SyncsStop == ASSUME Connectors PROVE C!Spec => []NoSyncOnceDisabled
<1>1. SyncInv => NoSyncOnceDisabled
  BY DEF SyncInv, NoSyncOnceDisabled
<1> QED BY <1>1, SyncInvariance, PTL

\* What a sync writes is derived, whatever failed around it, unless the process dies, Redis
\* is gone or the connection is deleted.
THEOREM WritesAreDerived == ASSUME Connectors PROVE C!Spec => []DeriveFollowsWrites
<1>1. SyncInv => DeriveFollowsWrites
  BY DEF SyncInv, DeriveFollowsWrites
<1> QED BY <1>1, SyncInvariance, PTL

\* Every run that is opened is ended by the execution that opened it as long as no process
\* dies; and it is no success if no link could be fetched, no failure if one could.
THEOREM RunsAreEnded == ASSUME Connectors PROVE C!Spec => RunsEndFairly
<1>1. SyncInv => C!EveryRunEnds
  BY DEF SyncInv
<1>2. SyncInv /\ [C!Next]_C!vars => [C!VerdictFair]_C!vars
  BY SyncVerdicts
<1> QED BY <1>1, <1>2, SyncInvariance, PTL DEF RunsEndFairly, C!RunsEndFairly, C!Spec
===============================================================================
