--------------------------- MODULE WorkspaceProofs ---------------------------
(***************************************************************************)
(* Of what MCWorkspace checks, for any constants: a workspace keeps an     *)
(* owner, and goes with an account only if nobody else is in it; how far a *)
(* month's rows may be over the budget; that a review of the market is     *)
(* paid for once; and that the themes of a niche and the sentence beneath  *)
(* them are those of the reviews its apps have.                            *)
(***************************************************************************)
EXTENDS MCWorkspace, FiniteSetTheorems, TLAPS

-----------------------------------------------------------------------------
(* An owner is left.  That is not inductive: a request that is about to    *)
(* take a role away has looked before, and what it saw has to hold when it *)
(* writes.  The invariant says what each request still knows: there is     *)
(* another owner (or nobody else), or it has been overtaken since.         *)

\* An organization that is gone takes its invitations along.
InvitesOfOrg == \A u \in Users : invite[u] # "NONE" => org

Overtaken(r, by) == by \in r.since

\* What a request that takes a role away still knows: another owner.
KnowsOwner(r) ==
    O!Changes(r) /\ O!Demotes(r) /\ r.phase = "write"
        => Overtaken(r, "ownerLost") \/ O!OtherOwners(r.on) # {}

\* What a request that deletes an account still knows: another owner, or that nobody else
\* is in the workspace, which it then takes along.
KnowsOthers(r) ==
    r.op = "deleteAccount" =>
        /\ r.phase = "count" => \/ r.since # {} \/ O!OtherOwners(r.by) # {}
                                \/ O!OtherMembers(r.by) = {}
        /\ r.phase = "write" => \/ r.since # {}
                                \/ IF r.saw THEN O!OtherMembers(r.by) = {}
                                   ELSE O!OtherOwners(r.by) # {}

Informed ==
    org /\ ~raced => \A s \in Slots : req[s] # O!None => KnowsOwner(req[s]) /\ KnowsOthers(req[s])

OrgInv == O!TypeOK /\ InvitesOfOrg /\ O!HasOwner /\ Informed

-----------------------------------------------------------------------------
(* Requests, as the memberships change around them                         *)

Reqs == [Slots -> O!Request \union {O!None}]

OwnerLost == \E u \in Users : role[u] = "OWNER" /\ role'[u] # "OWNER"
Joined == \E u \in Users : role[u] = "NONE" /\ role'[u] # "NONE"

\* q is the request r still, which has noticed what happened to the memberships.
SameRequest(r, q) ==
    /\ q.op = r.op /\ q.by = r.by /\ q.on = r.on /\ q.to = r.to /\ q.saw = r.saw
    /\ q.phase = r.phase /\ r.since \subseteq q.since
    /\ OwnerLost => "ownerLost" \in q.since
    /\ Joined => "joined" \in q.since

Untouched(t) ==
         /\ (req'[t] = O!None) <=> (req[t] = O!None)
         /\ req'[t] # O!None => SameRequest(req[t], req'[t])

\* An idle slot is not a request.
LEMMA NoneApart == O!None \notin O!Request
<1>1. SUFFICES ASSUME O!None \in O!Request PROVE FALSE
  OBVIOUS
<1>2. O!None.op \in O!Procedures /\ O!None.op = "none"
  BY <1>1 DEF O!Request, O!None
<1> QED BY <1>2 DEF O!Procedures

\* Watching changes nothing of a request but what has happened since, which it adds to.
LEMMA WatchedFields ==
    ASSUME NEW r \in Reqs
    PROVE  /\ O!Watched(r) \in Reqs
           /\ \A t \in Slots :
                /\ (r[t] = O!None <=> O!Watched(r)[t] = O!None)
                /\ r[t] # O!None => SameRequest(r[t], O!Watched(r)[t])
<1> DEFINE done == (IF \E u \in Users : role[u] = "OWNER" /\ role'[u] # "OWNER"
                      THEN {"ownerLost"} ELSE {})
                   \union (IF \E u \in Users : role[u] = "NONE" /\ role'[u] # "NONE"
                            THEN {"joined"} ELSE {})
           w(t) == [r[t] EXCEPT !.since = @ \union done]
<1>1. done \in SUBSET {"ownerLost", "joined"} /\ (OwnerLost => "ownerLost" \in done)
      /\ (Joined => "joined" \in done)
  BY DEF OwnerLost, Joined
<1>2. O!Watched(r) = [t \in Slots |-> IF r[t] = O!None THEN O!None ELSE w(t)]
  BY DEF O!Watched
<1> HIDE DEF done
<1>3. ASSUME NEW t \in Slots, r[t] # O!None
      PROVE  w(t) \in O!Request /\ SameRequest(r[t], w(t))
  <2>1. r[t] \in O!Request
    BY <1>3 DEF Reqs
  <2>2. w(t) \in O!Request
    BY <2>1, <1>1 DEF O!Request
  <2> QED BY <2>1, <2>2, <1>1 DEF O!Request, SameRequest
<1> HIDE DEF w
<1> QED BY <1>2, <1>3, NoneApart DEF Reqs

\* A request that moves to another phase is otherwise the same.
LEMMA MovedFields ==
    ASSUME NEW r \in O!Request, NEW phase \in {"look", "count", "write", "redeem", "accept"}
    PROVE  LET q == [r EXCEPT !.phase = phase]
           IN  /\ q \in O!Request
               /\ q.op = r.op /\ q.by = r.by /\ q.on = r.on /\ q.to = r.to /\ q.saw = r.saw
               /\ q.phase = phase /\ q.since = r.since
BY DEF O!Request

\* Another request that ends or moves on leaves a request alone when the memberships stay.
LEMMA GoesKeeps ==
    ASSUME O!TypeOK, NEW s \in Slots, UNCHANGED role,
           NEW phase \in {"look", "count", "write", "redeem", "accept"}, req[s] # O!None,
           O!Goes(s, phase) \/ O!Ends(s)
    PROVE  /\ req' \in Reqs
           /\ \A t \in Slots \ {s} : Untouched(t)
           /\ O!Goes(s, phase) => /\ req'[s].phase = phase /\ req'[s] # O!None
                                  /\ req'[s].op = req[s].op /\ req'[s].by = req[s].by
                                  /\ req'[s].on = req[s].on /\ req'[s].to = req[s].to
                                  /\ req'[s].saw = req[s].saw /\ req'[s].since = req[s].since
           /\ O!Ends(s) => req'[s] = O!None
<1>1. req \in Reqs /\ req[s] \in O!Request
  BY DEF O!TypeOK, Reqs
<1>2. ~OwnerLost /\ ~Joined
  BY DEF OwnerLost, Joined
<1>3. CASE O!Goes(s, phase)
  <2> DEFINE q == [req[s] EXCEPT !.phase = phase]
  <2>1. req' = [req EXCEPT ![s] = q]
    BY <1>3 DEF O!Goes
  <2>2. /\ q \in O!Request
        /\ q.op = req[s].op /\ q.by = req[s].by /\ q.on = req[s].on /\ q.to = req[s].to
        /\ q.saw = req[s].saw /\ q.phase = phase /\ q.since = req[s].since
    BY <1>1, MovedFields
  <2> HIDE DEF q
  <2>3. req' \in Reqs /\ req'[s] = q /\ \A t \in Slots \ {s} : req'[t] = req[t]
    BY <2>1, <2>2, <1>1 DEF Reqs
  <2>4. ~O!Ends(s)
    BY <2>3, <2>2, <1>1, NoneApart DEF O!Ends, Reqs
  <2> QED BY <2>2, <2>3, <2>4, <1>2, NoneApart DEF Untouched, SameRequest
<1>4. CASE O!Ends(s)
  <2>1. req' \in Reqs /\ req'[s] = O!None /\ \A t \in Slots \ {s} : req'[t] = req[t]
    BY <1>4, <1>1 DEF O!Ends, Reqs
  <2>2. ~O!Goes(s, phase)
    <3> DEFINE q == [req[s] EXCEPT !.phase = phase]
    <3>1. q \in O!Request
      BY <1>1, MovedFields
    <3>2. O!Goes(s, phase) => req' = [req EXCEPT ![s] = q]
      BY DEF O!Goes
    <3>3. [req EXCEPT ![s] = q][s] = q
      BY <1>1 DEF Reqs
    <3> HIDE DEF q
    <3> QED BY <3>1, <3>2, <3>3, <2>1, NoneApart
  <2> QED BY <2>1, <2>2, <1>2 DEF Untouched, SameRequest
<1> QED BY <1>3, <1>4

\* The same for a request that changes the memberships.
LEMMA WatchedKeeps ==
    ASSUME O!TypeOK, NEW s \in Slots, req[s] # O!None,
           NEW phase \in {"look", "count", "write", "redeem", "accept"},
           O!GoesWatched(s, phase) \/ O!EndsWatched(s)
    PROVE  /\ req' \in Reqs
           /\ \A t \in Slots \ {s} : Untouched(t)
           /\ O!EndsWatched(s) => req'[s] = O!None
           /\ ~O!EndsWatched(s) => /\ req'[s] # O!None /\ req'[s].phase = phase
                                   /\ req'[s].op = req[s].op /\ req'[s].by = req[s].by
<1>1. req \in Reqs /\ req[s] \in O!Request
  BY DEF O!TypeOK, Reqs
<1>2. CASE O!EndsWatched(s)
  <2> DEFINE r == [req EXCEPT ![s] = O!None]
  <2>1. req' = O!Watched(r)
    BY <1>2 DEF O!EndsWatched
  <2>2. r \in Reqs /\ r[s] = O!None /\ \A t \in Slots \ {s} : r[t] = req[t]
    BY <1>1 DEF Reqs
  <2> HIDE DEF r
  <2> QED BY <2>1, <2>2, <1>2, WatchedFields DEF Untouched
<1>3. CASE O!GoesWatched(s, phase) /\ ~O!EndsWatched(s)
  <2> DEFINE q == [req[s] EXCEPT !.phase = phase]
             r == [req EXCEPT ![s] = q]
  <2>1. req' = O!Watched(r)
    BY <1>3 DEF O!GoesWatched
  <2>2. q \in O!Request /\ q.op = req[s].op /\ q.by = req[s].by /\ q.phase = phase
    BY <1>1, MovedFields
  <2> HIDE DEF q
  <2>3. r \in Reqs /\ r[s] = q /\ \A t \in Slots \ {s} : r[t] = req[t]
    BY <1>1, <2>2 DEF Reqs
  <2> HIDE DEF r
  <2>4. q # O!None
    BY <2>2, NoneApart
  <2> QED BY <2>1, <2>2, <2>3, <2>4, <1>3, WatchedFields DEF Untouched, SameRequest
<1> QED BY <1>2, <1>3

-----------------------------------------------------------------------------
(* Types                                                                   *)

\* A request that is looked at is a request.
LEMMA Looked ==
    ASSUME O!TypeOK, NEW s \in Slots, req[s].op # "none"
    PROVE  /\ req[s] # O!None /\ req[s] \in O!Request
           /\ req[s].by \in Users /\ req[s].on \in Users /\ req[s].to \in O!Roles
<1>1. req[s] # O!None
  BY DEF O!None
<1>2. req[s] \in O!Request
  BY <1>1 DEF O!TypeOK
<1> QED BY <1>1, <1>2 DEF O!Request

\* What a step does to the requests is typed; the others just watch.
LEMMA StepRequests ==
    ASSUME O!TypeOK, NEW s \in Slots, O!Step(s)
    PROVE  req[s] # O!None /\ req' \in Reqs /\ \A t \in Slots \ {s} : Untouched(t)
<1>0. req \in Reqs
  BY DEF O!TypeOK, Reqs
<1>a. ASSUME req[s] # O!None, UNCHANGED role,
             NEW phase \in {"look", "count", "write", "redeem", "accept"},
             O!Goes(s, phase) \/ O!Ends(s)
      PROVE  req' \in Reqs /\ \A t \in Slots \ {s} : Untouched(t)
  BY <1>a, GoesKeeps
<1>b. ASSUME req[s] # O!None,
             NEW phase \in {"look", "count", "write", "redeem", "accept"},
             O!GoesWatched(s, phase) \/ O!EndsWatched(s)
      PROVE  req' \in Reqs /\ \A t \in Slots \ {s} : Untouched(t)
  BY <1>b, WatchedKeeps
<1>1. CASE O!LookTarget(s)
  <2>1. req[s] # O!None
    BY <1>1 DEF O!LookTarget, O!Changes, O!None
  <2> QED BY <1>1, <1>a, <2>1 DEF O!LookTarget
<1>2. CASE O!CountOwners(s)
  <2>1. req[s] # O!None
    BY <1>2 DEF O!CountOwners, O!Changes, O!None
  <2> QED BY <1>2, <1>a, <2>1 DEF O!CountOwners
<1>3. CASE O!WriteRole(s)
  <2>1. req[s] # O!None
    BY <1>3 DEF O!WriteRole, O!Changes, O!None
  <2> QED BY <1>3, <1>b, <2>1 DEF O!WriteRole
<1>4. CASE O!LookMember(s)
  <2>1. req[s] # O!None
    BY <1>4 DEF O!LookMember, O!None
  <2> QED BY <1>4, <1>a, <2>1 DEF O!LookMember
<1>5. CASE O!WriteInvite(s)
  <2>1. req[s] # O!None
    BY <1>5 DEF O!WriteInvite, O!None
  <2> QED BY <1>5, <1>a, <2>1 DEF O!WriteInvite
<1>6. CASE O!DeleteOrg(s)
  <2>1. req[s] # O!None
    BY <1>6 DEF O!DeleteOrg, O!None
  <2> QED BY <1>6, <1>b, <2>1 DEF O!DeleteOrg
<1>7. CASE O!LookMembership(s)
  <2>1. req[s] # O!None
    BY <1>7 DEF O!LookMembership, O!None
  <2> QED BY <1>7, <1>a, <2>1 DEF O!LookMembership, O!Completes
<1>8. CASE O!Redeem(s)
  <2>1. req[s] # O!None
    BY <1>8 DEF O!Redeem, O!None
  <2> QED BY <1>8, <1>a, <1>b, <2>1 DEF O!Redeem, O!Completes
<1>9. CASE O!Accept(s)
  <2>1. req[s] # O!None
    BY <1>9 DEF O!Accept, O!None
  <2> QED BY <1>9, <1>a, <2>1 DEF O!Accept, O!Completes
<1>10. CASE O!LookBlockers(s)
  <2>1. req[s] # O!None
    BY <1>10 DEF O!LookBlockers, O!None
  <2> QED BY <1>10, <1>a, <2>1 DEF O!LookBlockers
<1>11. CASE O!CountMembers(s)
  <2>1. req[s].op = "deleteAccount"
    BY <1>11 DEF O!CountMembers
  <2>2. req[s] # O!None /\ req[s] \in O!Request
    BY <2>1, Looked
  <2> DEFINE q == [req[s] EXCEPT !.phase = "write", !.saw = O!Alone(req[s].by)]
  <2>3. q \in O!Request
    BY <2>2 DEF O!Request, O!Alone
  <2>4. req' = [req EXCEPT ![s] = q]
    BY <1>11, <2>2, <1>0 DEF O!CountMembers, Reqs
  <2> HIDE DEF q
  <2>5. ~OwnerLost /\ ~Joined
    BY <1>11 DEF O!CountMembers, OwnerLost, Joined
  <2> QED BY <2>2, <2>3, <2>4, <2>5, <1>0 DEF Reqs, Untouched, SameRequest
<1>12. CASE O!DeleteAccount(s)
  <2>1. req[s] # O!None
    BY <1>12 DEF O!DeleteAccount, O!None
  <2> QED BY <1>12, <1>b, <2>1 DEF O!DeleteAccount
<1>13. CASE O!Crash(s)
  <2>1. req[s] # O!None
    BY <1>13 DEF O!Crash
  <2> QED BY <1>13, <1>a, <2>1 DEF O!Crash
<1> QED BY <1>1, <1>2, <1>3, <1>4, <1>5, <1>6, <1>7, <1>8, <1>9, <1>10, <1>11, <1>12, <1>13
        DEF O!Step

\* A membership is one of three, or none.
LEMMA RolesAre == O!Roles = {"MEMBER", "ADMIN", "OWNER"}
BY DEF O!Roles, O!Ranked

\* What was used stays used.
LEMMA UsedGrows ==
    ASSUME O!TypeOK, [O!Next]_O!vars
    PROVE  /\ asked' \in [requests : Nat, crashes : Nat]
           /\ asked'.crashes >= asked.crashes
<1>1. asked \in [requests : Nat, crashes : Nat] /\ asked.requests \in Nat /\ asked.crashes \in Nat
  BY DEF O!TypeOK
<1>2. \/ asked' = asked
      \/ asked' = [asked EXCEPT !.requests = @ + 1]
      \/ asked' = [asked EXCEPT !.crashes = @ + 1]
  BY Zenon DEF O!Next, O!vars, O!Begin, O!Revoke, O!Expire, O!Step, O!LookTarget, O!CountOwners, O!WriteRole, O!LookMember,
      O!WriteInvite, O!DeleteOrg, O!LookMembership, O!Redeem, O!Accept, O!LookBlockers, O!CountMembers,
      O!DeleteAccount, O!Crash
<1> QED BY <1>1, <1>2

\* What a step does to memberships, invitations and accounts is typed, and keeps
\* invitations with their organization, memberships with their accounts.
LEMMA StepTypeOK ==
    ASSUME O!TypeOK, InvitesOfOrg, NEW s \in Slots, O!Step(s)
    PROVE  O!TypeOK' /\ InvitesOfOrg'
<1>0. /\ req[s] # O!None /\ req' \in [Slots -> O!Request \union {O!None}]
      /\ req[s].by \in Users /\ req[s].on \in Users /\ req[s].to \in O!Roles
  BY StepRequests DEF Reqs, O!Request, O!TypeOK
<1> USE DEF O!TypeOK, InvitesOfOrg
<1>1. CASE O!LookTarget(s) \/ O!CountOwners(s) \/ O!LookMember(s) \/ O!LookBlockers(s)
           \/ O!CountMembers(s) \/ O!Crash(s)
  BY <1>0, <1>1 DEF O!LookTarget, O!CountOwners, O!LookMember, O!LookBlockers, O!CountMembers, O!Crash
<1>2. CASE O!WriteRole(s)
  BY <1>0, <1>2 DEF O!WriteRole
<1>3. CASE O!WriteInvite(s)
  <2>1. req[s].to # "NONE"
    BY <1>0, RolesAre
  <2> QED BY <1>0, <1>3, <2>1 DEF O!WriteInvite
<1>4. CASE O!DeleteOrg(s)
  BY <1>0, <1>4 DEF O!DeleteOrg, O!Gone
<1>5. CASE O!LookMembership(s)
  BY <1>0, <1>5 DEF O!LookMembership, O!Completes
<1>6. CASE O!Redeem(s)
  BY <1>0, <1>6 DEF O!Redeem, O!Completes, O!Redeemable, O!Pending
<1>7. CASE O!Accept(s)
  BY <1>0, <1>7 DEF O!Accept, O!Completes
<1>8. CASE O!DeleteAccount(s)
  <2> DEFINE u == req[s].by
  <2>1. CASE account[u] /\ (req[s].saw => org) /\ req[s].saw
    <3>1. /\ account' = [account EXCEPT ![u] = FALSE] /\ own' = [own EXCEPT ![u] = FALSE]
          /\ signed' = [signed EXCEPT ![u] = FALSE] /\ O!Gone
      BY <1>8, <2>1 DEF O!DeleteAccount
    <3>2. raced' \in BOOLEAN /\ asked' = asked
      BY <1>8 DEF O!DeleteAccount
    <3> QED BY <1>0, <3>1, <3>2 DEF O!Gone
  <2>2. CASE account[u] /\ ~req[s].saw
    <3>1. /\ account' = [account EXCEPT ![u] = FALSE] /\ own' = [own EXCEPT ![u] = FALSE]
          /\ signed' = [signed EXCEPT ![u] = FALSE] /\ role' = [role EXCEPT ![u] = "NONE"]
          /\ UNCHANGED <<org, invite, accepted, awaited>>
      BY <1>8, <2>2 DEF O!DeleteAccount
    <3>2. raced' \in BOOLEAN /\ asked' = asked
      BY <1>8 DEF O!DeleteAccount
    <3> QED BY <1>0, <3>1, <3>2
  <2>3. CASE ~(account[u] /\ (req[s].saw => org))
    BY <1>0, <1>8, <2>3 DEF O!DeleteAccount
  <2> QED BY <2>1, <2>2, <2>3
<1> QED BY <1>1, <1>2, <1>3, <1>4, <1>5, <1>6, <1>7, <1>8 DEF O!Step

\* A request that begins is one, and the others stay as they are.
LEMMA BeginRequests ==
    ASSUME O!TypeOK, NEW s \in Slots, NEW op \in O!Procedures, NEW by \in Users, NEW on \in Users,
           NEW to \in O!Roles, O!Begin(s, op, by, on, to)
    PROVE  /\ req' \in Reqs /\ req'[s].phase = "look" /\ req'[s].op = op
           /\ req[s] = O!None /\ req'[s] # O!None
           /\ \A t \in Slots \ {s} : req'[t] = req[t]
<1> DEFINE q == [op |-> op, by |-> by, on |-> on, to |-> to, saw |-> awaited[by],
                 phase |-> "look", since |-> {}]
<1>1. q \in O!Request /\ q.phase = "look" /\ q.op = op
  BY DEF O!Request, O!TypeOK
<1>2. req' = [req EXCEPT ![s] = q] /\ req[s] = O!None
  BY DEF O!Begin
<1> HIDE DEF q
<1>3. q # O!None
  BY <1>1, NoneApart
<1> QED BY <1>1, <1>2, <1>3 DEF O!TypeOK, Reqs

\* The types and the invitations' tie to their organization are kept by every step.
LEMMA NextTypeOK == O!TypeOK /\ InvitesOfOrg /\ [O!Next]_O!vars => O!TypeOK' /\ InvitesOfOrg'
<1> SUFFICES ASSUME O!TypeOK, InvitesOfOrg, [O!Next]_O!vars PROVE O!TypeOK' /\ InvitesOfOrg'
  OBVIOUS
<1>1. ASSUME NEW s \in Slots, O!Step(s) PROVE O!TypeOK' /\ InvitesOfOrg'
  BY <1>1, StepTypeOK
<1>2. ASSUME NEW s \in Slots, NEW op \in O!Procedures, NEW by \in Users, NEW on \in Users,
             NEW to \in O!Roles, O!Begin(s, op, by, on, to)
      PROVE  O!TypeOK' /\ InvitesOfOrg'
  <2>1. asked' \in [requests : Nat, crashes : Nat]
    BY UsedGrows
  <2>2. /\ account' \in [Users -> BOOLEAN] /\ \A u \in Users : account[u] => account'[u]
        /\ UNCHANGED <<org, role, own, invite, accepted, awaited, signed, raced>>
    BY <1>2 DEF O!TypeOK, O!Begin
  <2>3. req' \in [Slots -> O!Request \union {O!None}]
    BY <1>2, BeginRequests DEF Reqs
  <2> QED BY <2>1, <2>2, <2>3 DEF O!TypeOK, InvitesOfOrg
<1>3. ASSUME NEW by \in Users, NEW u \in Users, O!Revoke(by, u) PROVE O!TypeOK' /\ InvitesOfOrg'
  BY <1>3 DEF O!TypeOK, InvitesOfOrg, O!Revoke, O!Withdrawn
<1>4. ASSUME NEW u \in Users, O!Expire(u) PROVE O!TypeOK' /\ InvitesOfOrg'
  BY <1>4 DEF O!TypeOK, InvitesOfOrg, O!Expire, O!Withdrawn
<1>5. CASE UNCHANGED O!vars
  BY <1>5 DEF O!TypeOK, InvitesOfOrg, O!vars
<1> QED BY <1>1, <1>2, <1>3, <1>4, <1>5 DEF O!Next

-----------------------------------------------------------------------------
(* What requests know                                                      *)

\* A request that only watches knows what it knew, or that it has been overtaken.
LEMMA KeptInformed ==
    ASSUME O!TypeOK, Informed, org, ~raced, NEW t \in Slots, Untouched(t), req'[t] # O!None
    PROVE  KnowsOwner(req[t])' /\ KnowsOthers(req[t])'
<1>1. /\ req[t] # O!None /\ SameRequest(req[t], req'[t])
      /\ req[t] \in O!Request /\ req[t].by \in Users /\ req[t].on \in Users
  BY DEF Untouched, O!TypeOK, O!Request
<1>2. KnowsOwner(req[t]) /\ KnowsOthers(req[t])
  BY <1>1 DEF Informed
<1>3. KnowsOwner(req[t])'
  BY <1>1, <1>2
     DEF KnowsOwner, SameRequest, Overtaken, O!Changes, O!Demotes, O!OtherOwners, OwnerLost
<1>4. KnowsOthers(req[t])'
  BY <1>1, <1>2
     DEF KnowsOthers, SameRequest, O!OtherOwners, O!OtherMembers, OwnerLost, Joined
<1> QED BY <1>3, <1>4

\* A request that goes on knows what its own step has found out.
LEMMA OwnInformed ==
    ASSUME OrgInv, org, ~raced, NEW s \in Slots, O!Step(s), req'[s] # O!None
    PROVE  KnowsOwner(req[s])' /\ KnowsOthers(req[s])'
<1>0. /\ O!TypeOK /\ req[s] # O!None /\ req[s] \in O!Request
      /\ req[s].by \in Users /\ req[s].on \in Users
  BY StepRequests DEF OrgInv, O!TypeOK, O!Request
<1>1. PICK o \in Users : role[o] = "OWNER"
  BY DEF OrgInv, O!HasOwner
<1>2. KnowsOwner(req[s]) /\ KnowsOthers(req[s])
  BY <1>0 DEF OrgInv, Informed
<1>3. ASSUME UNCHANGED role, NEW phase \in {"look", "count", "write", "redeem", "accept"},
             O!Goes(s, phase)
      PROVE  /\ req'[s].phase = phase /\ req'[s].op = req[s].op /\ req'[s].by = req[s].by
             /\ req'[s].on = req[s].on /\ req'[s].to = req[s].to /\ req'[s].saw = req[s].saw
             /\ req'[s].since = req[s].since
             /\ O!OtherOwners(req[s].on)' = {u \in Users \ {req[s].on} : role[u] = "OWNER"}
             /\ O!OtherOwners(req[s].by)' = {u \in Users \ {req[s].by} : role[u] = "OWNER"}
             /\ O!OtherMembers(req[s].by)' = {u \in Users \ {req[s].by} : role[u] # "NONE"}
  BY <1>0, <1>3, GoesKeeps DEF O!OtherOwners, O!OtherMembers
<1>4. ASSUME O!Ends(s) PROVE FALSE
  BY <1>4 DEF O!Ends, OrgInv, O!TypeOK
<1>5. ASSUME O!EndsWatched(s) PROVE FALSE
  BY <1>0, <1>5, WatchedKeeps
<1> USE DEF KnowsOwner, KnowsOthers, O!Changes, O!Demotes
<1>6. CASE O!LookTarget(s)
  <2>1. CASE role[req[s].on] = "OWNER" /\ O!Demotes(req[s])
    BY <1>0, <1>3, <1>4, <1>6, <2>1 DEF O!LookTarget
  <2>2. CASE ~(role[req[s].on] = "OWNER" /\ O!Demotes(req[s]))
    <3>1. O!Goes(s, "write") /\ UNCHANGED role /\ O!Changes(req[s])
      BY <1>4, <1>6, <2>2 DEF O!LookTarget
    <3>2. O!Demotes(req[s]) => o # req[s].on
      BY <1>1, <2>2
    <3> QED BY <1>1, <1>3, <3>1, <3>2 DEF O!OtherOwners
  <2> QED BY <2>1, <2>2
<1>7. CASE O!CountOwners(s)
  BY <1>0, <1>3, <1>4, <1>7 DEF O!CountOwners, O!LastOwner, O!OtherOwners
<1>8. CASE O!LookMember(s)
  BY <1>0, <1>3, <1>4, <1>8 DEF O!LookMember
<1>9. CASE O!LookMembership(s)
  BY <1>0, <1>3, <1>4, <1>9 DEF O!LookMembership, O!Completes
<1>10. CASE O!Redeem(s)
  <2>1. O!GoesWatched(s, "accept") /\ req[s].op = "signIn"
    BY <1>3, <1>4, <1>10 DEF O!Redeem, O!Completes
  <2> QED BY <1>0, <1>5, <2>1, WatchedKeeps
<1>11. CASE O!LookBlockers(s)
  <2>1. O!Goes(s, "count") /\ ~O!Blocks(req[s].by) /\ UNCHANGED role /\ req[s].op = "deleteAccount"
    BY <1>4, <1>11 DEF O!LookBlockers
  <2>2. role[req[s].by] # "OWNER" => o # req[s].by
    BY <1>1
  <2> QED BY <1>0, <1>1, <1>3, <2>1, <2>2 DEF O!Blocks, O!OtherOwners, O!OtherMembers
<1>12. CASE O!CountMembers(s)
  <2> DEFINE q == [req[s] EXCEPT !.phase = "write", !.saw = O!Alone(req[s].by)]
  <2>1. req' = [req EXCEPT ![s] = q] /\ UNCHANGED role
    BY <1>0, <1>12 DEF O!CountMembers, OrgInv, O!TypeOK
  <2>2. /\ q.op = req[s].op /\ q.by = req[s].by /\ q.since = req[s].since
        /\ q.phase = "write" /\ q.saw = O!Alone(req[s].by)
    BY <1>0 DEF O!Request
  <2> HIDE DEF q
  <2>3. req'[s] = q
    BY <2>1, <1>0 DEF O!TypeOK
  <2>4. O!Alone(req[s].by) => O!OtherMembers(req[s].by) = {}
    BY DEF O!Alone
  <2>5. \/ O!Alone(req[s].by) \/ req[s].since # {}
        \/ \E u \in Users \ {req[s].by} : role[u] = "OWNER"
    BY <1>1, <1>2, <1>12 DEF O!CountMembers, O!Alone, O!OtherOwners
  <2>6. q.saw => \A u \in Users \ {req[s].by} : role'[u] = "NONE"
    BY <2>1, <2>2, <2>4 DEF O!OtherMembers
  <2>7. ~q.saw => req[s].since # {} \/ \E u \in Users \ {req[s].by} : role'[u] = "OWNER"
    BY <2>1, <2>2, <2>5
  <2>8. req[s].op = "deleteAccount"
    BY <1>12 DEF O!CountMembers
  <2> QED BY <2>2, <2>3, <2>6, <2>7, <2>8 DEF O!OtherOwners, O!OtherMembers
<1>13. CASE O!WriteRole(s) \/ O!WriteInvite(s) \/ O!DeleteOrg(s) \/ O!Accept(s) \/ O!DeleteAccount(s)
            \/ O!Crash(s)
  BY <1>4, <1>5, <1>13 DEF O!WriteRole, O!WriteInvite, O!DeleteOrg, O!Accept, O!Completes,
                           O!DeleteAccount, O!Crash
<1> QED BY <1>6, <1>7, <1>8, <1>9, <1>10, <1>11, <1>12, <1>13 DEF O!Step

\* What was undone stays undone: a step brings neither the organization nor a clean past back.
LEMMA NoWayBack ==
    ASSUME O!TypeOK, NEW s \in Slots, O!Step(s), org', ~raced'
    PROVE  org /\ ~raced
<1>1. CASE O!WriteRole(s)
  BY <1>1 DEF O!WriteRole
<1>2. CASE O!DeleteOrg(s)
  BY <1>2 DEF O!DeleteOrg, O!Gone
<1>3. CASE O!DeleteAccount(s)
  BY <1>3 DEF O!DeleteAccount, O!Gone
<1>4. CASE O!LookTarget(s) \/ O!CountOwners(s) \/ O!LookMember(s) \/ O!LookBlockers(s)
           \/ O!CountMembers(s) \/ O!Crash(s)
  <2>1. UNCHANGED <<org, raced>>
    BY <1>4 DEF O!LookTarget, O!CountOwners, O!LookMember, O!LookBlockers, O!CountMembers, O!Crash
  <2> QED BY <2>1
<1>5. CASE O!WriteInvite(s) \/ O!LookMembership(s) \/ O!Redeem(s) \/ O!Accept(s)
  <2>1. UNCHANGED <<org, raced>>
    BY <1>5 DEF O!WriteInvite, O!LookMembership, O!Redeem, O!Accept
  <2> QED BY <2>1
<1> QED BY <1>1, <1>2, <1>3, <1>4, <1>5 DEF O!Step

\* An owner is left by every step of a request that knows what it does.
LEMMA OwnerLeft ==
    ASSUME OrgInv, NEW s \in Slots, O!Step(s), org', ~raced'
    PROVE  \E u \in Users : role'[u] = "OWNER"
<1>0. /\ O!TypeOK /\ org /\ ~raced /\ req[s] # O!None /\ req[s] \in O!Request
      /\ req[s].by \in Users /\ req[s].on \in Users
      /\ role \in [Users -> O!Roles \union {"NONE"}]
  BY NoWayBack, StepRequests DEF OrgInv, O!TypeOK, O!Request
<1>1. PICK o \in Users : role[o] = "OWNER"
  BY <1>0 DEF OrgInv, O!HasOwner
<1>2. KnowsOwner(req[s]) /\ KnowsOthers(req[s])
  BY <1>0 DEF OrgInv, Informed
<1>3. CASE O!WriteRole(s)
  <2>1. O!Changes(req[s]) /\ req[s].phase = "write" /\ ~Overtaken(req[s], "ownerLost")
    BY <1>3 DEF O!WriteRole, Overtaken
  <2>2. CASE O!Demotes(req[s])
    <3>1. PICK p \in O!OtherOwners(req[s].on) : TRUE
      BY <1>2, <2>1, <2>2 DEF KnowsOwner
    <3> QED BY <1>0, <1>3, <3>1 DEF O!WriteRole, O!OtherOwners
  <2>3. CASE ~O!Demotes(req[s])
    <3>1. CASE o = req[s].on
      BY <1>0, <1>1, <1>3, <2>3, <3>1 DEF O!WriteRole, O!Demotes
    <3>2. CASE o # req[s].on
      BY <1>0, <1>1, <1>3, <3>2 DEF O!WriteRole
    <3> QED BY <3>1, <3>2
  <2> QED BY <2>2, <2>3
<1>4. CASE O!DeleteOrg(s)
  BY <1>4 DEF O!DeleteOrg, O!Gone
<1>5. CASE O!DeleteAccount(s)
  <2>1. CASE UNCHANGED role
    BY <1>1, <2>1
  <2>2. CASE O!Gone
    BY <2>2 DEF O!Gone
  <2>3. CASE ~O!Gone /\ ~UNCHANGED role
    <3>1. /\ req[s].op = "deleteAccount" /\ req[s].phase = "write" /\ req[s].since = {}
          /\ ~req[s].saw /\ role' = [role EXCEPT ![req[s].by] = "NONE"]
      BY <1>5, <2>3 DEF O!DeleteAccount
    <3>2. PICK p \in O!OtherOwners(req[s].by) : TRUE
      BY <1>2, <3>1 DEF KnowsOthers
    <3> QED BY <1>0, <3>1, <3>2 DEF O!OtherOwners
  <2> QED BY <2>1, <2>2, <2>3
<1>6. CASE O!Redeem(s)
  BY <1>0, <1>1, <1>6 DEF O!Redeem
<1>7. CASE O!LookTarget(s) \/ O!CountOwners(s) \/ O!LookMember(s) \/ O!LookBlockers(s)
           \/ O!CountMembers(s) \/ O!Crash(s)
  BY <1>1, <1>7 DEF O!LookTarget, O!CountOwners, O!LookMember, O!LookBlockers, O!CountMembers, O!Crash
<1>8. CASE O!WriteInvite(s) \/ O!LookMembership(s) \/ O!Accept(s)
  BY <1>1, <1>8 DEF O!WriteInvite, O!LookMembership, O!Accept
<1> QED BY <1>3, <1>4, <1>5, <1>6, <1>7, <1>8 DEF O!Step

\* A new workspace has an owner, and nobody knows anything yet.
LEMMA InitInv == O!Init => OrgInv
<1> SUFFICES ASSUME O!Init PROVE OrgInv
  OBVIOUS
<1>1. asked \in [requests : Nat, crashes : Nat]
  BY DEF O!Init
<1> QED BY <1>1 DEF O!Init, OrgInv, O!TypeOK, InvitesOfOrg, O!HasOwner, Informed

\* Every step keeps an owner, and what requests know.
LEMMA NextInv == OrgInv /\ [O!Next]_O!vars => OrgInv'
<1> SUFFICES ASSUME OrgInv, [O!Next]_O!vars PROVE OrgInv'
  OBVIOUS
<1>0. O!TypeOK' /\ InvitesOfOrg'
  BY NextTypeOK DEF OrgInv
<1>1. ASSUME NEW s \in Slots, O!Step(s) PROVE O!HasOwner' /\ Informed'
  <2>1. O!HasOwner'
    BY <1>1, OwnerLeft DEF O!HasOwner
  <2>2. ASSUME org', ~raced', NEW t \in Slots, req'[t] # O!None
        PROVE  KnowsOwner(req[t])' /\ KnowsOthers(req[t])'
    <3>1. org /\ ~raced
      BY <1>1, <2>2, NoWayBack DEF OrgInv
    <3>2. CASE t = s
      BY <1>1, <2>2, <3>1, <3>2, OwnInformed
    <3>3. CASE t # s
      BY <1>1, <2>2, <3>1, <3>3, StepRequests, KeptInformed DEF OrgInv
    <3> QED BY <3>2, <3>3
  <2> QED BY <2>1, <2>2 DEF Informed
<1>2. ASSUME UNCHANGED <<org, role, raced>>,
             \A t \in Slots : req'[t] # O!None /\ req'[t] # req[t] => req'[t].phase = "look"
      PROVE  O!HasOwner' /\ Informed'
  BY <1>2 DEF OrgInv, O!HasOwner, Informed, KnowsOwner, KnowsOthers, O!OtherOwners, O!OtherMembers
<1>3. ASSUME NEW s \in Slots, NEW op \in O!Procedures, NEW by \in Users, NEW on \in Users,
             NEW to \in O!Roles, O!Begin(s, op, by, on, to)
      PROVE  O!HasOwner' /\ Informed'
  <2>1. UNCHANGED <<org, role, raced>>
    BY <1>3 DEF O!Begin
  <2>2. \A t \in Slots : req'[t] # O!None /\ req'[t] # req[t] => req'[t].phase = "look"
    BY <1>3, BeginRequests DEF OrgInv
  <2> QED BY <2>1, <2>2, <1>2
<1>4. ASSUME NEW by \in Users, NEW u \in Users, O!Revoke(by, u) PROVE O!HasOwner' /\ Informed'
  BY <1>2, <1>4 DEF O!Revoke
<1>5. ASSUME NEW u \in Users, O!Expire(u) PROVE O!HasOwner' /\ Informed'
  BY <1>2, <1>5 DEF O!Expire
<1>6. ASSUME UNCHANGED O!vars PROVE O!HasOwner' /\ Informed'
  BY <1>2, <1>6 DEF O!vars
<1> QED BY <1>0, <1>1, <1>3, <1>4, <1>5, <1>6 DEF O!Next, OrgInv

\* The types and the invariant hold in every state.
THEOREM Invariance == O!Spec => []OrgInv
<1> QED BY InitInv, NextInv, PTL DEF O!Spec

\* However many users ask at once, the last owner is never demoted, removed or deleted,
\* unless a request wrote though an owner was lost or a member joined since it looked.
THEOREM OwnerStays == O!Spec => []HasOwner
<1>1. OrgInv => HasOwner
  BY DEF OrgInv, HasOwner
<1> QED BY <1>1, Invariance, PTL

\* Deleting an account takes a workspace along only if nobody else is in it.
THEOREM OrgStays == O!Spec => O!MembersKeepOrg
<1> DEFINE Members == {u \in Users : role[u] # "NONE"}
           Kind(s) == req[s].op = "deleteAccount" /\ req'[s] = O!None
           Fair == org /\ ~org' /\ ~raced' /\ (\E s \in Slots : Kind(s))
                     => O!Cardinality(Members) <= 1
<1>1. ASSUME OrgInv, [O!Next]_O!vars, org, ~org', ~raced', NEW t \in Slots, Kind(t)
      PROVE  O!Cardinality(Members) <= 1
  <2>1. PICK s \in Slots : O!DeleteOrg(s) \/ O!DeleteAccount(s)
    BY <1>1 DEF O!Next, O!vars, O!Begin, O!Revoke, O!Expire, O!Step, O!LookTarget, O!CountOwners, O!WriteRole,
                O!LookMember, O!WriteInvite, O!LookMembership, O!Redeem, O!Accept, O!LookBlockers,
                O!CountMembers, O!Crash
  <2>2. req[s] # O!None /\ req[t] # O!None
    <3>1. req[t].op = "deleteAccount" /\ req[s].op \in {"deleteOrg", "deleteAccount"}
      BY <1>1, <2>1 DEF O!DeleteOrg, O!DeleteAccount
    <3>2. O!None.op = "none"
      BY DEF O!None
    <3> QED BY <3>1, <3>2
  <2>3. O!EndsWatched(s)
    BY <2>1 DEF O!DeleteOrg, O!DeleteAccount
  <2>4. t = s
    BY <1>1, <2>2, <2>3, WatchedKeeps DEF OrgInv, Untouched
  <2>5. O!DeleteAccount(s)
    BY <1>1, <2>1, <2>4 DEF O!DeleteOrg
  <2>6. /\ req[s].since = {} /\ ~raced /\ req[s].saw /\ req[s].phase = "write"
        /\ req[s].op = "deleteAccount"
    BY <1>1, <2>5 DEF O!DeleteAccount
  <2>7. O!OtherMembers(req[s].by) = {}
    BY <1>1, <2>2, <2>6 DEF OrgInv, Informed, KnowsOthers
  <2>8. Members \subseteq {req[s].by}
    BY <2>7 DEF O!OtherMembers
  <2>9. IsFiniteSet({req[s].by}) /\ Cardinality({req[s].by}) = 1
    BY FS_Singleton
  <2>10. Cardinality(Members) <= 1
    BY <2>8, <2>9, FS_Subset
  <2> QED BY <2>10 DEF O!Cardinality, Cardinality
<1>2. OrgInv /\ [O!Next]_O!vars => Fair
  BY <1>1
<1> QED BY <1>2, Invariance, PTL DEF O!Spec, O!MembersKeepOrg

-----------------------------------------------------------------------------
(* A first sign-in redeems the invitation                                  *)

\* t signs u in, and has given u a workspace of its own.
Redeems(t, u) == /\ req[t].op = "signIn" /\ req[t].by = u
                 /\ req[t].phase \in {"redeem", "accept"}

\* It will after the step.
WillRedeem(t, u) == /\ req'[t].op = "signIn" /\ req'[t].by = u
                    /\ req'[t].phase \in {"redeem", "accept"}

\* Who has been invited still has the invitation; and who has a workspace has signed in,
\* or is about to, unless a request was cut short.
Promised ==
    /\ \A u \in Users : awaited[u] => invite[u] # "NONE"
    /\ \A u \in Users : own[u] => /\ account[u]
                                 /\ \/ signed[u] \/ asked.crashes > 0
                                    \/ \E t \in Slots : Redeems(t, u)

\* A request that goes on does not end.
LEMMA GoesOn ==
    ASSUME O!TypeOK, NEW s \in Slots, req[s] # O!None,
           NEW phase \in {"look", "count", "write", "redeem", "accept"}, O!GoesWatched(s, phase)
    PROVE  ~O!EndsWatched(s)
<1> DEFINE q == [req[s] EXCEPT !.phase = phase]
           r == [req EXCEPT ![s] = q]
<1>1. req \in Reqs /\ req[s] \in O!Request /\ req' = O!Watched(r)
  BY DEF O!TypeOK, Reqs, O!GoesWatched
<1>2. q \in O!Request
  BY <1>1, MovedFields
<1> HIDE DEF q
<1>3. r \in Reqs /\ r[s] = q
  BY <1>1, <1>2 DEF Reqs
<1> HIDE DEF r
<1>4. req'[s] # O!None
  BY <1>1, <1>2, <1>3, NoneApart, WatchedFields
<1>5. O!EndsWatched(s) => req'[s] = O!None
  BY WatchedKeeps
<1> QED BY <1>4, <1>5

\* What a sign-in does, phase by phase.
LEMMA SignInFields ==
    ASSUME O!TypeOK, NEW s \in Slots
    PROVE  /\ O!LookMembership(s) =>
                 /\ req[s].op = "signIn" /\ req[s].phase = "look" /\ req[s].by \in Users
                 /\ UNCHANGED <<org, role, account, invite, accepted, awaited, asked>>
                 /\ \/ O!Completes(s) /\ own' = own
                       /\ (role[req[s].by] # "NONE" \/ own[req[s].by] \/ ~account[req[s].by])
                    \/ /\ account[req[s].by] /\ own' = [own EXCEPT ![req[s].by] = TRUE]
                       /\ WillRedeem(s, req[s].by) /\ signed' = signed
           /\ O!Redeem(s) =>
                 /\ req[s].op = "signIn" /\ req[s].phase = "redeem" /\ req[s].by \in Users
                 /\ UNCHANGED <<org, account, own, invite, accepted, asked>>
                 /\ \/ /\ awaited' = [awaited EXCEPT ![req[s].by] = FALSE]
                       /\ signed' = signed
                       /\ WillRedeem(s, req[s].by)
                    \/ /\ O!Completes(s) /\ awaited' = awaited
                       /\ ~O!Redeemable(req[s].by) \/ ~account[req[s].by]
           /\ O!Accept(s) =>
                 /\ req[s].op = "signIn" /\ req[s].phase = "accept" /\ req[s].by \in Users
                 /\ O!Completes(s)
                 /\ UNCHANGED <<org, role, account, own, invite, awaited, asked>>
<1>0. req[s].op = "signIn" => req[s] # O!None /\ req[s] \in O!Request /\ req[s].by \in Users
  BY Looked
<1>1. ASSUME O!LookMembership(s)
      PROVE  /\ req[s].op = "signIn" /\ req[s].phase = "look" /\ req[s].by \in Users
             /\ UNCHANGED <<org, role, account, invite, accepted, awaited, asked>>
             /\ \/ O!Completes(s) /\ own' = own
                   /\ (role[req[s].by] # "NONE" \/ own[req[s].by] \/ ~account[req[s].by])
                \/ /\ account[req[s].by] /\ own' = [own EXCEPT ![req[s].by] = TRUE]
                   /\ WillRedeem(s, req[s].by) /\ signed' = signed
  <2>1. /\ req[s].op = "signIn" /\ req[s].phase = "look" /\ req[s].by \in Users /\ req[s] # O!None
        /\ UNCHANGED <<org, role, account, invite, accepted, awaited, asked>>
    BY <1>0, <1>1 DEF O!LookMembership
  <2>2. CASE role[req[s].by] # "NONE" \/ own[req[s].by] \/ ~account[req[s].by]
    BY <1>1, <2>1, <2>2 DEF O!LookMembership
  <2>3. CASE ~(role[req[s].by] # "NONE" \/ own[req[s].by] \/ ~account[req[s].by])
    <3>1. O!Goes(s, "redeem") /\ own' = [own EXCEPT ![req[s].by] = TRUE] /\ signed' = signed
      BY <1>1, <2>3 DEF O!LookMembership
    <3>2. WillRedeem(s, req[s].by)
      BY <2>1, <3>1, GoesKeeps DEF WillRedeem
    <3> QED BY <2>1, <2>3, <3>1, <3>2
  <2> QED BY <2>2, <2>3
<1>2. ASSUME O!Redeem(s)
      PROVE  /\ req[s].op = "signIn" /\ req[s].phase = "redeem" /\ req[s].by \in Users
             /\ UNCHANGED <<org, account, own, invite, accepted, asked>>
             /\ \/ /\ awaited' = [awaited EXCEPT ![req[s].by] = FALSE]
                   /\ signed' = signed
                   /\ WillRedeem(s, req[s].by)
                \/ /\ O!Completes(s) /\ awaited' = awaited
                   /\ ~O!Redeemable(req[s].by) \/ ~account[req[s].by]
  <2>1. /\ req[s].op = "signIn" /\ req[s].phase = "redeem" /\ req[s].by \in Users /\ req[s] # O!None
        /\ UNCHANGED <<org, account, own, invite, accepted, asked>>
    BY <1>0, <1>2 DEF O!Redeem
  <2>2. CASE O!Redeemable(req[s].by) /\ account[req[s].by]
    <3>1. /\ O!GoesWatched(s, "accept") /\ signed' = signed
          /\ awaited' = [awaited EXCEPT ![req[s].by] = FALSE]
      BY <1>2, <2>2 DEF O!Redeem
    <3>2. WillRedeem(s, req[s].by)
      BY <2>1, <3>1, GoesOn, WatchedKeeps DEF WillRedeem
    <3> QED BY <2>1, <3>1, <3>2
  <2>3. CASE ~(O!Redeemable(req[s].by) /\ account[req[s].by])
    BY <1>2, <2>1, <2>3 DEF O!Redeem
  <2> QED BY <2>2, <2>3
<1>3. ASSUME O!Accept(s)
      PROVE  /\ req[s].op = "signIn" /\ req[s].phase = "accept" /\ req[s].by \in Users
             /\ O!Completes(s)
             /\ UNCHANGED <<org, role, account, own, invite, awaited, asked>>
  BY <1>0, <1>3 DEF O!Accept
<1> QED BY <1>1, <1>2, <1>3

\* A sign-in that goes on is about to end or was cut short.
LEMMA RedeemsOn ==
    ASSUME O!TypeOK, Promised, [O!Next]_O!vars, NEW t \in Slots, NEW u \in Users, Redeems(t, u), own'[u]
    PROVE  WillRedeem(t, u) \/ signed'[u] \/ asked'.crashes > 0
<1>0. req[t] # O!None /\ req[t].op = "signIn" /\ req[t].by = u
  BY Looked DEF Redeems
<1>1. ASSUME NEW s \in Slots, O!Step(s), s # t
      PROVE  WillRedeem(t, u)
  <2>1. Untouched(t)
    BY <1>1, StepRequests
  <2> QED BY <1>0, <2>1 DEF Untouched, SameRequest, Redeems, WillRedeem
<1>2. CASE O!Step(t)
  <2>1. O!LookMembership(t) \/ O!Redeem(t) \/ O!Accept(t) \/ O!Crash(t)
    BY <1>0, <1>2 DEF O!Step, O!LookTarget, O!CountOwners, O!WriteRole, O!Changes, O!LookMember, O!WriteInvite,
                      O!DeleteOrg, O!LookBlockers, O!CountMembers, O!DeleteAccount
  <2>2. ASSUME O!Completes(t), own' = own
        PROVE  signed'[u]
    <3>1. account[u]
      BY <2>2 DEF Promised
    <3> QED BY <1>0, <2>2, <3>1 DEF O!Completes, O!TypeOK
  <2>3. CASE O!Crash(t)
    BY <2>3 DEF O!Crash, O!TypeOK
  <2>4. ~O!LookMembership(t)
    BY SignInFields DEF Redeems
  <2> QED BY <1>0, <2>1, <2>2, <2>3, <2>4, SignInFields
<1>3. ASSUME NEW s \in Slots, NEW op \in O!Procedures, NEW by \in Users, NEW on \in Users,
             NEW to \in O!Roles, O!Begin(s, op, by, on, to)
      PROVE  WillRedeem(t, u)
  BY <1>0, <1>3, BeginRequests DEF Redeems, WillRedeem
<1>4. CASE UNCHANGED req
  BY <1>4 DEF Redeems, WillRedeem
<1> QED BY <1>1, <1>2, <1>3, <1>4 DEF O!Next, O!Revoke, O!Expire, O!vars

\* A workspace is given or taken, and a sign-in recorded or forgotten, by a sign-in of the
\* user or by the deletion of the account.
LEMMA AccountSteps ==
    ASSUME O!TypeOK, [O!Next]_O!vars, NEW u \in Users
    PROVE  /\ own'[u] => \/ own[u] /\ (signed[u] => signed'[u] \/ ~account[u]) /\ (account[u] => account'[u])
                         \/ account'[u] /\ \E t \in Slots : WillRedeem(t, u)
           /\ awaited'[u] /\ invite'[u] = "NONE" => awaited[u] /\ invite[u] = "NONE"
<1> USE DEF O!TypeOK
<1>1. ASSUME NEW s \in Slots, O!LookMembership(s) \/ O!Redeem(s) \/ O!Accept(s)
      PROVE  /\ own'[u] => \/ own[u] /\ (signed[u] => signed'[u] \/ ~account[u]) /\ (account[u] => account'[u])
                           \/ account'[u] /\ \E t \in Slots : WillRedeem(t, u)
             /\ awaited'[u] /\ invite'[u] = "NONE" => awaited[u] /\ invite[u] = "NONE"
  <2>1. CASE O!LookMembership(s)
    BY <2>1, SignInFields DEF O!Completes
  <2>2. CASE O!Redeem(s)
    BY <2>2, SignInFields DEF O!Completes
  <2>3. CASE O!Accept(s)
    BY <2>3, SignInFields DEF O!Completes
  <2> QED BY <1>1, <2>1, <2>2, <2>3
<1>2. ASSUME NEW s \in Slots, O!WriteInvite(s)
      PROVE  /\ UNCHANGED <<own, signed, account>>
             /\ awaited'[u] /\ invite'[u] = "NONE" => awaited[u] /\ invite[u] = "NONE"
  <2>1. req[s].on \in Users /\ req[s].to \in O!Roles
    BY <1>2, Looked DEF O!WriteInvite
  <2>2. req[s].to # "NONE"
    BY <2>1, RolesAre
  <2>3. CASE org
    BY <1>2, <2>1, <2>2, <2>3 DEF O!WriteInvite
  <2>4. CASE ~org
    BY <1>2, <2>1, <2>4 DEF O!WriteInvite
  <2> QED BY <1>2, <2>3, <2>4 DEF O!WriteInvite
<1>3. ASSUME NEW s \in Slots, O!DeleteOrg(s)
      PROVE  UNCHANGED <<own, signed, account>> /\ ~awaited'[u]
  BY <1>3 DEF O!DeleteOrg, O!Gone
<1>4. ASSUME NEW s \in Slots, O!DeleteAccount(s)
      PROVE  /\ own'[u] => /\ own[u] /\ (signed[u] => signed'[u])
                           /\ (account[u] => account'[u])
             /\ awaited'[u] => awaited[u] /\ invite'[u] = invite[u]
  <2> DEFINE w == req[s].by
  <2>1. CASE account[w] /\ (req[s].saw => org)
    <3>1. /\ account' = [account EXCEPT ![w] = FALSE] /\ own' = [own EXCEPT ![w] = FALSE]
          /\ signed' = [signed EXCEPT ![w] = FALSE]
          /\ O!Gone \/ UNCHANGED <<invite, awaited>>
      BY <1>4, <2>1 DEF O!DeleteAccount
    <3> QED BY <3>1 DEF O!Gone
  <2>2. CASE ~(account[w] /\ (req[s].saw => org))
    BY <1>4, <2>2 DEF O!DeleteAccount
  <2> QED BY <2>1, <2>2
<1>5. ASSUME NEW s \in Slots, NEW op \in O!Procedures, NEW by \in Users, NEW on \in Users,
             NEW to \in O!Roles, O!Begin(s, op, by, on, to)
      PROVE  UNCHANGED <<own, signed, awaited, invite>> /\ (account[u] => account'[u])
  BY <1>5 DEF O!Begin
<1>6. ASSUME NEW w \in Users, O!Withdrawn(w)
      PROVE  awaited'[u] /\ invite'[u] = "NONE" => awaited[u] /\ invite[u] = "NONE"
  BY <1>6 DEF O!Withdrawn
<1>7. ASSUME \/ \E s \in Slots : \/ O!LookTarget(s) \/ O!CountOwners(s) \/ O!WriteRole(s) \/ O!LookMember(s)
                                  \/ O!LookBlockers(s) \/ O!CountMembers(s) \/ O!Crash(s)
             \/ UNCHANGED O!vars
      PROVE  UNCHANGED <<own, signed, account, awaited, invite>>
  BY <1>7 DEF O!LookTarget, O!CountOwners, O!WriteRole, O!LookMember, O!LookBlockers, O!CountMembers, O!Crash, O!vars
<1>8. ASSUME NEW w \in Users, O!Expire(w) \/ \E by \in Users : O!Revoke(by, w)
      PROVE  UNCHANGED <<own, signed, account>> /\ O!Withdrawn(w)
  BY <1>8 DEF O!Revoke, O!Expire
<1> QED BY <1>1, <1>2, <1>3, <1>4, <1>5, <1>6, <1>7, <1>8 DEF O!Next, O!Step

\* Promised is kept by every step.
LEMMA NextPromised ==
    ASSUME O!TypeOK, Promised, [O!Next]_O!vars
    PROVE  Promised'
<1>0. asked.crashes \in Nat /\ asked'.crashes \in Nat /\ asked'.crashes >= asked.crashes
  BY UsedGrows DEF O!TypeOK
<1>1. ASSUME NEW u \in Users, awaited'[u]
      PROVE  invite'[u] # "NONE"
  BY <1>1, AccountSteps DEF Promised
<1>2. ASSUME NEW u \in Users, own'[u]
      PROVE  /\ account'[u]
             /\ signed'[u] \/ asked'.crashes > 0 \/ \E t \in Slots : WillRedeem(t, u)
  <2>1. CASE /\ own[u] /\ (signed[u] => signed'[u] \/ ~account[u])
             /\ account[u] => account'[u]
    <3>1. account[u] /\ (signed[u] \/ asked.crashes > 0 \/ \E t \in Slots : Redeems(t, u))
      BY <2>1 DEF Promised
    <3>2. CASE signed[u] \/ asked.crashes > 0
      BY <1>0, <2>1, <3>1, <3>2
    <3>3. ASSUME NEW t \in Slots, Redeems(t, u)
          PROVE  signed'[u] \/ asked'.crashes > 0 \/ WillRedeem(t, u)
      BY <1>2, <3>3, RedeemsOn
    <3> QED BY <2>1, <3>1, <3>2, <3>3
  <2> QED BY <1>2, <2>1, AccountSteps
<1> QED BY <1>1, <1>2 DEF Promised, Redeems, WillRedeem

\* A user's sign-in is recorded by a sign-in of that user only.
LEMMA SignedBy ==
    ASSUME O!TypeOK, [O!Next]_O!vars, NEW u \in Users, ~signed[u], signed'[u]
    PROVE  \E s \in Slots : /\ O!LookMembership(s) \/ O!Redeem(s) \/ O!Accept(s)
                           /\ O!Completes(s) /\ req[s].op = "signIn" /\ req[s].by = u
<1> USE DEF O!TypeOK
<1>1. ASSUME NEW s \in Slots, O!DeleteAccount(s)
      PROVE  FALSE
  BY <1>1 DEF O!DeleteAccount
<1>2. PICK s \in Slots : O!LookMembership(s) \/ O!Redeem(s) \/ O!Accept(s)
  BY <1>1 DEF O!Next, O!vars, O!Begin, O!Revoke, O!Expire, O!Step, O!LookTarget, O!CountOwners, O!WriteRole, O!LookMember,
              O!WriteInvite, O!DeleteOrg, O!LookBlockers, O!CountMembers, O!Crash
<1>3. O!Completes(s) /\ req[s].op = "signIn" /\ req[s].by \in Users
  BY <1>2, SignInFields
<1> QED BY <1>2, <1>3 DEF O!Completes

\* A workspace goes with an account only if nobody else is in it, and whoever was invited
\* before a first sign-in is made a member by it, for any users, requests and failures.
THEOREM FaithKept == O!Spec => AccountsKeepFaith
<1> DEFINE Honoured(s) ==
             req[s].op = "signIn" /\ ~signed[req[s].by] /\ signed'[req[s].by]
                 => \/ ~(req[s].saw /\ awaited'[req[s].by])
                    \/ role'[req[s].by] # "NONE" \/ req[s].phase = "accept"
                    \/ accepted[req[s].by] \/ asked.crashes > 0 \/ O!Others(s) # {}
<1>1. O!Init => Promised
  BY DEF O!Init, Promised
<1>2. O!TypeOK /\ Promised /\ [O!Next]_O!vars => Promised'
  BY NextPromised
<1>3. ASSUME O!TypeOK, Promised, [O!Next]_O!vars, NEW s \in Slots
      PROVE  Honoured(s)
  <2> SUFFICES ASSUME req[s].op = "signIn", ~signed[req[s].by], signed'[req[s].by],
                      req[s].saw /\ awaited'[req[s].by], req[s].phase # "accept",
                      ~accepted[req[s].by], ~(asked.crashes > 0), O!Others(s) = {}
               PROVE  role'[req[s].by] # "NONE"
    BY Zenon
  <2> DEFINE u == req[s].by
  <2>1. u \in Users
    BY <1>3, Looked
  <2>2. PICK t \in Slots : /\ O!LookMembership(t) \/ O!Redeem(t) \/ O!Accept(t)
                          /\ O!Completes(t) /\ req[t].op = "signIn" /\ req[t].by = u
    BY <1>3, <2>1, SignedBy
  <2>3. t = s
    BY <2>2 DEF O!Others
  <2>4. account[u]
    BY <2>1, <2>2 DEF O!Completes, O!TypeOK
  <2>5. CASE O!LookMembership(s)
    <3>1. ~own[u]
      <4>1. ASSUME NEW q \in Slots, Redeems(q, u)
            PROVE  FALSE
        <5>1. q = s
          BY <4>1 DEF O!Others, Redeems
        <5> QED BY <2>5, <4>1, <5>1 DEF O!LookMembership, Redeems
      <4> QED BY <1>3, <2>1, <4>1 DEF Promised
    <3> QED BY <2>2, <2>3, <2>4, <2>5, <3>1, SignInFields, <1>3
  <2>6. CASE O!Redeem(s)
    <3>1. awaited' # [awaited EXCEPT ![u] = FALSE]
      BY <1>3, <2>1 DEF O!TypeOK
    <3>2. awaited' = awaited /\ (~O!Redeemable(u) \/ ~account[u])
      BY <1>3, <2>6, <3>1, SignInFields
    <3>3. invite[u] # "NONE"
      BY <1>3, <2>1, <3>2 DEF Promised
    <3> QED BY <2>4, <3>2, <3>3 DEF O!Redeemable, O!Pending
  <2> QED BY <2>2, <2>3, <2>5, <2>6 DEF O!Accept
<1>4. O!TypeOK /\ Promised /\ [O!Next]_O!vars => \A s \in Slots : Honoured(s)
  BY <1>3
<1>5. OrgInv => O!TypeOK
  BY DEF OrgInv
<1>6. O!Spec => O!InviteRedeemed
  <2>1. O!Spec => []Promised
    BY <1>1, <1>2, <1>5, Invariance, PTL DEF O!Spec
  <2> QED BY <1>4, <1>5, <2>1, Invariance, PTL DEF O!Spec, O!InviteRedeemed
<1> QED BY <1>6, OrgStays DEF AccountsKeepFaith, O!AccountsKeepFaith

-----------------------------------------------------------------------------
(* The budget: the invariant                                               *)

Months == 1 .. MaxMonths
Calls == [at : {"idle", "calling", "answered"}, n : Nat]

Types ==
    /\ month \in Months
    /\ recorded \in [Months -> Nat]
    /\ call \in [Slot -> Calls]
    /\ peak \in Nat

\* What is recorded and what the calls at work may still cost stay within what so many
\* calls may cost that began with a token left.  Months to come have no rows.
IInv ==
    /\ Types
    /\ \A s \in Slot : call[s].at = "answered" => call[s].n <= Most
    /\ Cardinality(Busy) <= peak
    /\ \A m \in Months : m > month => recorded[m] = 0
    /\ Budget > 0 => recorded[month] + Cardinality(Busy) * Most < Budget + peak * Most
    /\ OverspendBounded

-----------------------------------------------------------------------------

\* More calls may cost more.
LEMMA Costs ==
    ASSUME Most \in Nat, NEW i \in Nat, NEW k \in Nat, i <= k
    PROVE  i * Most \in Nat /\ k * Most \in Nat /\ i * Most <= k * Most
  <1>1. k - i \in Nat /\ (k - i) * Most \in Nat
    OBVIOUS
  <1>2. k * Most = i * Most + (k - i) * Most
    OBVIOUS
  <1> QED
    BY <1>1, <1>2

\* There are finitely many calls at work.
LEMMA BusyFinite ==
    ASSUME IsFiniteSet(Slot)
    PROVE  IsFiniteSet(Busy) /\ Cardinality(Busy) \in Nat
  BY FS_Subset, FS_CardinalityType DEF Busy

\* A call that ends, and adds at most n tokens to the month's rows, is one less at work.
LEMMA EndIInv ==
    ASSUME IsFiniteSet(Slot), Budget \in Nat, Most \in Nat, MaxMonths \in Nat, IInv,
           NEW s \in Slot, call[s] # Idle, NEW n \in Nat, n <= Most,
           call' = [call EXCEPT ![s] = Idle],
           recorded' = [recorded EXCEPT ![month] = @ + n], UNCHANGED <<month, peak>>
    PROVE  IInv'
  <1> DEFINE before == Cardinality(Busy)
  <1>1. Types'
    BY DEF IInv, Types, Calls, Idle
  <1>2. \A k \in Slot : call'[k] = IF k = s THEN Idle ELSE call[k]
    BY DEF IInv, Types
  <1>3. Busy' = Busy \ {s} /\ s \in Busy
    BY <1>2 DEF Busy
  <1>4. before \in Nat /\ Cardinality(Busy') = before - 1
    BY <1>3, BusyFinite, FS_RemoveElement
  <1>5. before - 1 \in Nat
    BY <1>3, <1>4, BusyFinite, FS_EmptySet
  <1>6. before * Most = (before - 1) * Most + Most
    BY <1>4
  <1>7. (before - 1) * Most \in Nat /\ peak * Most \in Nat
    BY <1>5, Costs DEF IInv, Types
  <1>8. \A m \in Months : recorded'[m] = IF m = month THEN recorded[m] + n ELSE recorded[m]
    BY DEF IInv, Types
  <1>9. recorded[month] \in Nat /\ month \in Months
    BY DEF IInv, Types
  <1>10. Budget > 0 => recorded'[month] + (before - 1) * Most < Budget + peak * Most
    BY <1>6, <1>7, <1>8, <1>9 DEF IInv
  <1>11. OverspendBounded'
    <2> SUFFICES ASSUME Budget > 0, NEW m \in Months
                 PROVE  recorded'[m] < Budget + peak * Most
      BY <1>1 DEF OverspendBounded, Types
    <2>1. CASE m = month
      BY <1>7, <1>8, <1>9, <1>10, <2>1
    <2>2. CASE m # month
      BY <1>8, <2>2 DEF IInv, OverspendBounded, Types
    <2> QED
      BY <2>1, <2>2
  <1>12. \A k \in Slot : call'[k].at = "answered" => call'[k].n <= Most
    BY <1>2 DEF IInv, Idle
  <1>13. \A m \in Months : m > month => recorded'[m] = 0
    BY <1>8, <1>9 DEF IInv, Months
  <1> QED
    BY <1>1, <1>4, <1>10, <1>11, <1>12, <1>13 DEF IInv, Types

\* No call is at work at first and no row is written.
LEMMA InitIInv ==
    ASSUME Budget \in Nat, Most \in Nat, MaxMonths \in Nat \ {0}, Init
    PROVE  IInv
  <1>1. Busy = {}
    BY DEF Init, Busy
  <1>2. Cardinality(Busy) = 0
    BY <1>1, FS_EmptySet
  <1>3. 0 * Most = 0
    OBVIOUS
  <1>4. Types
    BY DEF Init, Types, Months, Calls, Idle
  <1> QED
    BY <1>2, <1>3, <1>4 DEF Init, IInv, Months, Idle, OverspendBounded

\* A call begins only while a token is left.
LEMMA BeginIInv ==
    ASSUME IsFiniteSet(Slot), Budget \in Nat, Most \in Nat, MaxMonths \in Nat, IInv,
           NEW s \in Slot, Begin(s)
    PROVE  IInv'
  <1> DEFINE before == Cardinality(Busy)
  <1>1. call' = [call EXCEPT ![s] = [at |-> "calling", n |-> 0]] /\ call[s] = Idle
    BY DEF Begin
  <1>2. UNCHANGED <<month, recorded>>
    BY DEF Begin
  <1>3. \A k \in Slot : call'[k] = IF k = s THEN [at |-> "calling", n |-> 0] ELSE call[k]
    BY <1>1 DEF IInv, Types
  <1>4. Busy' = Busy \union {s} /\ s \notin Busy
    BY <1>1, <1>3 DEF Busy, Idle
  <1>5. before \in Nat /\ Cardinality(Busy') = before + 1
    BY <1>4, BusyFinite, FS_AddElement
  <1>6. peak \in Nat /\ peak' = IF before + 1 > peak THEN before + 1 ELSE peak
    BY DEF Begin, IInv, Types
  <1>7. peak' \in Nat /\ peak <= peak' /\ before + 1 <= peak'
    BY <1>5, <1>6
  <1>8. Types'
    BY <1>1, <1>2, <1>7 DEF IInv, Types, Calls
  <1>9. /\ peak * Most \in Nat /\ peak' * Most \in Nat /\ (before + 1) * Most \in Nat
        /\ peak * Most <= peak' * Most /\ (before + 1) * Most <= peak' * Most
    BY <1>5, <1>6, <1>7, Costs
  <1>10. Budget > 0 => recorded[month] + (before + 1) * Most < Budget + peak' * Most
    <2>1. Budget > 0 => recorded[month] < Budget
      BY DEF Begin, BudgetLeft
    <2>2. recorded[month] \in Nat
      BY DEF IInv, Types
    <2> QED
      BY <1>9, <2>1, <2>2
  <1>11. OverspendBounded'
    <2> SUFFICES ASSUME Budget > 0, NEW m \in Months
                 PROVE  recorded[m] < Budget + peak' * Most
      BY <1>2 DEF OverspendBounded, IInv, Types
    <2>1. recorded[m] < Budget + peak * Most /\ recorded[m] \in Nat
      BY DEF OverspendBounded, IInv, Types
    <2> QED
      BY <1>9, <2>1
  <1>12. \A k \in Slot : call'[k].at = "answered" => call'[k].n <= Most
    BY <1>3 DEF IInv
  <1> QED
    BY <1>2, <1>5, <1>7, <1>8, <1>10, <1>11, <1>12 DEF IInv, Types

\* A call that stays at work changes no sum.
LEMMA StayIInv ==
    ASSUME IInv, NEW s \in Slot, call[s].at = "calling", NEW new \in Calls, new # Idle,
           new.at = "answered" => new.n <= Most,
           call' = [call EXCEPT ![s] = new], UNCHANGED <<month, recorded, peak>>
    PROVE  IInv'
  <1>1. \A k \in Slot : call'[k] = IF k = s THEN new ELSE call[k]
    BY DEF IInv, Types
  <1>2. Busy' = Busy
    BY <1>1 DEF Busy, Idle
  <1>3. Types'
    BY DEF IInv, Types
  <1> QED
    BY <1>1, <1>2, <1>3 DEF IInv, OverspendBounded

\* The steps of a call once it has begun.
LEMMA CallIInv ==
    ASSUME IsFiniteSet(Slot), Budget \in Nat, Most \in Nat, MaxMonths \in Nat, Retries \in Nat,
           IInv, NEW s \in Slot,
           (\E n \in 0 .. Most : Answer(s, n)) \/ Fail(s) \/ Record(s) \/ Useless(s)
    PROVE  IInv'
  <1>1. call[s] \in Calls /\ recorded \in [Months -> Nat] /\ month \in Months
    BY DEF IInv, Types
  <1>2. recorded = [recorded EXCEPT ![month] = @ + 0]
    BY <1>1
  <1>3. CASE \E n \in 0 .. Most : Answer(s, n)
    <2>1. PICK n \in 0 .. Most : Answer(s, n)
      BY <1>3
    <2> DEFINE new == [at |-> "answered", n |-> n]
    <2>2. new \in Calls /\ new # Idle /\ new.n <= Most
      BY DEF Calls, Idle
    <2>3. call[s].at = "calling" /\ call' = [call EXCEPT ![s] = new]
      BY <2>1 DEF Answer
    <2>4. UNCHANGED <<month, recorded, peak>>
      BY <2>1 DEF Answer
    <2> QED
      BY <2>2, <2>3, <2>4, StayIInv
  <1>4. CASE Fail(s)
    <2>1. call[s].at = "calling" /\ call[s] # Idle /\ UNCHANGED <<month, recorded, peak>>
      BY <1>4 DEF Fail, Idle
    <2>2. CASE call' = [call EXCEPT ![s].n = @ + 1]
      <3> DEFINE new == [call[s] EXCEPT !.n = @ + 1]
      <3>1. new \in Calls /\ new.at = "calling"
        BY <1>1, <2>1 DEF Calls
      <3>2. new # Idle
        BY <3>1 DEF Idle
      <3>3. call' = [call EXCEPT ![s] = new]
        BY <2>2
      <3> QED
        BY <2>1, <3>1, <3>2, <3>3, StayIInv
    <2>3. CASE call' = [call EXCEPT ![s] = Idle]
      <3>1. recorded' = [recorded EXCEPT ![month] = @ + 0] /\ 0 \in Nat /\ 0 <= Most
        BY <1>2, <2>1
      <3> QED
        BY <2>1, <2>3, <3>1, EndIInv
    <2> QED
      BY <1>4, <2>2, <2>3 DEF Fail
  <1>5. CASE Record(s)
    <2>1. call[s] # Idle /\ call[s].n \in Nat /\ call[s].n <= Most
      BY <1>1, <1>5 DEF Record, Idle, Calls, IInv
    <2>2. /\ call' = [call EXCEPT ![s] = Idle]
          /\ recorded' = [recorded EXCEPT ![month] = @ + call[s].n]
          /\ UNCHANGED <<month, peak>>
      BY <1>5 DEF Record
    <2> QED
      BY <2>1, <2>2, EndIInv
  <1>6. CASE Useless(s)
    <2>1. call[s] # Idle /\ call' = [call EXCEPT ![s] = Idle]
      BY <1>6 DEF Useless, Idle
    <2>2. UNCHANGED <<month, recorded, peak>>
      BY <1>6 DEF Useless
    <2>3. recorded' = [recorded EXCEPT ![month] = @ + 0] /\ 0 \in Nat /\ 0 <= Most
      BY <1>2, <2>2
    <2> QED
      BY <2>1, <2>2, <2>3, EndIInv
  <1> QED
    BY <1>3, <1>4, <1>5, <1>6

\* A month begins without rows, while calls of the last one are at work.
LEMMA NextMonthIInv ==
    ASSUME IsFiniteSet(Slot), Budget \in Nat, Most \in Nat, MaxMonths \in Nat, IInv, NextMonth
    PROVE  IInv'
  <1>1. month' = month + 1 /\ month \in Months /\ month' \in Months /\ peak \in Nat
    BY DEF NextMonth, IInv, Types, Months
  <1>2. UNCHANGED <<recorded, call, peak>>
    BY DEF NextMonth
  <1>3. recorded[month'] = 0 /\ \A m \in Months : m > month' => recorded[m] = 0
    BY <1>1 DEF IInv, Months
  <1>4. Cardinality(Busy) \in Nat /\ Cardinality(Busy) <= peak
    BY BusyFinite DEF IInv
  <1>5. Cardinality(Busy) * Most \in Nat /\ Cardinality(Busy) * Most <= peak * Most
    BY <1>1, <1>4, Costs
  <1>6. peak * Most \in Nat
    BY <1>1, <1>4, Costs
  <1>7. Budget > 0 => recorded[month'] + Cardinality(Busy) * Most < Budget + peak * Most
    BY <1>3, <1>5, <1>6
  <1>8. Types' /\ Busy' = Busy
    BY <1>1, <1>2 DEF IInv, Types, Busy
  <1> QED
    BY <1>2, <1>3, <1>7, <1>8 DEF IInv, OverspendBounded

\* IInv is inductive.
LEMMA NextIInv ==
    ASSUME IsFiniteSet(Slot), Budget \in Nat, Most \in Nat, MaxMonths \in Nat, Retries \in Nat,
           IInv, [Next]_vars
    PROVE  IInv'
  <1>1. ASSUME NEW s \in Slot, Begin(s) PROVE IInv'
    BY <1>1, BeginIInv
  <1>2. ASSUME NEW s \in Slot,
               (\E n \in 0 .. Most : Answer(s, n)) \/ Fail(s) \/ Record(s) \/ Useless(s)
        PROVE  IInv'
    BY <1>2, CallIInv
  <1>3. CASE NextMonth
    BY <1>3, NextMonthIInv
  <1>4. CASE UNCHANGED vars
    BY <1>4 DEF IInv, Types, Busy, OverspendBounded, vars
  <1> QED
    BY <1>1, <1>2, <1>3, <1>4 DEF Next

\* assertBudget: a month's rows are over the budget by less than the calls at one time may cost.
THEOREM Overspend == Spec => []OverspendBounded
  <1>1. Init => IInv
    BY InitIInv, BudgetAssumption
  <1>2. IInv /\ [Next]_vars => IInv'
    BY NextIInv, BudgetAssumption
  <1>3. IInv => OverspendBounded
    BY DEF IInv
  <1> QED
    BY <1>1, <1>2, <1>3, PTL DEF Spec

-----------------------------------------------------------------------------
(* A niche of the market radar.  Builds may overlap, and each makes        *)
(* progress with reviews the others may classify as well; what is analyzed *)
(* stays so.  A build that is alone finds unanalyzed what it has loaded,   *)
(* so whatever it pays for is new or has failed before.                    *)

\* What a build that is at work knows of the niche.
Phases == {"next", "classify", "wordless", "call", "stamp", "replace", "describe"}
InApp == {"classify", "wordless", "call", "stamp"}

Work ==
    [phase : Phases, apps : SUBSET App, todo : SUBSET App, app : App \union {Unbuilt},
     pending : SUBSET Review, batch : SUBSET Review, took : SUBSET Review, left : SUBSET Review,
     read : Nat, failed : Nat, unclassified : Nat]

NicheTypes ==
    /\ stored \subseteq Review /\ analyzed \subseteq Review
    /\ build \in [Builds -> Work \union {N!Idle}]
    /\ paid \in [Review -> Nat]
    /\ built \in [builds : Nat, troubles : Nat]
    /\ crowded \in BOOLEAN

\* The reviews of a build that are still to be classified.
Open(w) ==
    IF w.phase = "classify" THEN N!About({w.app})
    ELSE IF w.phase \in {"wordless", "call", "stamp"} THEN w.pending ELSE {}

\* An app in hand is still to be done, the apps done are counted, and what was stored of
\* them is analyzed, still open, or left to another build.
Kept(w, rows, done) ==
    /\ w.phase \in {"next", "classify"} => w.pending = {}
    /\ w.phase \in {"call", "stamp"} => w.pending \intersect Wordless = {}
    /\ w.phase = "stamp" => w.batch \subseteq w.pending
    /\ w.phase \in InApp => w.app \in w.todo
    /\ w.phase \in {"replace", "describe"} => w.todo = {}
    /\ w.took \subseteq rows
    /\ w.unclassified = 0 => w.took \ w.left \subseteq done \union Open(w)
    /\ w.read + w.failed + Cardinality(w.todo)
         = Cardinality(w.apps) + (IF w.phase \in InApp THEN 1 ELSE 0)

\* A build that is alone finds its reviews as it has read them, if nothing fails the themes too.
Alone(w, done, shown, troubles) ==
    /\ w.phase \in {"wordless", "call", "stamp"} => w.pending \intersect done = {}
    /\ troubles = 0 /\ w.phase = "replace" => w.pending = done \intersect N!About(w.apps)
    /\ troubles = 0 /\ w.phase = "describe" => shown = N!Aggregate(done \intersect N!About(w.apps))

\* The reviews that are paid for and not yet stamped.
Stamping(w) == IF w.phase = "stamp" THEN w.batch ELSE {}

Charged ==
    \A r \in Review :
        paid[r] <= (IF r \in analyzed \/ \E b \in Builds : r \in Stamping(build[b]) THEN 1 ELSE 0)
                       + built.troubles

NicheInv ==
    /\ NicheTypes
    /\ \A b \in Builds : build[b] # N!Idle =>
        /\ Kept(build[b], stored, analyzed)
        /\ crowded = FALSE => /\ Alone(build[b], analyzed, themes, built.troubles)
                              /\ \A c \in Builds \ {b} : build[c] = N!Idle
    /\ crowded = FALSE => Charged
    /\ \A r \in Wordless \intersect Review : paid[r] = 0
    /\ N!ShortfallShown /\ N!ThemesCurrent

\* The count of the module is the library's.
LEMMA SameCount == ASSUME NEW S PROVE N!Cardinality(S) = Cardinality(S)
  BY DEF N!Cardinality, Cardinality

\* A list of the first reviews is one of reviews.
LEMMA FirstOf ==
    ASSUME NEW n, NEW reviews, NEW c \in N!First(n, reviews)
    PROVE  c \subseteq reviews
  BY DEF N!First

\* A build that is not idle is at work.
LEMMA AtWork ==
    ASSUME NicheTypes, NEW b \in Builds, build[b] # N!Idle
    PROVE  build[b] \in Work
  BY DEF NicheTypes

\* A build at work is told from an idle one by its phase.
LEMMA IdlePhase == ASSUME NEW w \in Work PROVE w # N!Idle /\ w.phase # "idle" /\ N!Idle.phase = "idle"
  BY DEF Work, Phases, N!Idle

\* What is kept of a build stays so when more is stored and analyzed.
LEMMA KeptStays ==
    ASSUME NEW w, NEW rows, NEW rows2, NEW done, NEW done2, rows \subseteq rows2, done \subseteq done2,
           Kept(w, rows, done)
    PROVE  Kept(w, rows2, done2)
  BY DEF Kept

\* Nobody else stamps for a build that is alone.
LEMMA ChargedAlone ==
    ASSUME NicheInv, crowded = FALSE, NEW b \in Builds, build[b] # N!Idle, NEW r \in Review
    PROVE  paid[r] <= (IF r \in analyzed \/ r \in Stamping(build[b]) THEN 1 ELSE 0) + built.troubles
  <1>1. \A c \in Builds \ {b} : build[c] = N!Idle
    BY DEF NicheInv
  <1>2. \A c \in Builds \ {b} : Stamping(build[c]) = {}
    BY <1>1 DEF Stamping, N!Idle
  <1>3. (\E c \in Builds : r \in Stamping(build[c])) <=> r \in Stamping(build[b])
    BY <1>2
  <1> QED
    BY <1>3 DEF NicheInv, Charged

\* The sentence stays true while more is analyzed.
LEMMA ShortfallStays ==
    ASSUME N!ShortfallShown, method' = method, analyzed \subseteq analyzed'
    PROVE  N!ShortfallShown'
  BY DEF N!ShortfallShown

\* A step of a build that goes on.
LEMMA WorkStep ==
    ASSUME NicheInv, NEW b \in Builds, build[b] # N!Idle,
           NEW new \in Work, build' = [build EXCEPT ![b] = new],
           stored \subseteq stored', stored' \subseteq Review,
           analyzed \subseteq analyzed', analyzed' \subseteq Review,
           paid' \in [Review -> Nat], built' \in [builds : Nat, troubles : Nat],
           UNCHANGED <<method, crowded>>,
           Kept(new, stored', analyzed'),
           crowded = FALSE =>
             /\ Alone(new, analyzed', themes', built'.troubles)
             /\ \A r \in Review :
                  paid'[r] <= (IF r \in analyzed' \/ r \in Stamping(new) THEN 1 ELSE 0) + built'.troubles,
           \A r \in Wordless \intersect Review : paid'[r] = 0
    PROVE  NicheInv'
  <1>1. \A c \in Builds : build'[c] = IF c = b THEN new ELSE build[c]
    BY DEF NicheInv, NicheTypes
  <1>2. NicheTypes'
    BY DEF NicheInv, NicheTypes
  <1>3. ASSUME NEW c \in Builds, build'[c] # N!Idle
        PROVE  /\ Kept(build'[c], stored', analyzed')
               /\ crowded' = FALSE => /\ Alone(build'[c], analyzed', themes', built'.troubles)
                                      /\ \A d \in Builds \ {c} : build'[d] = N!Idle
    <2>1. CASE c = b
      BY <1>1, <2>1 DEF NicheInv
    <2>2. CASE c # b
      <3>1. build'[c] = build[c] /\ build[c] # N!Idle
        BY <1>1, <1>3, <2>2
      <3>2. Kept(build[c], stored, analyzed) /\ crowded # FALSE
        BY <2>2, <3>1 DEF NicheInv
      <3> QED
        BY <3>1, <3>2, KeptStays
    <2> QED
      BY <2>1, <2>2
  <1>4. crowded' = FALSE => Charged'
    <2> SUFFICES ASSUME crowded = FALSE, NEW r \in Review
                 PROVE  paid'[r] <= (IF r \in analyzed' \/ \E c \in Builds : r \in Stamping(build'[c])
                                     THEN 1 ELSE 0) + built'.troubles
      BY DEF Charged
    <2>1. r \in Stamping(new) => \E c \in Builds : r \in Stamping(build'[c])
      BY <1>1
    <2>2. paid'[r] \in Nat /\ built'.troubles \in Nat
      OBVIOUS
    <2>3. paid'[r] <= (IF r \in analyzed' \/ r \in Stamping(new) THEN 1 ELSE 0) + built'.troubles
      OBVIOUS
    <2> QED
      BY <2>1, <2>2, <2>3
  <1>5. N!ShortfallShown'
    BY ShortfallStays DEF NicheInv
  <1>6. N!ThemesCurrent'
    BY <1>1, IdlePhase DEF N!ThemesCurrent, N!In
  <1> QED
    BY <1>2, <1>3, <1>4, <1>5, <1>6 DEF NicheInv

\* A step that neither pays nor stamps.
LEMMA PlainStep ==
    ASSUME NicheInv, NEW b \in Builds, build[b] # N!Idle,
           NEW new \in Work, build' = [build EXCEPT ![b] = new],
           stored \subseteq stored', stored' \subseteq Review,
           UNCHANGED <<analyzed, paid, method, crowded>>,
           built' \in [builds : Nat, troubles : Nat], built'.troubles >= built.troubles,
           build[b].phase # "stamp",
           Kept(new, stored', analyzed),
           crowded = FALSE => Alone(new, analyzed, themes', built'.troubles)
    PROVE  NicheInv'
  <1>1. Stamping(build[b]) = {}
    BY DEF Stamping
  <1>2. ASSUME crowded = FALSE, NEW r \in Review
        PROVE  paid[r] <= (IF r \in analyzed \/ r \in Stamping(new) THEN 1 ELSE 0) + built'.troubles
    <2>1. paid[r] <= (IF r \in analyzed THEN 1 ELSE 0) + built.troubles
      BY <1>1, <1>2, ChargedAlone
    <2>2. paid[r] \in Nat /\ built.troubles \in Nat /\ built'.troubles \in Nat
      BY DEF NicheInv, NicheTypes
    <2> QED
      BY <2>1, <2>2
  <1>3. paid' \in [Review -> Nat] /\ analyzed' \subseteq Review
        /\ \A r \in Wordless \intersect Review : paid'[r] = 0
    BY DEF NicheInv, NicheTypes
  <1> QED
    BY <1>2, <1>3, WorkStep

\* No build is at work at first.
LEMMA NicheInit ==
    ASSUME N!Init
    PROVE  NicheInv
  <1>1. \A b \in Builds : build[b] = N!Idle
    BY DEF N!Init
  <1>2. NicheTypes
    BY DEF N!Init, NicheTypes
  <1>3. Charged
    BY <1>2 DEF N!Init, Charged, NicheTypes
  <1>4. N!ShortfallShown /\ N!ThemesCurrent
    BY DEF N!Init, N!ShortfallShown, N!ThemesCurrent
  <1> QED
    BY <1>1, <1>2, <1>3, <1>4 DEF NicheInv, N!Init

\* With the app in hand done there is one less to do.
LEMMA OneLess ==
    ASSUME IsFiniteSet(App), NEW w \in Work, NEW a \in w.todo
    PROVE  /\ w.todo \ {a} \in SUBSET App
           /\ Cardinality(w.todo) \in Nat /\ Cardinality(w.todo \ {a}) \in Nat
           /\ Cardinality(w.todo) = Cardinality(w.todo \ {a}) + 1
  <1>1. w.todo \subseteq App
    BY DEF Work
  <1>2. IsFiniteSet(w.todo)
    BY <1>1, FS_Subset
  <1>3. Cardinality(w.todo) \in Nat /\ Cardinality(w.todo \ {a}) = Cardinality(w.todo) - 1
    BY <1>2, FS_CardinalityType, FS_RemoveElement
  <1>4. IsFiniteSet(w.todo \ {a})
    BY <1>2, FS_Subset
  <1>5. Cardinality(w.todo \ {a}) \in Nat
    BY <1>4, FS_CardinalityType
  <1> QED
    BY <1>1, <1>3, <1>5

\* The next app.
LEMMA NextKept ==
    ASSUME IsFiniteSet(App), NEW w \in Work, w.phase \in InApp, w.app \in w.todo,
           NEW rows, NEW done, NEW shown, NEW troubles,
           w.took \subseteq rows, w.unclassified = 0 => w.took \ w.left \subseteq done,
           w.read + w.failed + Cardinality(w.todo) = Cardinality(w.apps) + 1
    PROVE  /\ N!Next1(w) \in Work
           /\ Kept(N!Next1(w), rows, done)
           /\ Alone(N!Next1(w), done, shown, troubles)
           /\ Stamping(N!Next1(w)) = {}
  <1> DEFINE new == N!Next1(w)
  <1>1. new \in Work
    BY DEF N!Next1, Work, Phases
  <1>2. /\ new.phase = "next" /\ new.pending = {} /\ new.todo = w.todo \ {w.app}
        /\ new.took = w.took /\ new.left = w.left /\ new.unclassified = w.unclassified
        /\ new.read = w.read /\ new.failed = w.failed /\ new.apps = w.apps
    BY DEF N!Next1, Work
  <1>3. w.read \in Nat /\ w.failed \in Nat
    BY DEF Work
  <1>4. Cardinality(w.apps) \in Nat
    BY FS_Subset, FS_CardinalityType DEF Work
  <1>5. new.read + new.failed + Cardinality(new.todo) = Cardinality(new.apps)
    BY <1>2, <1>3, <1>4, OneLess
  <1> HIDE DEF new
  <1>6. Kept(new, rows, done)
    BY <1>2, <1>4, <1>5 DEF Kept, Open, InApp
  <1>7. Alone(new, done, shown, troubles) /\ Stamping(new) = {}
    BY <1>2 DEF Alone, Stamping
  <1> QED
    BY <1>1, <1>6, <1>7 DEF new

\* The next batch, or the next app.
LEMMA RestKept ==
    ASSUME IsFiniteSet(App), NEW w \in Work, w.phase \in InApp, w.app \in w.todo,
           NEW rows, NEW done, NEW shown, NEW troubles,
           w.pending \intersect Wordless = {},
           w.took \subseteq rows, w.unclassified = 0 => w.took \ w.left \subseteq done \union w.pending,
           w.read + w.failed + Cardinality(w.todo) = Cardinality(w.apps) + 1
    PROVE  /\ N!Rest(w) \in Work
           /\ Kept(N!Rest(w), rows, done)
           /\ w.pending \intersect done = {} => Alone(N!Rest(w), done, shown, troubles)
           /\ Stamping(N!Rest(w)) = {}
  <1>1. CASE w.pending = {}
    <2>1. w.unclassified = 0 => w.took \ w.left \subseteq done
      BY <1>1
    <2>2. N!Rest(w) = N!Next1(w)
      BY <1>1 DEF N!Rest
    <2>3. /\ N!Next1(w) \in Work
          /\ Kept(N!Next1(w), rows, done)
          /\ Alone(N!Next1(w), done, shown, troubles)
          /\ Stamping(N!Next1(w)) = {}
      BY <2>1, NextKept
    <2> QED
      BY <2>2, <2>3
  <1>2. CASE w.pending # {}
    <2> DEFINE new == [w EXCEPT !.phase = "call", !.batch = {}]
    <2>1. N!Rest(w) = new
      BY <1>2 DEF N!Rest
    <2>2. new \in Work
      BY DEF Work, Phases
    <2>3. /\ new.phase = "call" /\ new.pending = w.pending /\ new.todo = w.todo /\ new.app = w.app
          /\ new.took = w.took /\ new.left = w.left /\ new.unclassified = w.unclassified
          /\ new.read = w.read /\ new.failed = w.failed /\ new.apps = w.apps
      BY DEF Work
    <2> HIDE DEF new
    <2>4. Kept(new, rows, done)
      BY <2>3 DEF Kept, Open, InApp
    <2>5. w.pending \intersect done = {} => Alone(new, done, shown, troubles)
      BY <2>3 DEF Alone
    <2>6. Stamping(new) = {}
      BY <2>3 DEF Stamping
    <2> QED
      BY <2>1, <2>2, <2>4, <2>5, <2>6
  <1> QED
    BY <1>1, <1>2

\* What the invariant says of one build at work.
LEMMA Working ==
    ASSUME NicheInv, NEW b \in Builds, build[b] # N!Idle
    PROVE  /\ build[b] \in Work /\ Kept(build[b], stored, analyzed)
           /\ crowded = FALSE => Alone(build[b], analyzed, themes, built.troubles)
           /\ stored \subseteq Review /\ analyzed \subseteq Review
           /\ paid \in [Review -> Nat] /\ built \in [builds : Nat, troubles : Nat]
           /\ \A r \in Wordless \intersect Review : paid[r] = 0
  BY DEF NicheInv, NicheTypes

\* A trouble is counted.
LEMMA SpentTypes ==
    ASSUME built \in [builds : Nat, troubles : Nat], N!Spend
    PROVE  built' \in [builds : Nat, troubles : Nat] /\ built'.troubles = built.troubles + 1
  BY DEF N!Spend

\* A build with an app in hand is not idle.
LEMMA Busied ==
    ASSUME NEW b \in Builds, NEW p, N!In(b, p), p # "idle"
    PROVE  build[b] # N!Idle /\ build[b].phase = p
  BY DEF N!In, N!Idle

\* A build that begins alone pays for nothing yet.
LEMMA NicheBegin ==
    ASSUME IsFiniteSet(App), NicheInv, NEW b \in Builds, NEW apps \in SUBSET App, N!Begin(b, apps)
    PROVE  NicheInv'
  <1> DEFINE new == [phase |-> "next", apps |-> apps, todo |-> apps, app |-> Unbuilt, pending |-> {},
                     batch |-> {}, took |-> {}, left |-> {}, read |-> 0, failed |-> 0, unclassified |-> 0]
  <1>1. new \in Work
    BY DEF Work, Phases
  <1>2. new.phase = "next" /\ new # N!Idle
    BY DEF N!Idle
  <1>3. Cardinality(apps) \in Nat
    BY FS_Subset, FS_CardinalityType
  <1>4. Kept(new, stored, analyzed)
    BY <1>3 DEF Kept, InApp
  <1>5. Alone(new, analyzed, themes, built'.troubles)
    BY DEF Alone
  <1>6. Stamping(new) = {}
    BY DEF Stamping
  <1>7. build' = [build EXCEPT ![b] = new]
    BY DEF N!Begin
  <1>8. UNCHANGED <<published, stored, analyzed, themes, method, paid>>
    BY DEF N!Begin
  <1>9. built' = [built EXCEPT !.builds = @ + 1]
    BY DEF N!Begin
  <1>10. crowded' = (crowded \/ \E c \in Builds : ~N!In(c, "idle"))
    BY DEF N!Begin
  <1>11. build[b].phase = "idle"
    BY DEF N!Begin, N!In
  <1> HIDE DEF new
  <1>12. build \in [Builds -> Work \union {N!Idle}] /\ crowded \in BOOLEAN
        /\ built \in [builds : Nat, troubles : Nat]
    BY DEF NicheInv, NicheTypes
  <1>13. \A c \in Builds : build'[c] = IF c = b THEN new ELSE build[c]
    BY <1>7, <1>12
  <1>14. crowded' \in BOOLEAN
    BY <1>10
  <1>15. built' \in [builds : Nat, troubles : Nat] /\ built'.troubles = built.troubles
    BY <1>9, <1>12
  <1>16. NicheTypes'
    BY <1>1, <1>8, <1>13, <1>14, <1>15, <1>7 DEF NicheInv, NicheTypes
  <1>17. ASSUME crowded' = FALSE
         PROVE  crowded = FALSE /\ \A c \in Builds : build[c] = N!Idle
    <2>1. crowded = FALSE /\ \A c \in Builds : build[c].phase = "idle"
      BY <1>10, <1>12, <1>17 DEF N!In
    <2> QED
      BY <2>1, <1>12, IdlePhase
  <1>18. ASSUME NEW c \in Builds, build'[c] # N!Idle
         PROVE  /\ Kept(build'[c], stored', analyzed')
                /\ crowded' = FALSE => /\ Alone(build'[c], analyzed', themes', built'.troubles)
                                       /\ \A d \in Builds \ {c} : build'[d] = N!Idle
    <2>1. CASE c = b
      BY <1>4, <1>5, <1>8, <1>13, <1>17, <2>1
    <2>2. CASE c # b
      BY <1>8, <1>13, <1>17, <1>18, <2>2 DEF NicheInv
    <2> QED
      BY <2>1, <2>2
  <1>19. crowded' = FALSE => Charged'
    <2> SUFFICES ASSUME crowded' = FALSE PROVE Charged'
      OBVIOUS
    <2>1. Charged /\ \A c \in Builds : build[c] = N!Idle
      BY <1>17 DEF NicheInv
    <2>2. \A c \in Builds : Stamping(build'[c]) = {} /\ Stamping(build[c]) = {}
      BY <1>6, <1>13, <2>1 DEF Stamping, N!Idle
    <2> QED
      BY <1>8, <1>15, <2>1, <2>2 DEF Charged
  <1>20. N!ShortfallShown'
    BY <1>8, ShortfallStays DEF NicheInv
  <1>21. ~N!In(b, "idle")'
    BY <1>2, <1>13 DEF N!In
  <1>22. N!ThemesCurrent'
    BY <1>21 DEF N!ThemesCurrent
  <1>23. \A r \in Wordless \intersect Review : paid'[r] = 0
    BY <1>8 DEF NicheInv
  <1> QED
    BY <1>16, <1>18, <1>19, <1>20, <1>22, <1>23 DEF NicheInv

\* What is stored of an app is its own to classify.
LEMMA NicheIngest ==
    ASSUME IsFiniteSet(App), NicheInv, NEW b \in Builds, NEW a \in App, N!Ingest(b, a)
    PROVE  NicheInv'
  <1> DEFINE w == build[b]
  <1>1. N!In(b, "next") /\ a \in w.todo
    BY DEF N!Ingest
  <1>2. w # N!Idle /\ w.phase = "next"
    BY <1>1, Busied
  <1>3. stored \subseteq stored' /\ stored' \subseteq Review
    <2>1. PICK reviews \in N!First(Shown, published \intersect N!About({a})) : stored' = stored \union reviews
      BY DEF N!Ingest
    <2>2. reviews \subseteq Review
      BY FirstOf DEF N!About
    <2> QED
      BY <1>2, <2>1, <2>2, Working
  <1>4. w \in Work /\ Kept(w, stored, analyzed)
    BY <1>2, Working
  <1> DEFINE new == [w EXCEPT !.phase = "classify", !.app = a, !.read = @ + 1,
                              !.took = @ \union (stored' \intersect N!About({a}))]
  <1>5. build' = [build EXCEPT ![b] = new]
    BY DEF N!Ingest
  <1>6. UNCHANGED <<published, analyzed, themes, method, paid, crowded, built>>
    BY DEF N!Ingest
  <1>7. new \in Work
    <2> DEFINE took == w.took \union (stored' \intersect N!About({a}))
    <2>1. took \in SUBSET Review /\ w.read + 1 \in Nat
      BY <1>3, <1>4 DEF Work
    <2>2. new = [w EXCEPT !.phase = "classify", !.app = a, !.read = w.read + 1, !.took = took]
      BY <1>4 DEF Work
    <2> HIDE DEF took
    <2> QED
      BY <1>4, <2>1, <2>2 DEF Work, Phases
  <1>8. /\ new.phase = "classify" /\ new.pending = w.pending /\ new.todo = w.todo /\ new.app = a
        /\ new.took = w.took \union (stored' \intersect N!About({a}))
        /\ new.left = w.left /\ new.unclassified = w.unclassified
        /\ new.read = w.read + 1 /\ new.failed = w.failed /\ new.apps = w.apps
    BY <1>4 DEF Work
  <1>9. w.read \in Nat /\ w.failed \in Nat
    BY <1>4 DEF Work
  <1>10. Cardinality(w.todo) \in Nat /\ Cardinality(w.apps) \in Nat
    BY <1>4, FS_Subset, FS_CardinalityType DEF Work
  <1> HIDE DEF new
  <1>11. Kept(new, stored', analyzed)
    <2>1. new.took \subseteq stored'
      BY <1>2, <1>3, <1>4, <1>8 DEF Kept
    <2>2. new.unclassified = 0 => new.took \ new.left \subseteq analyzed \union Open(new)
      BY <1>2, <1>4, <1>8 DEF Kept, Open
    <2>3. new.read + new.failed + Cardinality(new.todo) = Cardinality(new.apps) + 1
      <3>1. w.read + w.failed + Cardinality(w.todo) = Cardinality(w.apps)
        BY <1>2, <1>4, <1>10 DEF Kept, InApp
      <3> QED
        BY <3>1, <1>8, <1>9, <1>10
    <2>4. w.pending = {}
      BY <1>2, <1>4 DEF Kept
    <2> QED
      BY <1>1, <1>8, <2>1, <2>2, <2>3, <2>4 DEF Kept, InApp
  <1>12. Alone(new, analyzed, themes', built'.troubles)
    BY <1>8 DEF Alone
  <1>13. built' \in [builds : Nat, troubles : Nat] /\ built'.troubles >= built.troubles
    <2>1. built \in [builds : Nat, troubles : Nat]
      BY <1>2, Working
    <2> QED
      BY <1>6, <2>1
  <1> QED
    BY <1>2, <1>3, <1>5, <1>6, <1>7, <1>11, <1>12, <1>13, PlainStep

\* An app that could not be read is counted.
LEMMA NicheIngestFails ==
    ASSUME IsFiniteSet(App), NicheInv, NEW b \in Builds, NEW a \in App, N!IngestFails(b, a)
    PROVE  NicheInv'
  <1> DEFINE w == build[b]
  <1>1. N!In(b, "next") /\ a \in w.todo /\ N!Spend
    BY DEF N!IngestFails
  <1>2. w # N!Idle /\ w.phase = "next"
    BY <1>1, Busied
  <1>3. w \in Work /\ Kept(w, stored, analyzed) /\ stored \subseteq Review
    BY <1>2, Working
  <1> DEFINE new == [w EXCEPT !.todo = @ \ {a}, !.failed = @ + 1]
  <1>4. build' = [build EXCEPT ![b] = new]
    BY DEF N!IngestFails
  <1>5. UNCHANGED <<published, stored, analyzed, themes, method, paid, crowded>>
    BY DEF N!IngestFails
  <1>6. new \in Work
    <2> DEFINE todo == w.todo \ {a}
    <2>1. todo \in SUBSET App /\ w.failed + 1 \in Nat
      BY <1>3 DEF Work
    <2>2. new = [w EXCEPT !.todo = todo, !.failed = w.failed + 1]
      BY <1>3 DEF Work
    <2> HIDE DEF todo
    <2> QED
      BY <1>3, <2>1, <2>2 DEF Work
  <1>7. /\ new.phase = "next" /\ new.pending = w.pending /\ new.todo = w.todo \ {a}
        /\ new.took = w.took /\ new.left = w.left /\ new.unclassified = w.unclassified
        /\ new.read = w.read /\ new.failed = w.failed + 1 /\ new.apps = w.apps
    BY <1>2, <1>3 DEF Work
  <1>8. w.read \in Nat /\ w.failed \in Nat
    BY <1>3 DEF Work
  <1>9. Cardinality(w.apps) \in Nat
    BY <1>3, FS_Subset, FS_CardinalityType DEF Work
  <1> HIDE DEF new
  <1>10. new.read + new.failed + Cardinality(new.todo) = Cardinality(new.apps)
    <2>1. w.read + w.failed + Cardinality(w.todo) = Cardinality(w.apps)
      BY <1>2, <1>3, <1>9 DEF Kept, InApp
    <2>2. /\ Cardinality(w.todo \ {a}) \in Nat
          /\ Cardinality(w.todo) = Cardinality(w.todo \ {a}) + 1
      BY <1>1, <1>3, OneLess
    <2> QED
      BY <2>1, <2>2, <1>7, <1>8, <1>9
  <1>11. Kept(new, stored, analyzed)
    BY <1>2, <1>3, <1>7, <1>9, <1>10 DEF Kept, Open, InApp
  <1>12. Alone(new, analyzed, themes', built'.troubles)
    BY <1>7 DEF Alone
  <1>13. built' \in [builds : Nat, troubles : Nat] /\ built'.troubles >= built.troubles
    <2>1. built \in [builds : Nat, troubles : Nat]
      BY <1>2, Working
    <2> QED
      BY <1>1, <2>1, SpentTypes
  <1> QED
    BY <1>2, <1>3, <1>4, <1>5, <1>6, <1>11, <1>12, <1>13, PlainStep

\* The reviews loaded are open, and those the limit leaves are another build's.
LEMMA NicheLoad ==
    ASSUME IsFiniteSet(App), NicheInv, NEW b \in Builds, N!Load(b)
    PROVE  NicheInv'
  <1> DEFINE w == build[b]
  <1>1. w # N!Idle /\ w.phase = "classify"
    BY Busied DEF N!Load
  <1>2. w \in Work /\ Kept(w, stored, analyzed) /\ stored \subseteq Review /\ analyzed \subseteq Review
    BY <1>1, Working
  <1>3. PICK reviews \in N!First(Limit, N!Unanalyzed(w.app)) :
          build' = [build EXCEPT ![b] =
            IF reviews \intersect Wordless = {}
            THEN N!Rest([w EXCEPT !.pending = reviews,
                                  !.left = @ \union (N!Unanalyzed(w.app) \ reviews)])
            ELSE [[w EXCEPT !.pending = reviews,
                            !.left = @ \union (N!Unanalyzed(w.app) \ reviews)] EXCEPT !.phase = "wordless"]]
    BY DEF N!Load
  <1>4. UNCHANGED <<published, stored, analyzed, themes, method, paid, crowded, built>>
    BY DEF N!Load
  <1>5. reviews \subseteq Review /\ reviews \intersect analyzed = {}
    BY <1>2, FirstOf DEF N!Unanalyzed
  <1> DEFINE with == [w EXCEPT !.pending = reviews,
                               !.left = @ \union (N!Unanalyzed(w.app) \ reviews)]
  <1>6. with \in Work
    <2> DEFINE left == w.left \union (N!Unanalyzed(w.app) \ reviews)
    <2>1. left \in SUBSET Review /\ reviews \in SUBSET Review
      BY <1>2, <1>5 DEF Work, N!Unanalyzed
    <2>2. with = [w EXCEPT !.pending = reviews, !.left = left]
      BY <1>2 DEF Work
    <2> HIDE DEF left
    <2> QED
      BY <1>2, <2>1, <2>2 DEF Work
  <1>7. /\ with.phase = "classify" /\ with.pending = reviews /\ with.todo = w.todo /\ with.app = w.app
        /\ with.took = w.took /\ with.left = w.left \union (N!Unanalyzed(w.app) \ reviews)
        /\ with.unclassified = w.unclassified
        /\ with.read = w.read /\ with.failed = w.failed /\ with.apps = w.apps
    BY <1>1, <1>2 DEF Work
  <1>8. build' = [build EXCEPT ![b] = IF reviews \intersect Wordless = {} THEN N!Rest(with)
                                      ELSE [with EXCEPT !.phase = "wordless"]]
    BY <1>3
  <1> HIDE DEF with
  <1>9. with.app \in with.todo /\ with.took \subseteq stored
    BY <1>1, <1>2, <1>7 DEF Kept, InApp
  <1>10. with.unclassified = 0 => with.took \ with.left \subseteq analyzed \union with.pending
    <2>1. w.unclassified = 0 => w.took \ w.left \subseteq analyzed \union N!About({w.app})
      BY <1>1, <1>2 DEF Kept, Open
    <2>2. with.took \ with.left \subseteq w.took \ w.left
      BY <1>7
    <2>3. ASSUME NEW r \in with.took \ with.left, r \in N!About({w.app})
          PROVE  r \in analyzed \union reviews
      BY <1>7, <1>9, <2>3 DEF N!Unanalyzed
    <2> QED
      BY <1>7, <2>1, <2>2, <2>3
  <1>11. with.read + with.failed + Cardinality(with.todo) = Cardinality(with.apps) + 1
    BY <1>1, <1>2, <1>7 DEF Kept, InApp
  <1>12. built' \in [builds : Nat, troubles : Nat] /\ built'.troubles >= built.troubles
    <2>1. built \in [builds : Nat, troubles : Nat]
      BY <1>1, Working
    <2> QED
      BY <1>4, <2>1
  <1>13. CASE reviews \intersect Wordless = {}
    <2>1. build' = [build EXCEPT ![b] = N!Rest(with)]
      BY <1>8, <1>13
    <2>2. with.pending \intersect Wordless = {} /\ with.pending \intersect analyzed = {}
          /\ with.phase \in InApp
      BY <1>5, <1>7, <1>13 DEF InApp
    <2>3. /\ N!Rest(with) \in Work
          /\ Kept(N!Rest(with), stored, analyzed)
          /\ Alone(N!Rest(with), analyzed, themes', built'.troubles)
      BY <1>6, <1>9, <1>10, <1>11, <2>2, RestKept
    <2> QED
      BY <1>1, <1>2, <1>4, <1>12, <2>1, <2>3, PlainStep
  <1>14. CASE reviews \intersect Wordless # {}
    <2> DEFINE new == [with EXCEPT !.phase = "wordless"]
    <2>1. build' = [build EXCEPT ![b] = new]
      BY <1>8, <1>14
    <2>2. new \in Work
      BY <1>6 DEF Work, Phases
    <2>3. /\ new.phase = "wordless" /\ new.pending = reviews /\ new.todo = with.todo
          /\ new.app = with.app /\ new.took = with.took /\ new.left = with.left
          /\ new.unclassified = with.unclassified /\ new.read = with.read
          /\ new.failed = with.failed /\ new.apps = with.apps
      BY <1>6, <1>7 DEF Work
    <2> HIDE DEF new
    <2>4. Kept(new, stored, analyzed)
      BY <1>7, <1>9, <1>10, <1>11, <2>3 DEF Kept, Open, InApp
    <2>5. Alone(new, analyzed, themes', built'.troubles)
      BY <1>5, <2>3 DEF Alone
    <2> QED
      BY <1>1, <1>2, <1>4, <1>12, <2>1, <2>2, <2>4, <2>5, PlainStep
  <1> QED
    BY <1>13, <1>14

\* What has no text is analyzed, and not open any more.
LEMMA NicheStampWordless ==
    ASSUME IsFiniteSet(App), NicheInv, NEW b \in Builds, N!StampWordless(b)
    PROVE  NicheInv'
  <1> DEFINE w == build[b]
  <1>1. w # N!Idle /\ w.phase = "wordless"
    BY Busied DEF N!StampWordless
  <1>2. /\ w \in Work /\ Kept(w, stored, analyzed) /\ stored \subseteq Review /\ analyzed \subseteq Review
        /\ paid \in [Review -> Nat] /\ built \in [builds : Nat, troubles : Nat]
        /\ \A r \in Wordless \intersect Review : paid[r] = 0
        /\ crowded = FALSE => Alone(w, analyzed, themes, built.troubles)
    BY <1>1, Working
  <1> DEFINE with == [w EXCEPT !.pending = @ \ Wordless]
  <1>3. analyzed' = analyzed \union (w.pending \intersect Wordless)
    BY DEF N!StampWordless
  <1>13. build' = [build EXCEPT ![b] = N!Rest(with)]
    BY DEF N!StampWordless
  <1>4. UNCHANGED <<published, stored, themes, method, paid, crowded, built>>
    BY DEF N!StampWordless
  <1>5. with \in Work /\ w.pending \subseteq Review
    BY <1>2 DEF Work
  <1>6. /\ with.phase = "wordless" /\ with.pending = w.pending \ Wordless /\ with.todo = w.todo
        /\ with.app = w.app /\ with.took = w.took /\ with.left = w.left
        /\ with.unclassified = w.unclassified /\ with.read = w.read
        /\ with.failed = w.failed /\ with.apps = w.apps
    BY <1>1, <1>2 DEF Work
  <1> HIDE DEF with
  <1>7. /\ with.phase \in InApp /\ with.app \in with.todo /\ with.took \subseteq stored
        /\ with.pending \intersect Wordless = {}
        /\ with.read + with.failed + Cardinality(with.todo) = Cardinality(with.apps) + 1
    BY <1>1, <1>2, <1>6 DEF Kept, InApp
  <1>8. with.unclassified = 0 => with.took \ with.left \subseteq analyzed' \union with.pending
    <2>1. w.unclassified = 0 => w.took \ w.left \subseteq analyzed \union w.pending
      BY <1>1, <1>2 DEF Kept, Open
    <2> QED
      BY <1>3, <1>6, <2>1
  <1>9. crowded = FALSE => with.pending \intersect analyzed' = {}
    BY <1>1, <1>2, <1>3, <1>6 DEF Alone
  <1>10. /\ N!Rest(with) \in Work
         /\ Kept(N!Rest(with), stored', analyzed')
         /\ crowded = FALSE => Alone(N!Rest(with), analyzed', themes', built'.troubles)
    <2>1. /\ N!Rest(with) \in Work
          /\ Kept(N!Rest(with), stored, analyzed')
          /\ with.pending \intersect analyzed' = {}
               => Alone(N!Rest(with), analyzed', themes', built'.troubles)
      BY <1>5, <1>7, <1>8, RestKept
    <2> QED
      BY <1>4, <1>9, <2>1
  <1>11. ASSUME crowded = FALSE, NEW r \in Review
         PROVE  paid'[r] <= (IF r \in analyzed' \/ r \in Stamping(N!Rest(with)) THEN 1 ELSE 0)
                              + built'.troubles
    <2>1. paid[r] <= (IF r \in analyzed \/ r \in Stamping(w) THEN 1 ELSE 0) + built.troubles
      BY <1>1, <1>11, ChargedAlone
    <2>2. Stamping(w) = {}
      BY <1>1 DEF Stamping
    <2>3. paid[r] \in Nat /\ built.troubles \in Nat
      BY <1>2
    <2> QED
      BY <1>3, <1>4, <2>1, <2>2, <2>3
  <1>12. analyzed \subseteq analyzed' /\ analyzed' \subseteq Review
    BY <1>2, <1>3, <1>5
  <1> QED
    BY <1>1, <1>2, <1>4, <1>10, <1>11, <1>12, <1>13, WorkStep

\* What is paid for, and by whom.
LEMMA PaidFor ==
    ASSUME paid \in [Review -> Nat], NEW batch, paid' = N!Paid(batch)
    PROVE  /\ paid' \in [Review -> Nat]
           /\ \A r \in Review : paid'[r] = IF r \in batch THEN paid[r] + 1 ELSE paid[r]
  BY DEF N!Paid

\* A build that is alone has a batch read that nobody has analyzed.
LEMMA NicheCall ==
    ASSUME NicheInv, NEW b \in Builds, N!Call(b)
    PROVE  NicheInv'
  <1> DEFINE w == build[b]
  <1>1. w # N!Idle /\ w.phase = "call"
    BY Busied DEF N!Call
  <1>2. /\ w \in Work /\ Kept(w, stored, analyzed) /\ stored \subseteq Review /\ analyzed \subseteq Review
        /\ paid \in [Review -> Nat] /\ built \in [builds : Nat, troubles : Nat]
        /\ \A r \in Wordless \intersect Review : paid[r] = 0
        /\ crowded = FALSE => Alone(w, analyzed, themes, built.troubles)
    BY <1>1, Working
  <1>3. PICK batch \in N!First(BatchSize, w.pending) :
          /\ paid' = N!Paid(batch)
          /\ build' = [build EXCEPT ![b].phase = "stamp", ![b].batch = batch]
    BY DEF N!Call
  <1>4. UNCHANGED <<published, stored, analyzed, themes, method, crowded, built>>
    BY DEF N!Call
  <1>5. batch \subseteq w.pending /\ w.pending \subseteq Review
    BY <1>2, FirstOf DEF Work
  <1> DEFINE new == [w EXCEPT !.phase = "stamp", !.batch = batch]
  <1>6. build' = [build EXCEPT ![b] = new]
    BY <1>3
  <1>7. new \in Work
    BY <1>2, <1>5 DEF Work, Phases
  <1>8. /\ new.phase = "stamp" /\ new.batch = batch /\ new.pending = w.pending /\ new.todo = w.todo
        /\ new.app = w.app /\ new.took = w.took /\ new.left = w.left
        /\ new.unclassified = w.unclassified /\ new.read = w.read
        /\ new.failed = w.failed /\ new.apps = w.apps
    BY <1>2 DEF Work
  <1> HIDE DEF new
  <1>9. Kept(new, stored, analyzed)
    BY <1>1, <1>2, <1>5, <1>8 DEF Kept, Open, InApp
  <1>10. crowded = FALSE => Alone(new, analyzed, themes, built.troubles)
    BY <1>1, <1>2, <1>8 DEF Alone
  <1>11. /\ paid' \in [Review -> Nat]
         /\ \A r \in Review : paid'[r] = IF r \in batch THEN paid[r] + 1 ELSE paid[r]
    BY <1>2, <1>3, PaidFor
  <1>12. ASSUME crowded = FALSE, NEW r \in Review
         PROVE  paid'[r] <= (IF r \in analyzed \/ r \in Stamping(new) THEN 1 ELSE 0) + built.troubles
    <2>1. paid[r] <= (IF r \in analyzed \/ r \in Stamping(w) THEN 1 ELSE 0) + built.troubles
      BY <1>1, <1>12, ChargedAlone
    <2>2. Stamping(w) = {} /\ Stamping(new) = batch
      BY <1>1, <1>8 DEF Stamping
    <2>3. batch \intersect analyzed = {}
      BY <1>1, <1>2, <1>5, <1>12 DEF Alone
    <2>4. paid[r] \in Nat /\ built.troubles \in Nat
      BY <1>2
    <2>5. CASE r \in batch
      BY <1>11, <2>1, <2>2, <2>3, <2>4, <2>5
    <2>6. CASE r \notin batch
      BY <1>11, <2>1, <2>2, <2>4, <2>6
    <2> QED
      BY <2>5, <2>6
  <1>13. \A r \in Wordless \intersect Review : paid'[r] = 0
    <2>1. batch \intersect Wordless = {}
      BY <1>1, <1>2, <1>5 DEF Kept
    <2> QED
      BY <1>2, <1>11, <2>1
  <1> QED
    BY <1>1, <1>2, <1>4, <1>6, <1>7, <1>9, <1>10, <1>11, <1>12, <1>13, WorkStep

\* A build that gives an app up says so.
LEMMA GivenUp ==
    ASSUME IsFiniteSet(App), NEW w \in Work, NEW rows, NEW done, NEW shown, NEW troubles,
           w.phase \in InApp, Kept(w, rows, done)
    PROVE  /\ N!Unclassified(w) \in Work
           /\ Kept(N!Unclassified(w), rows, done)
           /\ Alone(N!Unclassified(w), done, shown, troubles)
           /\ Stamping(N!Unclassified(w)) = {}
  <1> DEFINE with == [w EXCEPT !.unclassified = @ + 1]
  <1>1. with \in Work /\ with.unclassified # 0
    BY DEF Work
  <1>2. /\ with.phase = w.phase /\ with.app = w.app /\ with.todo = w.todo /\ with.took = w.took
        /\ with.read = w.read /\ with.failed = w.failed /\ with.apps = w.apps
    BY DEF Work
  <1>3. N!Unclassified(w) = N!Next1(with)
    BY DEF N!Unclassified
  <1> HIDE DEF with
  <1>4. /\ with.phase \in InApp /\ with.app \in with.todo /\ with.took \subseteq rows
        /\ with.read + with.failed + Cardinality(with.todo) = Cardinality(with.apps) + 1
    BY <1>2 DEF Kept
  <1>5. /\ N!Next1(with) \in Work
        /\ Kept(N!Next1(with), rows, done)
        /\ Alone(N!Next1(with), done, shown, troubles)
        /\ Stamping(N!Next1(with)) = {}
    BY <1>1, <1>4, NextKept
  <1> QED
    BY <1>3, <1>5

\* A call or a stamp that fails is a trouble, which what was paid in vain counts as.
LEMMA NicheFails ==
    ASSUME IsFiniteSet(App), NicheInv, NEW b \in Builds, N!CallFails(b) \/ N!StampFails(b)
    PROVE  NicheInv'
  <1> DEFINE w == build[b]
             new == N!Unclassified(w)
  <1>1. w # N!Idle /\ w.phase \in {"call", "stamp"}
    BY Busied DEF N!CallFails, N!StampFails
  <1>2. /\ w \in Work /\ Kept(w, stored, analyzed) /\ stored \subseteq Review /\ analyzed \subseteq Review
        /\ paid \in [Review -> Nat] /\ built \in [builds : Nat, troubles : Nat]
        /\ \A r \in Wordless \intersect Review : paid[r] = 0
    BY <1>1, Working
  <1>3. N!Spend /\ build' = [build EXCEPT ![b] = new]
    BY DEF N!CallFails, N!StampFails
  <1>4. UNCHANGED <<published, stored, analyzed, themes, method, crowded>>
    BY DEF N!CallFails, N!StampFails
  <1>5. built' \in [builds : Nat, troubles : Nat] /\ built'.troubles = built.troubles + 1
    BY <1>2, <1>3, SpentTypes
  <1>6. /\ new \in Work /\ Kept(new, stored, analyzed) /\ Stamping(new) = {}
        /\ Alone(new, analyzed, themes, built'.troubles)
    BY <1>1, <1>2, GivenUp DEF InApp
  <1> HIDE DEF new
  <1>7. /\ paid' \in [Review -> Nat]
        /\ \A r \in Review : paid'[r] <= paid[r] + (IF w.phase = "call" /\ r \in w.pending THEN 1 ELSE 0)
    <2>1. CASE N!CallFails(b)
      <3>1. PICK batch \in N!First(BatchSize, w.pending) \union {{}} : paid' = N!Paid(batch)
        BY <2>1 DEF N!CallFails
      <3>2. batch \subseteq w.pending
        BY FirstOf
      <3>3. w.phase = "call"
        BY <2>1, Busied DEF N!CallFails
      <3>4. /\ paid' \in [Review -> Nat]
            /\ \A r \in Review : paid'[r] = IF r \in batch THEN paid[r] + 1 ELSE paid[r]
        BY <1>2, <3>1, PaidFor
      <3> QED
        BY <1>2, <3>2, <3>3, <3>4
    <2>2. CASE N!StampFails(b)
      <3>1. paid' = paid
        BY <2>2 DEF N!StampFails
      <3> QED
        BY <1>2, <3>1
    <2> QED
      BY <2>1, <2>2
  <1>8. ASSUME crowded = FALSE, NEW r \in Review
        PROVE  paid'[r] <= (IF r \in analyzed \/ r \in Stamping(new) THEN 1 ELSE 0) + built'.troubles
    <2>1. paid[r] <= (IF r \in analyzed \/ r \in Stamping(w) THEN 1 ELSE 0) + built.troubles
      BY <1>1, <1>8, ChargedAlone
    <2>2. paid[r] \in Nat /\ paid'[r] \in Nat /\ built.troubles \in Nat
      BY <1>2, <1>7
    <2>3. CASE w.phase = "call"
      <3>1. Stamping(w) = {}
        BY <2>3 DEF Stamping
      <3> QED
        BY <1>5, <1>7, <2>1, <2>2, <3>1
    <2>4. CASE w.phase = "stamp"
      BY <1>5, <1>7, <2>1, <2>2, <2>4
    <2> QED
      BY <1>1, <2>3, <2>4
  <1>9. \A r \in Wordless \intersect Review : paid'[r] = 0
    <2>1. w.pending \intersect Wordless = {}
      BY <1>1, <1>2 DEF Kept
    <2> SUFFICES ASSUME NEW r \in Wordless \intersect Review PROVE paid'[r] = 0
      OBVIOUS
    <2>2. paid'[r] \in Nat /\ paid'[r] <= paid[r] /\ paid[r] = 0
      BY <1>2, <1>7, <2>1
    <2> QED
      BY <2>2
  <1>10. \A r \in Review : crowded = FALSE =>
           paid'[r] <= (IF r \in analyzed \/ r \in Stamping(new) THEN 1 ELSE 0) + built'.troubles
    BY <1>8
  <1> QED
    BY <1>1, <1>2, <1>3, <1>4, <1>5, <1>6, <1>7, <1>9, <1>10, WorkStep

\* The batch is analyzed and not open any more.
LEMMA NicheStamp ==
    ASSUME IsFiniteSet(App), NicheInv, NEW b \in Builds, N!Stamp(b)
    PROVE  NicheInv'
  <1> DEFINE w == build[b]
  <1>1. w # N!Idle /\ w.phase = "stamp"
    BY Busied DEF N!Stamp
  <1>2. /\ w \in Work /\ Kept(w, stored, analyzed) /\ stored \subseteq Review /\ analyzed \subseteq Review
        /\ paid \in [Review -> Nat] /\ built \in [builds : Nat, troubles : Nat]
        /\ \A r \in Wordless \intersect Review : paid[r] = 0
        /\ crowded = FALSE => Alone(w, analyzed, themes, built.troubles)
    BY <1>1, Working
  <1> DEFINE with == [w EXCEPT !.pending = @ \ w.batch]
  <1>3. analyzed' = analyzed \union w.batch
    BY DEF N!Stamp
  <1>4. build' = [build EXCEPT ![b] = N!Rest(with)]
    BY DEF N!Stamp
  <1>5. UNCHANGED <<published, stored, themes, method, paid, crowded, built>>
    BY DEF N!Stamp
  <1>6. with \in Work /\ w.batch \subseteq Review
    BY <1>2 DEF Work
  <1>7. /\ with.phase = "stamp" /\ with.pending = w.pending \ w.batch /\ with.todo = w.todo
        /\ with.app = w.app /\ with.took = w.took /\ with.left = w.left
        /\ with.unclassified = w.unclassified /\ with.read = w.read
        /\ with.failed = w.failed /\ with.apps = w.apps
    BY <1>1, <1>2 DEF Work
  <1> HIDE DEF with
  <1>8. /\ with.phase \in InApp /\ with.app \in with.todo /\ with.took \subseteq stored
        /\ with.pending \intersect Wordless = {}
        /\ with.read + with.failed + Cardinality(with.todo) = Cardinality(with.apps) + 1
    BY <1>1, <1>2, <1>7 DEF Kept, InApp
  <1>9. with.unclassified = 0 => with.took \ with.left \subseteq analyzed' \union with.pending
    <2>1. w.unclassified = 0 => w.took \ w.left \subseteq analyzed \union w.pending
      BY <1>1, <1>2 DEF Kept, Open
    <2> QED
      BY <1>3, <1>7, <2>1
  <1>10. crowded = FALSE => with.pending \intersect analyzed' = {}
    BY <1>1, <1>2, <1>3, <1>7 DEF Alone
  <1>11. /\ N!Rest(with) \in Work
         /\ Kept(N!Rest(with), stored', analyzed')
         /\ crowded = FALSE => Alone(N!Rest(with), analyzed', themes', built'.troubles)
    <2>1. /\ N!Rest(with) \in Work
          /\ Kept(N!Rest(with), stored, analyzed')
          /\ with.pending \intersect analyzed' = {}
               => Alone(N!Rest(with), analyzed', themes', built'.troubles)
      BY <1>6, <1>8, <1>9, RestKept
    <2> QED
      BY <1>5, <1>10, <2>1
  <1>12. ASSUME crowded = FALSE, NEW r \in Review
         PROVE  paid'[r] <= (IF r \in analyzed' \/ r \in Stamping(N!Rest(with)) THEN 1 ELSE 0)
                              + built'.troubles
    <2>1. paid[r] <= (IF r \in analyzed \/ r \in Stamping(w) THEN 1 ELSE 0) + built.troubles
      BY <1>1, <1>12, ChargedAlone
    <2>2. Stamping(w) = w.batch
      BY <1>1 DEF Stamping
    <2>3. paid[r] \in Nat /\ built.troubles \in Nat
      BY <1>2
    <2> QED
      BY <1>3, <1>5, <2>1, <2>2, <2>3
  <1>13. analyzed \subseteq analyzed' /\ analyzed' \subseteq Review
    BY <1>2, <1>3, <1>6
  <1> QED
    BY <1>1, <1>2, <1>4, <1>5, <1>11, <1>12, <1>13, WorkStep

\* A build that has all its apps done reads what they have, and makes themes of it.
LEMMA NicheThemes ==
    ASSUME NicheInv, NEW b \in Builds, N!ReadRows(b) \/ N!Replace(b)
    PROVE  NicheInv'
  <1> DEFINE w == build[b]
  <1>1. w # N!Idle /\ w.phase \in {"next", "replace"}
    BY Busied DEF N!ReadRows, N!Replace
  <1>2. /\ w \in Work /\ Kept(w, stored, analyzed) /\ stored \subseteq Review /\ analyzed \subseteq Review
        /\ built \in [builds : Nat, troubles : Nat]
        /\ crowded = FALSE => Alone(w, analyzed, themes, built.troubles)
    BY <1>1, Working
  <1>3. UNCHANGED <<published, stored, analyzed, method, paid, crowded, built>>
    BY DEF N!ReadRows, N!Replace
  <1>4. built' \in [builds : Nat, troubles : Nat] /\ built'.troubles >= built.troubles
    BY <1>2, <1>3
  <1>5. CASE N!ReadRows(b)
    <2> DEFINE rows == analyzed \intersect N!About(w.apps)
               new == [w EXCEPT !.phase = "replace", !.pending = rows]
    <2>1. build' = [build EXCEPT ![b] = new] /\ w.todo = {} /\ w.phase = "next"
      BY <1>5, Busied DEF N!ReadRows
    <2>2. rows \in SUBSET Review
      BY <1>2
    <2>3. rows = analyzed \intersect N!About(w.apps)
      OBVIOUS
    <2> HIDE DEF rows
    <2>4. new \in Work
      BY <1>2, <2>2 DEF Work, Phases
    <2>5. /\ new.phase = "replace" /\ new.pending = rows /\ new.todo = w.todo
          /\ new.took = w.took /\ new.left = w.left
          /\ new.unclassified = w.unclassified /\ new.read = w.read
          /\ new.failed = w.failed /\ new.apps = w.apps
      BY <1>2 DEF Work
    <2> HIDE DEF new
    <2>6. Kept(new, stored, analyzed)
      BY <1>2, <2>1, <2>5 DEF Kept, Open, InApp
    <2>7. Alone(new, analyzed, themes', built'.troubles)
      BY <2>3, <2>5 DEF Alone
    <2> QED
      BY <1>1, <1>2, <1>3, <1>4, <2>1, <2>4, <2>6, <2>7, PlainStep
  <1>6. CASE N!Replace(b)
    <2> DEFINE new == [w EXCEPT !.phase = "describe"]
    <2>1. build' = [build EXCEPT ![b] = new] /\ w.phase = "replace"
      BY <1>6, Busied DEF N!Replace
    <2>2. themes' = N!Aggregate(w.pending)
      BY <1>6 DEF N!Replace
    <2>3. new \in Work
      BY <1>2 DEF Work, Phases
    <2>4. /\ new.phase = "describe" /\ new.pending = w.pending /\ new.todo = w.todo
          /\ new.took = w.took /\ new.left = w.left
          /\ new.unclassified = w.unclassified /\ new.read = w.read
          /\ new.failed = w.failed /\ new.apps = w.apps
      BY <1>2 DEF Work
    <2> HIDE DEF new
    <2>5. Kept(new, stored, analyzed)
      BY <1>2, <2>1, <2>4 DEF Kept, Open, InApp
    <2>6. built' = built
      BY <1>3
    <2>7. crowded = FALSE => Alone(new, analyzed, themes', built'.troubles)
      BY <1>2, <2>1, <2>2, <2>4, <2>6 DEF Alone
    <2> QED
      BY <1>1, <1>2, <1>3, <1>4, <2>1, <2>3, <2>5, <2>7, PlainStep
  <1> QED
    BY <1>5, <1>6

\* A build that ends; one that was paying leaves a trouble behind.
LEMMA EndStep ==
    ASSUME NicheInv, NEW b \in Builds, build[b] # N!Idle,
           build' = [build EXCEPT ![b] = N!Idle],
           UNCHANGED <<stored, analyzed, themes, paid, crowded>>,
           built' \in [builds : Nat, troubles : Nat],
           built'.troubles >= built.troubles + (IF build[b].phase = "stamp" THEN 1 ELSE 0),
           N!ShortfallShown', N!ThemesCurrent'
    PROVE  NicheInv'
  <1>1. \A c \in Builds : build'[c] = IF c = b THEN N!Idle ELSE build[c]
    BY DEF NicheInv, NicheTypes
  <1>2. NicheTypes'
    BY DEF NicheInv, NicheTypes
  <1>3. \A c \in Builds : build'[c] # N!Idle => c # b /\ build[c] = build'[c] /\ crowded # FALSE
    BY <1>1 DEF NicheInv
  <1>4. \A c \in Builds : build'[c] # N!Idle => Kept(build'[c], stored', analyzed')
    BY <1>3 DEF NicheInv
  <1>5. crowded' = FALSE => Charged'
    <2> SUFFICES ASSUME crowded = FALSE, NEW r \in Review
                 PROVE  paid[r] <= (IF r \in analyzed \/ \E c \in Builds : r \in Stamping(build'[c])
                                    THEN 1 ELSE 0) + built'.troubles
      BY DEF Charged
    <2>1. paid[r] <= (IF r \in analyzed \/ r \in Stamping(build[b]) THEN 1 ELSE 0) + built.troubles
      BY ChargedAlone
    <2>2. paid[r] \in Nat /\ built.troubles \in Nat /\ built'.troubles \in Nat
      BY DEF NicheInv, NicheTypes
    <2>3. CASE build[b].phase = "stamp"
      BY <2>1, <2>2, <2>3
    <2>4. CASE build[b].phase # "stamp"
      <3>1. Stamping(build[b]) = {}
        BY <2>4 DEF Stamping
      <3> QED
        BY <2>1, <2>2, <2>4, <3>1
    <2> QED
      BY <2>3, <2>4
  <1> QED
    BY <1>2, <1>3, <1>4, <1>5 DEF NicheInv

\* The sentence is written when every app is read or counted as failed.
LEMMA NicheDescribe ==
    ASSUME IsFiniteSet(App), NicheInv, NEW b \in Builds, N!Describe(b)
    PROVE  NicheInv'
  <1> DEFINE w == build[b]
  <1>1. w # N!Idle /\ w.phase = "describe"
    BY Busied DEF N!Describe
  <1>2. /\ w \in Work /\ Kept(w, stored, analyzed)
        /\ built \in [builds : Nat, troubles : Nat]
        /\ crowded = FALSE => Alone(w, analyzed, themes, built.troubles)
    BY <1>1, Working
  <1>3. UNCHANGED <<published, stored, analyzed, themes, paid, crowded, built>>
        /\ build' = [build EXCEPT ![b] = N!Idle]
    BY DEF N!Describe
  <1>4. method' = [apps |-> w.apps, took |-> w.took, left |-> w.left, read |-> w.read,
                   failed |-> w.failed, unclassified |-> w.unclassified]
    BY DEF N!Describe
  <1>5. /\ method'.apps = w.apps /\ method'.took = w.took /\ method'.left = w.left
        /\ method'.read = w.read /\ method'.failed = w.failed
        /\ method'.unclassified = w.unclassified
    BY <1>4
  <1>6. w.todo = {} /\ (w.unclassified = 0 => w.took \ w.left \subseteq analyzed)
    BY <1>1, <1>2 DEF Kept, Open
  <1>7. w.read + w.failed = Cardinality(w.apps)
    <2>1. w.read \in Nat /\ w.failed \in Nat /\ Cardinality(w.apps) \in Nat
      BY <1>2, FS_Subset, FS_CardinalityType DEF Work
    <2>2. w.read + w.failed + Cardinality(w.todo) = Cardinality(w.apps)
      BY <1>1, <1>2, <2>1 DEF Kept, InApp
    <2>3. Cardinality(w.todo) = 0
      BY <1>6, FS_EmptySet
    <2> QED
      BY <2>1, <2>2, <2>3
  <1>8. N!ShortfallShown'
    BY <1>3, <1>5, <1>6, <1>7, SameCount DEF N!ShortfallShown
  <1>9. N!ThemesCurrent'
    <2>1. crowded = FALSE /\ built.troubles = 0
            => themes = N!Aggregate(analyzed \intersect N!About(w.apps))
      BY <1>1, <1>2 DEF Alone
    <2>2. crowded \in BOOLEAN
      BY DEF NicheInv, NicheTypes
    <2> QED
      BY <1>3, <1>5, <2>1, <2>2 DEF N!ThemesCurrent
  <1>10. built' \in [builds : Nat, troubles : Nat]
         /\ built'.troubles >= built.troubles + (IF w.phase = "stamp" THEN 1 ELSE 0)
    BY <1>1, <1>2, <1>3
  <1> QED
    BY <1>1, <1>3, <1>8, <1>9, <1>10, EndStep

\* A build that is cut short is a trouble.
LEMMA NicheCut ==
    ASSUME NicheInv, NEW b \in Builds, N!Cut(b)
    PROVE  NicheInv'
  <1>1. build[b] # N!Idle /\ N!Spend
    BY DEF N!Cut, N!In, N!Idle
  <1>2. UNCHANGED <<published, stored, analyzed, themes, method, paid, crowded>>
        /\ build' = [build EXCEPT ![b] = N!Idle]
    BY DEF N!Cut
  <1>3. built \in [builds : Nat, troubles : Nat]
    BY DEF NicheInv, NicheTypes
  <1>4. built' \in [builds : Nat, troubles : Nat] /\ built'.troubles = built.troubles + 1
    BY <1>1, <1>3, SpentTypes
  <1>5. N!ShortfallShown'
    BY <1>2, ShortfallStays DEF NicheInv
  <1>6. built'.troubles # 0
    BY <1>3, <1>4
  <1>7. N!ThemesCurrent'
    BY <1>6 DEF N!ThemesCurrent
  <1>8. built'.troubles >= built.troubles + (IF build[b].phase = "stamp" THEN 1 ELSE 0)
    BY <1>3, <1>4
  <1> QED
    BY <1>1, <1>2, <1>4, <1>5, <1>7, <1>8, EndStep

\* What the store shows is nobody's yet.
LEMMA NicheStays ==
    ASSUME NicheInv, UNCHANGED <<stored, analyzed, themes, method, build, paid, crowded, built>>
    PROVE  NicheInv'
  <1>1. NicheTypes' /\ (Charged => Charged')
    BY DEF NicheInv, NicheTypes, Charged
  <1>2. N!ShortfallShown' /\ N!ThemesCurrent'
    BY DEF NicheInv, N!ShortfallShown, N!ThemesCurrent, N!In
  <1> QED
    BY <1>1, <1>2 DEF NicheInv

\* NicheInv is inductive.
LEMMA NicheNext ==
    ASSUME IsFiniteSet(App), NicheInv, [N!Next]_N!vars
    PROVE  NicheInv'
  <1>1. ASSUME NEW r \in Review, N!Publish(r) PROVE NicheInv'
    <2>1. UNCHANGED <<stored, analyzed, themes, method, build, paid, crowded, built>>
      BY <1>1 DEF N!Publish
    <2> QED
      BY <2>1, NicheStays
  <1>2. ASSUME NEW b \in Builds, NEW apps \in SUBSET App, N!Begin(b, apps) PROVE NicheInv'
    BY <1>2, NicheBegin
  <1>3. ASSUME NEW b \in Builds, NEW a \in App, N!Ingest(b, a) \/ N!IngestFails(b, a) PROVE NicheInv'
    BY <1>3, NicheIngest, NicheIngestFails
  <1>4. ASSUME NEW b \in Builds, N!Load(b) \/ N!StampWordless(b) \/ N!Call(b) \/ N!Stamp(b)
        PROVE  NicheInv'
    BY <1>4, NicheLoad, NicheStampWordless, NicheCall, NicheStamp
  <1>5. ASSUME NEW b \in Builds, N!CallFails(b) \/ N!StampFails(b) PROVE NicheInv'
    BY <1>5, NicheFails
  <1>6. ASSUME NEW b \in Builds, N!ReadRows(b) \/ N!Replace(b) PROVE NicheInv'
    BY <1>6, NicheThemes
  <1>7. ASSUME NEW b \in Builds, N!Describe(b) \/ N!Cut(b) PROVE NicheInv'
    BY <1>7, NicheDescribe, NicheCut
  <1>8. CASE UNCHANGED N!vars
    BY <1>8, NicheStays DEF N!vars
  <1>9. CASE N!Next
    BY <1>9, <1>1, <1>2, <1>3, <1>4, <1>5, <1>6, <1>7 DEF N!Next
  <1> QED
    BY <1>8, <1>9

\* classifyReviews: a build that is alone pays for a review of the market once, and once more
\* for every failure; two that overlap may pay twice; what has no text is never paid for.
THEOREM ReviewsPaidOnce ==
    ASSUME IsFiniteSet(App) PROVE N!Spec => []PaidOnce
  <1>1. N!Init => NicheInv
    BY NicheInit
  <1>2. NicheInv /\ [N!Next]_N!vars => NicheInv'
    BY NicheNext
  <1>3. NicheInv => PaidOnce
    <2> SUFFICES ASSUME NicheInv, NEW r \in Review
                 PROVE  /\ paid[r] <= 1 + built.troubles \/ crowded
                        /\ r \in Wordless => paid[r] = 0
      BY DEF PaidOnce, N!PaidOnce
    <2>1. paid[r] \in Nat /\ built.troubles \in Nat /\ crowded \in BOOLEAN
      BY DEF NicheInv, NicheTypes
    <2>2. crowded = FALSE => paid[r] <= 1 + built.troubles
      BY <2>1 DEF NicheInv, Charged
    <2> QED
      BY <2>1, <2>2 DEF NicheInv
  <1> QED
    BY <1>1, <1>2, <1>3, PTL DEF N!Spec

\* deriveThemes and buildNiche: the themes of a niche are those of the reviews its apps have,
\* and the sentence beneath them counts the apps and says what was not classified.
THEOREM ThemesAreHonest ==
    ASSUME IsFiniteSet(App) PROVE N!Spec => []ThemesHonest
  <1>1. N!Init => NicheInv
    BY NicheInit
  <1>2. NicheInv /\ [N!Next]_N!vars => NicheInv'
    BY NicheNext
  <1>3. NicheInv => ThemesHonest
    BY DEF NicheInv, ThemesHonest, N!ThemesHonest
  <1> QED
    BY <1>1, <1>2, <1>3, PTL DEF N!Spec

==============================================================================
