----------------------------- MODULE OrgMembership -----------------------------
(***************************************************************************)
(* Who belongs to one workspace: roles, invitations and removals           *)
(* (src/server/api/routers/org.ts), redeeming invitations on sign-in       *)
(* (src/server/auth.ts) and account deletion (src/server/api/routers/      *)
(* account.ts).  Every procedure reads, decides and writes in separate     *)
(* statements; requests run side by side, one per slot.                    *)
(* VIEWER and MEMBER have the same rights here and are one role.           *)
(***************************************************************************)
EXTENDS Integers, FiniteSets

CONSTANTS
    Users,
    Slots,       \* the requests that may be served side by side
    MaxRequests, \* bound: the requests served
    MaxCrashes   \* bound: requests cut short

Procedures == {"setRole", "remove", "invite", "signIn", "deleteAccount", "deleteOrg"}

VARIABLES
    org,      \* the Organization row exists
    role,     \* role[u]: u's Membership in it, "NONE" without one
    account,  \* account[u]: u's User row exists
    own,      \* own[u]: u is a member of some other organization
    invite,   \* invite[u]: the role u's address is invited to, "NONE" if to none
    accepted, \* accepted[u]: acceptedAt of that invitation is set
    req,      \* req[s]: the request served by s, None if idle
    awaited,  \* ghost: awaited[u]: an admin has invited u's address, and nothing came of it
    signed,   \* ghost: signed[u]: u has signed in with that account
    raced,    \* ghost: a request wrote though another had undone what it relied on
    used

vars == <<org, role, account, own, invite, accepted, req, awaited, signed, raced, used>>

Ranked == <<"MEMBER", "ADMIN", "OWNER">>
Roles == {Ranked[i] : i \in DOMAIN Ranked}
Rank(r) == IF r = "NONE" THEN 0 ELSE CHOOSE i \in DOMAIN Ranked : Ranked[i] = r
hasRole(r, minimum) == Rank(r) >= Rank(minimum)

None == [op |-> "none"]
\* `since` is a ghost: what other requests have done since this one began.
Request == [op : Procedures, by : Users, on : Users, to : Roles, saw : BOOLEAN,
            phase : {"look", "count", "write", "redeem", "accept"},
            since : SUBSET {"ownerLost", "joined"}]

\* Any membership with an owner; who has none may have an account or not.
Init ==
    /\ org = TRUE
    /\ role \in [Users -> Roles \union {"NONE"}] /\ \E u \in Users : role[u] = "OWNER"
    /\ account \in [Users -> BOOLEAN] /\ \A u \in Users : role[u] # "NONE" => account[u]
    /\ own = account /\ signed = account
    /\ invite = [u \in Users |-> "NONE"] /\ accepted = [u \in Users |-> FALSE]
    /\ awaited = [u \in Users |-> FALSE]
    /\ req = [s \in Slots |-> None]
    /\ raced = FALSE
    /\ used = [requests |-> 0, crashes |-> 0]

Pending(u) == invite[u] # "NONE" /\ ~accepted[u]
OtherOwners(u) == {o \in Users \ {u} : role[o] = "OWNER"}
OtherMembers(u) == {o \in Users \ {u} : role[o] # "NONE"}

-----------------------------------------------------------------------------
(* What the middleware and the first statements admit                      *)

Allowed(op, by, on, to) ==
    CASE op = "setRole" -> hasRole(role[by], "ADMIN") /\ hasRole(role[by], to)
      [] op = "remove" -> hasRole(role[by], "ADMIN")
      [] op = "invite" -> hasRole(role[by], "ADMIN") /\ (to = "OWNER" => role[by] = "OWNER")
      [] op = "deleteOrg" -> role[by] = "OWNER" /\ on = by
      [] op = "deleteAccount" -> account[by] /\ on = by
      [] op = "signIn" -> on = by

\* The adapter creates the User row before ensureOrganization is called.
Begin(s, op, by, on, to) ==
    /\ req[s] = None
    /\ used.requests < MaxRequests
    /\ Allowed(op, by, on, to)
    /\ op \notin {"setRole", "invite"} => to = "MEMBER"
    /\ req' = [req EXCEPT ![s] = [op |-> op, by |-> by, on |-> on, to |-> to,
                                  saw |-> awaited[by], phase |-> "look", since |-> {}]]
    /\ account' = [account EXCEPT ![by] = @ \/ op = "signIn"]
    /\ used' = [used EXCEPT !.requests = @ + 1]
    /\ UNCHANGED <<org, role, own, invite, accepted, awaited, signed, raced>>

Goes(s, phase) == req' = [req EXCEPT ![s].phase = phase]
Ends(s) == req' = [req EXCEPT ![s] = None]

\* The requests r once the memberships have changed.
Watched(r) ==
    LET done == (IF \E u \in Users : role[u] = "OWNER" /\ role'[u] # "OWNER"
                   THEN {"ownerLost"} ELSE {})
                \union (IF \E u \in Users : role[u] = "NONE" /\ role'[u] # "NONE"
                         THEN {"joined"} ELSE {})
    IN  [t \in Slots |-> IF r[t] = None THEN None ELSE [r[t] EXCEPT !.since = @ \union done]]

GoesWatched(s, phase) == req' = Watched([req EXCEPT ![s].phase = phase])
EndsWatched(s) == req' = Watched([req EXCEPT ![s] = None])

-----------------------------------------------------------------------------
(* org.setRole and org.removeMember                                        *)

Changes(r) == r.op \in {"setRole", "remove"}
Demotes(r) == r.op = "remove" \/ r.to # "OWNER"

LookTarget(s) ==
    LET r == req[s] IN
    /\ Changes(r) /\ r.phase = "look"
    /\ IF role[r.on] = "NONE" THEN Ends(s)
       ELSE Goes(s, IF role[r.on] = "OWNER" /\ Demotes(r) THEN "count" ELSE "write")
    /\ UNCHANGED <<org, role, account, own, invite, accepted, awaited, signed, used, raced>>

\* mutant: the target is one of the owners counted
LastOwnerCounted(u) == {o \in Users : role[o] = "OWNER"} = {}

\* owners <= 1, the target being one of them.
LastOwner(u) == OtherOwners(u) = {}

CountOwners(s) ==
    /\ Changes(req[s]) /\ req[s].phase = "count"
    /\ IF LastOwner(req[s].on) THEN Ends(s) ELSE Goes(s, "write")
    /\ UNCHANGED <<org, role, account, own, invite, accepted, awaited, signed, used, raced>>

\* Without a row the update or delete throws.
WriteRole(s) ==
    LET r == req[s] IN
    /\ Changes(r) /\ r.phase = "write"
    /\ role' = IF role[r.on] = "NONE" THEN role
               ELSE [role EXCEPT ![r.on] = IF r.op = "remove" THEN "NONE" ELSE r.to]
    /\ raced' = (raced \/ "ownerLost" \in r.since)
    /\ EndsWatched(s)
    /\ UNCHANGED <<org, account, own, invite, accepted, awaited, signed, used>>

-----------------------------------------------------------------------------
(* org.invite, org.revokeInvite, org.delete                                *)

LookMember(s) ==
    /\ req[s].op = "invite" /\ req[s].phase = "look"
    /\ IF role[req[s].on] # "NONE" THEN Ends(s) ELSE Goes(s, "write")
    /\ UNCHANGED <<org, role, account, own, invite, accepted, awaited, signed, used, raced>>

\* The upsert leaves acceptedAt of an invitation that exists alone.
WriteInvite(s) ==
    LET r == req[s] IN
    /\ r.op = "invite" /\ r.phase = "write"
    /\ invite' = IF org THEN [invite EXCEPT ![r.on] = r.to] ELSE invite
    /\ accepted' = [accepted EXCEPT ![r.on] = @ /\ invite[r.on] # "NONE"]
    /\ awaited' = [awaited EXCEPT ![r.on] = @ \/ org]
    /\ Ends(s)
    /\ UNCHANGED <<org, role, account, own, signed, used, raced>>

Withdrawn(u) ==
    /\ invite' = [invite EXCEPT ![u] = "NONE"]
    /\ accepted' = [accepted EXCEPT ![u] = FALSE]
    /\ awaited' = [awaited EXCEPT ![u] = FALSE]

Revoke(by, u) ==
    /\ hasRole(role[by], "ADMIN")
    /\ invite[u] # "NONE"
    /\ Withdrawn(u)
    /\ UNCHANGED <<org, role, account, own, req, signed, used, raced>>

\* Seven days pass.
Expire(u) ==
    /\ Pending(u)
    /\ Withdrawn(u)
    /\ UNCHANGED <<org, role, account, own, req, signed, used, raced>>

\* Memberships and invitations go with the organization.
Gone ==
    /\ org' = FALSE
    /\ role' = [u \in Users |-> "NONE"]
    /\ invite' = [u \in Users |-> "NONE"]
    /\ accepted' = [u \in Users |-> FALSE]
    /\ awaited' = [u \in Users |-> FALSE]

DeleteOrg(s) ==
    /\ req[s].op = "deleteOrg"
    /\ Gone
    /\ EndsWatched(s)
    /\ UNCHANGED <<account, own, signed, used, raced>>

-----------------------------------------------------------------------------
(* ensureOrganization                                                      *)

Completes(s) == Ends(s) /\ signed' = [signed EXCEPT ![req[s].by] = account[req[s].by]]

\* A member of anything is done; else a workspace of its own is created.
LookMembership(s) ==
    LET u == req[s].by IN
    /\ req[s].op = "signIn" /\ req[s].phase = "look"
    /\ IF role[u] # "NONE" \/ own[u] \/ ~account[u]
         THEN Completes(s) /\ UNCHANGED own
         ELSE Goes(s, "redeem") /\ own' = [own EXCEPT ![u] = TRUE] /\ UNCHANGED signed
    /\ UNCHANGED <<org, role, account, invite, accepted, awaited, used, raced>>

\* mutant: only invitations as a plain member are redeemed
RedeemableMember(u) == invite[u] = "MEMBER" /\ ~accepted[u]

Redeemable(u) == Pending(u)

\* Without the user's row the membership cannot be created.
Redeem(s) ==
    LET u == req[s].by IN
    /\ req[s].op = "signIn" /\ req[s].phase = "redeem"
    /\ IF Redeemable(u) /\ account[u]
         THEN /\ role' = [role EXCEPT ![u] = IF @ = "NONE" THEN invite[u] ELSE @]
              /\ awaited' = [awaited EXCEPT ![u] = FALSE]
              /\ GoesWatched(s, "accept") /\ UNCHANGED signed
         ELSE Completes(s) /\ UNCHANGED <<role, awaited>>
    /\ UNCHANGED <<org, account, own, invite, accepted, used, raced>>

Accept(s) ==
    LET u == req[s].by IN
    /\ req[s].op = "signIn" /\ req[s].phase = "accept"
    /\ accepted' = [accepted EXCEPT ![u] = invite[u] # "NONE"]
    /\ Completes(s)
    /\ UNCHANGED <<org, role, account, own, invite, awaited, used, raced>>

-----------------------------------------------------------------------------
(* account.delete                                                          *)

\* The only owner of a workspace with other members may not go.
Blocks(u) == role[u] = "OWNER" /\ OtherOwners(u) = {} /\ OtherMembers(u) # {}

LookBlockers(s) ==
    /\ req[s].op = "deleteAccount" /\ req[s].phase = "look"
    /\ IF Blocks(req[s].by) THEN Ends(s) ELSE Goes(s, "count")
    /\ UNCHANGED <<org, role, account, own, invite, accepted, awaited, signed, used, raced>>

\* mutant: other owners do not count as members
AloneInRole(u) == role[u] = "OWNER" /\ "MEMBER" \notin {role[o] : o \in Users}

\* Nobody else is in the workspace.
Alone(u) == role[u] # "NONE" /\ OtherMembers(u) = {}

CountMembers(s) ==
    /\ req[s].op = "deleteAccount" /\ req[s].phase = "count"
    /\ req' = [req EXCEPT ![s].phase = "write", ![s].saw = Alone(req[s].by)]
    /\ UNCHANGED <<org, role, account, own, invite, accepted, awaited, signed, used, raced>>

\* The transaction; it fails where a row to delete is gone.
DeleteAccount(s) ==
    LET u == req[s].by IN
    /\ req[s].op = "deleteAccount" /\ req[s].phase = "write"
    /\ raced' = (raced \/ req[s].since # {})
    /\ IF account[u] /\ (req[s].saw => org)
         THEN /\ account' = [account EXCEPT ![u] = FALSE]
              /\ own' = [own EXCEPT ![u] = FALSE]
              /\ signed' = [signed EXCEPT ![u] = FALSE]
              /\ IF req[s].saw THEN Gone
                 ELSE /\ role' = [role EXCEPT ![u] = "NONE"]
                      /\ UNCHANGED <<org, invite, accepted, awaited>>
         ELSE UNCHANGED <<org, role, account, own, invite, accepted, awaited, signed>>
    /\ EndsWatched(s)
    /\ UNCHANGED used

\* The process dies, or a statement fails: the rest of the request is not done.
Crash(s) ==
    /\ req[s] # None
    /\ used.crashes < MaxCrashes /\ used' = [used EXCEPT !.crashes = @ + 1]
    /\ Ends(s)
    /\ UNCHANGED <<org, role, account, own, invite, accepted, awaited, signed, raced>>

-----------------------------------------------------------------------------
Step(s) ==
    \/ LookTarget(s) \/ CountOwners(s) \/ WriteRole(s)
    \/ LookMember(s) \/ WriteInvite(s) \/ DeleteOrg(s)
    \/ LookMembership(s) \/ Redeem(s) \/ Accept(s)
    \/ LookBlockers(s) \/ CountMembers(s) \/ DeleteAccount(s)
    \/ Crash(s)

Next ==
    \/ \E s \in Slots : Step(s)
    \/ \E s \in Slots, op \in Procedures, by, on \in Users, to \in Roles : Begin(s, op, by, on, to)
    \/ \E by, u \in Users : Revoke(by, u)
    \/ \E u \in Users : Expire(u)

Spec == Init /\ [][Next]_vars

-----------------------------------------------------------------------------
(* Properties                                                              *)

\* Memberships are those of accounts that exist, in an organization that exists.
TypeOK ==
    /\ org \in BOOLEAN /\ account \in [Users -> BOOLEAN] /\ own \in [Users -> BOOLEAN]
    /\ role \in [Users -> Roles \union {"NONE"}] /\ invite \in [Users -> Roles \union {"NONE"}]
    /\ accepted \in [Users -> BOOLEAN] /\ req \in [Slots -> Request \union {None}]
    /\ awaited \in [Users -> BOOLEAN] /\ signed \in [Users -> BOOLEAN] /\ raced \in BOOLEAN
    /\ used \in [requests : Nat, crashes : Nat]
    /\ \A u \in Users : role[u] # "NONE" => org /\ account[u]

\* The last owner cannot be demoted, removed or deleted, or the organization becomes
\* unadministrable - unless a request writes though an owner was lost, or a member joined
\* while it deleted an account, since it began.
HasOwner == org /\ ~raced => \E u \in Users : role[u] = "OWNER"

\* Deleting an account takes a workspace along only if nobody else is in it, with the same
\* exception.
MembersKeepOrg ==
    [][org /\ ~org' /\ ~raced' /\ (\E s \in Slots : req[s].op = "deleteAccount" /\ req'[s] = None)
       => Cardinality({u \in Users : role[u] # "NONE"}) <= 1]_vars

Others(s) == {t \in Slots \ {s} : req[t].op = "signIn" /\ req[t].by = req[s].by}

\* An invitation is redeemed on the first sign-in with its address: whoever was invited
\* before signing in with a new account is made a member - unless the address had accepted
\* one before, a sign-in was cut short, or another one is redeeming it.  (Who is made a
\* member by this sign-in, removed and invited anew before it ends has only the first.)
InviteRedeemed ==
    [][\A s \in Slots :
         req[s].op = "signIn" /\ ~signed[req[s].by] /\ signed'[req[s].by]
             => \/ ~(req[s].saw /\ awaited'[req[s].by])
                \/ role'[req[s].by] # "NONE" \/ req[s].phase = "accept"
                \/ accepted[req[s].by] \/ used.crashes > 0 \/ Others(s) # {}]_vars

\* Only a workspace of one goes with its last account, and a first sign-in redeems the
\* invitation.
AccountsKeepFaith == MembersKeepOrg /\ InviteRedeemed
=============================================================================
