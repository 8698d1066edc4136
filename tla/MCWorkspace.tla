----------------------------- MODULE MCWorkspace -----------------------------
(***************************************************************************)
(* What a workspace owns, in one run: a behaviour is one of its members    *)
(* and invitations, of a niche of its market radar, or of its budget for   *)
(* the model, and leaves the others as they begin.  They share no state.   *)
(***************************************************************************)
EXTENDS AiBudget, TLC

CONSTANTS
    Users, Slots, MaxRequests, MaxCrashes,
    App, Review, Of, Raises, Wordless, Shown, Limit, BatchSize, MinApps, Builds, Unbuilt,
    MaxBuilds, NicheTroubles

VARIABLES
    component, \* the one that takes the steps
    org, role, account, own, invite, accepted, req, awaited, signed, raced, asked,
    published, stored, analyzed, themes, method, build, paid, crowded, built

orgVars == <<org, role, account, own, invite, accepted, req, awaited, signed, raced, asked>>
nicheVars == <<published, stored, analyzed, themes, method, build, paid, crowded, built>>

O == INSTANCE OrgMembership WITH used <- asked
N == INSTANCE MarketNiche WITH None <- Unbuilt, MaxTroubles <- NicheTroubles, used <- built

\* At rest the organization begins in one way.
WorkspaceInit ==
    /\ component \in {"org", "niche", "budget"}
    /\ Init /\ O!Init /\ N!Init
    /\ component = "org" \/ \A u \in Users : role[u] = "OWNER"

WorkspaceNext ==
    /\ UNCHANGED component
    /\ \/ component = "org" /\ O!Next /\ UNCHANGED <<vars, nicheVars>>
       \/ component = "niche" /\ N!Next /\ UNCHANGED <<vars, orgVars>>
       \/ component = "budget" /\ Next /\ UNCHANGED <<orgVars, nicheVars>>

WorkspaceSpec == WorkspaceInit /\ [][WorkspaceNext]_<<component, vars, orgVars, nicheVars>>

\* An owner is left in the workspace.
HasOwner == O!HasOwner

\* Only a workspace of one goes with its last account, and a first sign-in redeems the
\* invitation.
AccountsKeepFaith == O!AccountsKeepFaith

\* A review of the market is read by the model once.
PaidOnce == N!PaidOnce

\* The themes are those of the reviews the niche's apps have now, and the method names
\* what is missing from them.
ThemesHonest == N!ThemesHonest

-----------------------------------------------------------------------------
(* The instance                                                            *)

\* Two reviews of p, the second of which has no text, and one of q; both apps raise a theme.
MCOf == <<"p", "p", "q">>
MCRaises == <<{"ads"}, {}, {"ads"}>>

\* The users are interchangeable, and so are the requests and the calls.
Symmetry == Permutations(Users) \union Permutations(Slots)
=============================================================================
