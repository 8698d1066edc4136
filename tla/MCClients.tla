------------------------------ MODULE MCClients ------------------------------
(***************************************************************************)
(* What depends on calls that cross a network, in one run: a behaviour is  *)
(* one of a phone and its sessions or of a connection and its syncs, which *)
(* share no state, and leaves the other as it begins.                      *)
(***************************************************************************)
EXTENDS MobileSession, TLC

CONSTANTS
    Link, Connector, Attempts, ErrorLimit, MaxSyncs, MaxUnqueued, MaxTests, MaxRefreshes,
    MaxAdmin, MaxUnlinks, MaxCrashes, MaxSyncTroubles

VARIABLES
    component, \* the one that takes the steps
    conn, link, runs, exec, tester, dirty, epoch, spent

syncVars == <<conn, link, runs, exec, tester, dirty, epoch, spent>>

C == INSTANCE ConnectionSync WITH MaxTroubles <- MaxSyncTroubles, used <- spent

\* Search Ads, and the Play Console.
MCConnector == {[reviews |-> FALSE, google |-> FALSE], [reviews |-> TRUE, google |-> TRUE]}

\* Links and requests are the same model values: no state has both.
Symmetry == Permutations(Slot) \union Permutations(Request \union Link)

\* A connection at rest is of one kind.
ClientsInit ==
    /\ component \in {"phone", "connection"}
    /\ Init /\ C!Init
    /\ component = "connection" \/ ~conn.reviews

ClientsNext ==
    /\ UNCHANGED component
    /\ \/ component = "phone" /\ Next /\ UNCHANGED syncVars
       \/ component = "connection" /\ C!Next /\ UNCHANGED vars

ClientsSpec == ClientsInit /\ [][ClientsNext]_<<component, vars, syncVars>>

\* What was written gets derived.
DeriveFollowsWrites == C!DeriveFollowsWrites

\* A connection that is switched off starts no sync.
NoSyncOnceDisabled == C!NoSyncOnceDisabled

\* Every run ends as long as no process dies, and its verdict says whether a link could be
\* fetched.
RunsEndFairly == C!RunsEndFairly
==============================================================================
