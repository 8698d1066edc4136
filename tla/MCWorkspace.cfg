SPECIFICATION WorkspaceSpec
CONSTANTS
    Users = {a, b, c}
    Slots = {s1, s2}
    Slot = {s1, s2}
    MaxRequests = 3
    MaxCrashes = 1
    App = {"p", "q"}
    Review = {1, 2, 3}
    Of <- MCOf
    Raises <- MCRaises
    Wordless = {2}
    Shown = 2
    Limit = 1
    BatchSize = 1
    MinApps = 2
    Builds = {b1, b2}
    Unbuilt = Unbuilt
    MaxBuilds = 2
    NicheTroubles = 1
    Budget = 2
    Most = 2
    Retries = 1
    MaxCalls = 5
    MaxMonths = 2
    MaxTroubles = 2
SYMMETRY Symmetry
INVARIANT HasOwner
PROPERTY AccountsKeepFaith
INVARIANT PaidOnce
 
INVARIANT OverspendBounded
CHECK_DEADLOCK FALSE
