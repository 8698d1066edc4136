SPECIFICATION ClientsSpec
CONSTANTS
    None = None
    Session = {s1, s2}
    Token = {k1, k2, k3, k4}
    Slot = {i1, i2}
    Request = {q1, q2}
    Link = {q1, q2}
    Connector <- MCConnector
    MaxDrops = 1
    MaxKills = 1
    MaxRemote = 1
    MaxExpiries = 1
    MaxTroubles = 2
    Attempts = 2
    ErrorLimit = 2
    MaxSyncs = 2
    MaxUnqueued = 1
    MaxTests = 1
    MaxRefreshes = 1
    MaxAdmin = 1
    MaxUnlinks = 1
    MaxCrashes = 1
    MaxSyncTroubles = 1
    MaxFaults = 1
SYMMETRY Symmetry
INVARIANT OneChain
 
INVARIANT DeriveFollowsWrites
 
 
CHECK_DEADLOCK FALSE
