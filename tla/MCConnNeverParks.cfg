SPECIFICATION Spec
CONSTANTS
    Link = {l1, l2}
    Slot = {s1}
    Connector <- MCConnector
    Attempts = 2
    ErrorLimit = 2
    MaxSyncs = 2
    MaxFaults = 4
    MaxUnqueued = 0
    MaxTests = 0
    MaxRefreshes = 0
    MaxAdmin = 0
    MaxUnlinks = 0
    MaxCrashes = 0
    MaxTroubles = 4
INVARIANT FailingParks
CHECK_DEADLOCK FALSE
