SPECIFICATION FairSpec
CONSTANTS
    Worker = {w1, w2}
    NoWorker = NoWorker
    Attempts = 3
    StallLimit = 1
    App = {a1, a2}
    NoApp = NoApp
    MaxFaults = 3
    MaxLost = 0
    MaxCrashes = 0
    MaxBlocked = 0
    MaxUploads = 0
    MaxUnqueued = 0
    MaxTroubles = 3
PROPERTY CampaignSettles
CHECK_DEADLOCK FALSE
