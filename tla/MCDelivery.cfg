SPECIFICATION DeliverySpec
CONSTANTS
    Worker = {w1, w2}
    NoWorker = NoWorker
    Attempts = 3
    StallLimit = 1
    App = {a1, a2}
    NoApp = NoApp
    MaxFaults = 2
    MaxLost = 1
    MaxCrashes = 1
    MaxBlocked = 1
    MaxUploads = 1
    MaxUnqueued = 1
    MaxTroubles = 2
    AlertWorker = {w1}
    Evaluator = {v1, v2}
    Channel = {webhook, email}
    Api = Api
    AlertAttempts = 2
    MaxEvents = 2
    MaxChanges = 1
    MaxAlertTroubles = 2
INVARIANT OnceAndTruthful
 
PROPERTY ImplementsLedger
PROPERTY CampaignSettles
PROPERTY EveryAlertTried
CHECK_DEADLOCK FALSE
