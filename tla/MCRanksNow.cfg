SPECIFICATION Spec
CONSTANTS
    Attempts = 2
    OtherJobs = {0, 20}
    MaxHours = 33
    MaxTroubles = 1
INVARIANT RanksNow
CHECK_DEADLOCK FALSE
