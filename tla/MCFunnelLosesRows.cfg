SPECIFICATION Spec
CONSTANTS
    Sync = {s1, s2}
    AppleDays <- MCAppleDays
    PlayDays <- MCPlayDays
    MaxDays = 2
    MaxSyncs = 3
    MaxTroubles = 1
INVARIANT AddsUp
CHECK_DEADLOCK FALSE
