SPECIFICATION FairSpec
CONSTANTS
    r1 = r1
    r2 = r2
    l1 = l1
    l2 = l2
    x = x
    y = y
    Run = {r1, r2}
    Lane = {l1, l2}
    Term = {x, y}
    NoTask = NoTask
    NoTerm = NoTerm
    Task <- MCTask
    Root <- MCRoot
    Children <- MCChildren
    Depth <- MCDepth
    Suggest <- MCSuggest
    RunOf <- MCRunOf
    Serves <- MCServes
    Threshold = 2
    MaxDepth = 2
    MaxAttempts = 2
    MaxErrors = 2
    MaxCrashes = 1
    MaxSleeps = 1
    MaxStops = 1
    MaxTroubles = 2
INVARIANT TypeOK
INVARIANT ClaimUnique
INVARIANT BuriedOnlyWhenSpent
 
 
PROPERTY EveryTaskSettles
CHECK_DEADLOCK FALSE
