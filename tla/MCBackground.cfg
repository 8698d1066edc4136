SPECIFICATION BackgroundSpec
CONSTANTS
    SendHour = 8
    CronTicks = TRUE
    Attempts = 2
    DailyHours = 58
    WeeklyHours = 345
    DailyTroubles = 2
    WeeklyTroubles = 1
    OtherJobs = {0, 20}
    QueueHours = 33
    QueueTroubles = 2
    Process = {p1, p2}
    Key = {k1, k2}
    Reader = {c1}
    Ttl = 1
    MaxSize = 1
    Slow = 1
    CacheTroubles = 1
    Client = {c1, c2}
    Limit = 2
    Window = 2
    MaxCount = 6
    LimitTroubles = 1
    Lane = {l1, l2, l3}
    Interval = 3
    Short = 1
 
PROPERTY Arrives
 
PROPERTY PressHeard
 
 
INVARIANT Paced
CHECK_DEADLOCK FALSE
