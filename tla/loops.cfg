SPECIFICATION FairSpec
CONSTANTS
    trips = trips
    alerts = alerts
    Feeds = {trips, alerts}
    Interval <- SmallIntervals
    FetchTimeout = 1
    MaxRetries = 1
    BackoffBase = 2
    BackoffMax = 2
    StoreMax = 1
    RecordMax = 1
    CloseMax = 1
    StopTimeouts = {3, 8}
INVARIANTS
    StopBoundedByPoll
    StopsBeforeKill
PROPERTIES
    PollsPaced
    SignalLeadsToEnd
    LoopsGoOn
CHECK_DEADLOCK FALSE
