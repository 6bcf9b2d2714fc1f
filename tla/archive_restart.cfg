SPECIFICATION FairSpec
CONSTANTS
    Feeds = {trips, alerts}
    Records = {ra, rb}
    MaxHour = 1
    MaxRuns = 3
    HasUploader = TRUE
    DeleteLocal = TRUE
    SameHourRestart = TRUE
INVARIANTS
    ShardsDecompress
    CleanStopIsComplete
    FiledByHour
PROPERTIES
    OwnRecordsStay
    ShardsAreNew
    SignalLeadsToExit
CHECK_DEADLOCK FALSE
