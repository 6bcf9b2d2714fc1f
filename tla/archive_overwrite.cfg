SPECIFICATION Spec
CONSTANTS
    Feeds = {trips}
    Records = {ra, rb}
    MaxHour = 1
    MaxRuns = 2
    HasUploader = FALSE
    DeleteLocal = FALSE
    SameHourRestart = TRUE
PROPERTIES
    StoredForever
CHECK_DEADLOCK FALSE
