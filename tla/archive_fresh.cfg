SPECIFICATION Spec
CONSTANTS
    Feeds = {trips, alerts}
    Records = {ra, rb, rc}
    MaxHour = 2
    MaxRuns = 2
    HasUploader = TRUE
    DeleteLocal = TRUE
    SameHourRestart = FALSE
SYMMETRY RecordSymmetry
INVARIANTS
    DurabilityInv
PROPERTIES
    ImplementsLog
CHECK_DEADLOCK FALSE
