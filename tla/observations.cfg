SPECIFICATION Spec
CONSTANTS
    NULL = NULL
    stop = stop
    v1 = v1
    v2 = v2
    v3 = v3
    bus = bus
    Keys = {stop}
    ModifiedKeys = {}
    Versions = {v1, v2, v3}
    ScheduledAt <- Schedules
    HourOf <- ClockHours
    DayTypeOf <- Saturday
    Vehicles = {bus}
    Updates <- SmallUpdates
    Stamps = {0, 1}
    StoreMayFail = TRUE
    MaxPolls = 3
    MaxReplays = 1
INVARIANTS
    RowsSummariseReports
    ScheduleFromOneVersion
PROPERTIES
    InformationIsOnlyAdded
    RepeatIsIdempotent
    ReplayConverges
