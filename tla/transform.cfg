SPECIFICATION Spec
CONSTANTS
    NULL = NULL
    night = night
    extra = extra
    bus = bus
    Before <- Standard
    After <- Daylight
    Transition <- Spring
    Trips = {night, extra}
    Vehicles = {bus}
    Static <- Timetable
    Feeds <- SmallFeeds
    Headers <- SmallHeaders
    Freshest = 1
INVARIANTS
    BestReportsKept
    DelaysAreReal
    BucketsFollowTimetable
CHECK_DEADLOCK FALSE
