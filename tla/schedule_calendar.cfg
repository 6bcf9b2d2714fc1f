SPECIFICATION CacheSpec
CONSTANTS
    NULL = NULL
    summer = summer
    autumn = autumn
    ta = ta
    tb = tb
    Publications = {summer, autumn}
    Covers <- Windows
    Trips = {ta, tb}
    Knows <- TripsOf
    Forced = FALSE
    Failures = TRUE
    MaxDay = 2
    MaxId = 2
INVARIANTS
    DatesMatchTimes
