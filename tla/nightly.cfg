SPECIFICATION FairSpec
CONSTANTS
    Scheduled = 2
    RetainDays = 1
    MaxDay = 2
    MaxFails = 1
INVARIANTS
    EvictedDaysStayOnRecord
    HeadlineIsCovered
    RebuildsNeverDeadlock
PROPERTIES
    DiagnosisKept
    GapsLeaveTheFigures
    EvictionAwaitsDiagnosis
CHECK_DEADLOCK FALSE
