SPECIFICATION Spec
CONSTANTS
    Rows = {onTime, late}
    CountableRows = {onTime, late}
    WeekDays = 1
    MonthDays = 4
    Ahead = 1
    Behind = 1
    RetainDays = 1
    BackfillDays = 1
    MonthlyAge = 1
    AnyDate = FALSE
    MaxDay = 2
SYMMETRY RowSymmetry
INVARIANTS
    EvictedIsRolledUp
    NoStrayRows
PROPERTIES
    RollupsNeverShrink
