SPECIFICATION Spec
CONSTANTS
    MaxTime = 6
    YearStart <- MCYearStart
    Period <- MCPeriod
    Keep <- MCKeep
INVARIANTS
    GenerationsKept
    NewestDumpSafe
    SuccessMeansBackup
    SelectionIsTheRule
CHECK_DEADLOCK FALSE
