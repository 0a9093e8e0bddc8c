SPECIFICATION FairSpec
CONSTANTS
    Garbage <- AnyGarbage
    NetDates <- ServerDates
    Days <- TwoDays
    MainMax = 6
    FileMax = 2
    MaxTotal = 1
    MaxCrashes = 2
INVARIANTS
    LogIsSnapshot
PROPERTIES
    LogWrittenOnce
    CountsKept
    BlankLogFilled
CHECK_DEADLOCK FALSE
