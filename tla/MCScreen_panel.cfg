SPECIFICATION ScreenSpec
CONSTANTS
    MainMax = 6
    OutputMax = 2
    NbiotMax = 1
    FileMax = 1
    Batch = 1
    V_INIT = 2
    V_STEP = 2048
    UINT_MOD = 4096
    MSG_ID_MAX = 0
    Garbage = {0}
    Days = {13}
    AdcFaults = FALSE
    XPT2046_USE_GPIO_INT = FALSE
    TouchMax = 1
    Targets = {6}
    Saved <- MCSaved
    Csqs <- MCCsqs
    Dates <- MCDates
    Online = TRUE
    Loads = {4}
    Weights = {2}
    Glitches = {}
    MaxParts = 1
    MaxClicks = 1
    Threads = {"touch", "gui", "flush", "nb", "file"}
INVARIANT LcdFresh
VIEW Live
