SPECIFICATION Spec
CONSTANTS
    MainMax = 2
    OutputMax = 1
    NbiotMax = 1
    FileMax = 1
    Batch = 2
    V_INIT = 0
    V_STEP = 0
    UINT_MOD = 1
    MSG_ID_MAX = 0
    Garbage = {0}
    Days = {13}
    AdcFaults = TRUE
    XPT2046_USE_GPIO_INT = TRUE
    TouchMax = 1
    Targets = {}
    Saved = {}
    Csqs = {}
    Dates = {}
    Online = FALSE
    Loads = {1}
    Weights = {0}
    Glitches = {37, 34}
    MaxParts = 2
    MaxClicks = 1
    Threads = {"touch", "file"}
INVARIANTS CountdownSound
PROPERTIES BatchAtomic
CHECK_DEADLOCK FALSE
