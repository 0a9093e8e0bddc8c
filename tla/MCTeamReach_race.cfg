SPECIFICATION Spec
CONSTANTS
    MainMax = 6
    OutputMax = 2
    NbiotMax = 1
    FileMax = 1
    Batch = 2
    V_INIT = 2
    V_STEP = 0
    UINT_MOD = 4096
    MSG_ID_MAX = 1
    Garbage = {0}
    Days = {13}
    AdcFaults = FALSE
    XPT2046_USE_GPIO_INT = TRUE
    TouchMax = 1
    Targets = {0, 6, 7}
    Saved = {}
    Csqs = {}
    Dates = {}
    Online = FALSE
    Loads = {4}
    Weights = {1, 2}
    Glitches = {}
    MaxParts = 4
    MaxClicks = 3
    Threads = {"touch", "file"}
INVARIANTS GlitchesMasked
CHECK_DEADLOCK FALSE
