SPECIFICATION FairSpec
CONSTANTS
    MainMax = 6
    OutputMax = 2
    NbiotMax = 2
    FileMax = 1
    Batch = 2
    V_INIT = 350
    V_STEP = 0
    UINT_MOD = 4096
    MSG_ID_MAX = 3
    Garbage = {0, 4095}
    Days = {13}
    AdcFaults = FALSE
    XPT2046_USE_GPIO_INT = FALSE
    TouchMax = 1
    Targets = {0, 6, 7}
    Saved = {}
    Csqs = {}
    Dates = {}
    Online = FALSE
    Loads = {1370}
    Weights = {7, 682}
    Glitches = {}
    MaxParts = 4
    MaxClicks = 3
    Threads = {"touch", "gui", "file"}
INVARIANTS TypeOK CountedOnce NeverDeaf GlitchesMasked MeasuresOwnPart RoomForSignal
PROPERTY BatchCompletes
