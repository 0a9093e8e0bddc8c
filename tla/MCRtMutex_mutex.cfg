SPECIFICATION MutexSpec
CONSTANTS
    main = main
    mid = mid
    low = low
    idle = idle
    None = None
    Threads = {main, mid, low, idle}
    Users = {main, mid, low}
    init_priority <- MCPriority
    init_tick = 1
    IpcObjects = {1, 2}
    Mutexes = {1, 2}
    Flag <- MCFlag
    WaitTimes <- MCWaits
    TickMod = 5
    Sleeps = {1}
    Busy = {low}
    MaxNest = 0
    MaxHeld = 2
INVARIANTS PriorityRestored OwnerBoosted UrgentRuns
VIEW Live
