SPECIFICATION FairSpec
CONSTANTS
    main = main
    a = a
    b = b
    idle = idle
    Threads = {main, a, b, idle}
    init_priority <- MCPriority
    init_tick = 1
    IpcObjects = {}
    TickMod = 8
    Sleeps = {0, 1, 2}
    Busy = {b}
    MaxNest = 2
INVARIANTS HighestRuns SleepsExactly
PROPERTY RoundRobin
