SPECIFICATION EventSpec
CONSTANTS
    main = main
    a = a
    b = b
    idle = idle
    event = event
    Threads = {main, a, b, idle}
    Receivers = {a, b}
    Senders = {main}
    init_priority <- MCPriority
    init_tick = 1
    IpcObjects = {event}
    Flags = {1, 2}
    Options <- AllOrAny
    Flag = "FIFO"
    WaitTimes <- MCWaits
    TickMod = 5
    Sleeps = {1}
    Busy = {}
    MaxNest = 0
SYMMETRY Twins
INVARIANTS NoneMissed GrantKept
PROPERTY FirstComeFirstServed
CHECK_DEADLOCK FALSE
