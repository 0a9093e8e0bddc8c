SPECIFICATION Spec
CONSTANTS
    t1 = t1
    t2 = t2
    t3 = t3
    m1 = m1
    m2 = m2
    None = None
    Threads = {t1, t2, t3}
    Handlers = {t3}
    Values = {m1, m2}
    MaxMsgs = 2
    Timeouts = {"none", "ticks", "forever"}
INVARIANTS ListsSound BlocksConserved NoLostWakeup
VIEW Live
PROPERTY IsBoundedQueue
