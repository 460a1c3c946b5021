SPECIFICATION RtFairSpec
CONSTANTS
    t1 = t1
    t2 = t2
    t3 = t3
    m = m
    s = s
    b = b
    q = q
    e = e
    e1 = e1
    e2 = e2
    Events = {e}
    Bits = {e1, e2}
    Asks <- MCAsks
    x1 = x1
    x2 = x2
    Queues = {q}
    Blocks = {x1, x2}
    Flags <- MCFlags
    Threads = {t1, t2}
    Idle = idle
    Objects <- MCObjects
    Mutexes = {m}
    Sems = {s}
    NoObject = nobj
    NoThread = nt
    NoPrio = np
    Lowest = 4
    Base <- MCBase
    MaxHold = 1
    MaxCount = 0
    Boxes = {b}
    ThreadMail = mt
    IsrMail = mi
    BoxSize = 2
    NoMail = nomail
    Consumers <- MCConsumers
    Programs <- MCMutex
    Sleepers <- MCSleepers
PROPERTY
    UrgentTimedWaitEnds
