\* Two threads log, dump and flush through a buffer shorter than a line.
SPECIFICATION FairSteadySpec
CONSTANTS
    Threads = {t1, t2}
    NoThread = NoThread
    BufSize = 2
    LineLens = {3}
    MaxCalls = 2
    MaxRows = 1
INVARIANTS
    ElogTypeOK
    MutualExclusion
PROPERTIES
    ImplementsPipe
    FlushDelivers
    LogReturns
CHECK_DEADLOCK FALSE
