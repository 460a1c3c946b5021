\* elog_start and elog_stop race with log calls and flushes.
SPECIFICATION SwitchSpec
CONSTANTS
    Threads = {t1, t2}
    NoThread = NoThread
    BufSize = 3
    LineLens = {2}
    MaxCalls = 2
    MaxRows = 2
SYMMETRY ThreadSymmetry
INVARIANT
    LinesInOrder
PROPERTY
    NothingLost
CHECK_DEADLOCK FALSE
