\* Two contexts that lock, unlock, and turn the lock off and on in any order.
SPECIFICATION SwitchSpec
CONSTANTS
    Threads = {t1, t2}
    NoThread = NoThread
PROPERTY
    CleanSwitchSyncs
\* A context that takes the port lock again while it holds it waits for ever.
CHECK_DEADLOCK FALSE
