\* One context, every order of lock, unlock, disable and enable.
SPECIFICATION SwitchSpec
CONSTANTS
    Threads = {t1}
    NoThread = NoThread
PROPERTY
    EnableSyncs
CHECK_DEADLOCK FALSE
