\* dri_ClockConfig_Init with SYSCLK lagging behind the switch, and any order of
\* requests; the former ends.
SPECIFICATION Spec
CONSTANTS
    Calls <- McCalls
    Chips = {"old", "new"}
    Modes <- McModes
CHECK_DEADLOCK FALSE
INVARIANTS
    ClockLimits
    SuccessMeansClock
    ClockAlive
    HseFailureKeepsMsi
PROPERTIES
    ConfigReturns
