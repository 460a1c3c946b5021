\* SystemInit with an HSE that does not start, the start-up code and main.
SPECIFICATION BootSpec
CONSTANTS
    Calls = {}
    Chips = {"new"}
    Modes <- BootModes
INVARIANT
    TickFromCoreClock
\* main's endless loop changes nothing.
CHECK_DEADLOCK FALSE
