\* A tick of 8 values: every start value, every delay, every wrap.
SPECIFICATION FairSpec
CONSTANTS
    TickMod = 8
    Requests = {0, 1, 3, 6, 7}
    PrintTicks = 3
    PollTicks = 1
INVARIANTS
    DelayNotLong
PROPERTIES
    DelayNeverShort
    DelayReturns
