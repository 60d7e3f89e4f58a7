CONSTANTS
    WordSize = 4
    TicksPerSec = 3
    MsPerTick = 2
    TickArgs = {0, 1, 3, 6}
    SecArgs = {1, 2}
    MsArgs = {1, 3}
    MaxTick = 14
SPECIFICATION Spec
INVARIANTS
    EarlyWakeExplained
    NothingLeftInService
PROPERTIES
    TimerServed
    Wakes
