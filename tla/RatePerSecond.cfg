SPECIFICATION FairSpec
CONSTANTS
    MaxPerSec = 3
    TicksPerSec = 2
    ClockSteps <- MCClockSteps
    MaxAdjustments = 0
INVARIANTS SendsPerSecond
