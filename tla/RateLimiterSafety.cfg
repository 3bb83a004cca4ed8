SPECIFICATION FairSpec
CONSTANTS
    MaxPerSec = 3
    TicksPerSec = 2
    ClockSteps <- MCClockSteps
    MaxAdjustments = 2
INVARIANTS TypeOK Budget RateBound
PROPERTIES TokenEventually PermitEventually
