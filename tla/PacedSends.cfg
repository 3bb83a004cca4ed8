SPECIFICATION Spec
CONSTANTS
    Emails = {e1, e2, e3}
    MaxRetries = 2
    MaxPerSec = 1
    TicksPerSec = 2
    ClockSteps <- MCClockSteps
    MaxAdjustments = 1
INVARIANTS PermitsHeld CallsPaced
PROPERTIES EveryEmailAnswered
