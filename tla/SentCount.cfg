SPECIFICATION Spec
CONSTANTS
    Requests = {r1, r2, r3}
    KstOffset = 3
    KstTimes = {1, 5}
    IdleDelay = 1
    BatchDelay = 1
    ClaimLimit = 1
    ErrorDelay = 2
    EmptyPolls = 1
    Start = 0
    MaxTime = 4
    MaxFaults = 1
SYMMETRY Symmetry
INVARIANT SentAreCounted
CHECK_DEADLOCK FALSE
