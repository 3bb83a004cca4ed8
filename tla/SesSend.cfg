SPECIFICATION FairSpec
CONSTANTS
    Emails = {e1}
    MaxRetries = 3
    WireAttempts = 3
INVARIANTS SentIsTraceable CopiesBounded IInv
PROPERTIES NothingNewAfterAnswer EverySendReturns KeepsPromise
CHECK_DEADLOCK FALSE
