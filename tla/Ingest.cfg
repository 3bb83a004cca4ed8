SPECIFICATION FairSpec
CONSTANTS
    c1 = c1
    c2 = c2
    c3 = c3
    Calls <- MCCalls
    Messages <- MCMessages
    Recipients <- MCRecipients
    ChunkSize = 2
    MaxEmails = 3
    MaxId = 4
INVARIANTS TypeOK IdsNameOwnRows OwnContent AllOrNothing OrphansExplained
PROPERTIES EveryCallEnds
CHECK_DEADLOCK FALSE
