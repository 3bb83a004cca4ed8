SPECIFICATION Spec
CONSTANTS
    Requests = {r1, r2}
    t = t
    Topics = {t}
    TopicOf <- MCTopicOf
    Kinds = {"Delivery"}
    MaxCopies = 2
    RetriedCodes = {"500"}
    MaxRows = 2
    MaxOpens = 1
    MaxNotes = 2
    MaxFaults = 1
SYMMETRY Symmetry
INVARIANTS ResultsOfOwnEmail TopicAddsUp LostOnlyUnfound
CHECK_DEADLOCK FALSE
