SPECIFICATION Spec
CONSTANTS
    Requests = {r1, r2, r3, r4}
    MessageIds = {m1, m2}
    Errors = {x1}
    None = None
    FlushSize = 3
    MaxFaults = 3
INVARIANTS BulkIsIndividual OneFaultOneLoss
PROPERTIES ImplementsLog
CHECK_DEADLOCK FALSE
