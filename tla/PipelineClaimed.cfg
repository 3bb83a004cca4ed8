SPECIFICATION Spec
CONSTANTS
    r1 = r1
    r2 = r2
    r3 = r3
    r4 = r4
    t1 = t1
    t2 = t2
    h1 = h1
    h2 = h2
    Requests = {r1, r2, r3}
    Handlers = {h1, h2}
    Topics = {t1, t2}
    TopicOf <- MCTopicOf
    SendBuffer = 1
    PostBuffer = 1
    Permits = 2
    FlushSize = 2
    ClaimLimit = 2
    Disruptions = {"db"}
    MaxDisruptions = 1
SYMMETRY Symmetry
PROPERTIES ClaimedAreForwarded
