SPECIFICATION FairSpec
CONSTANTS
    r1 = r1
    r2 = r2
    r3 = r3
    r4 = r4
    t1 = t1
    t2 = t2
    h1 = h1
    h2 = h2
    Requests = {r1, r2, r3}
    Handlers = {h1}
    Topics = {t1, t2}
    TopicOf <- MCTopicOf
    SendBuffer = 1
    PostBuffer = 1
    Permits = 1
    FlushSize = 2
    ClaimLimit = 1
    Disruptions = {"db", "disconnect", "shutdown", "crash"}
    MaxDisruptions = 2
PROPERTIES EventuallySettled CreatedArePickedUp HandlersRespond DrainEnds
