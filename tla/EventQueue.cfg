SPECIFICATION FairQueueSpec
CONSTANTS
    p1 = p1
    p2 = p2
    c1 = c1
    c2 = c2
    d1 = d1
    d2 = d2
    Producers = {p1, p2}
    Consumers = {c1, c2}
    Timed = {c2}
    Ids = {d1, d2}
    Kind = "Buffered"
    MaxPushes = 4
PROPERTIES
    EventuallyDrained
    ShutdownReleases
INVARIANTS
    NobodySleepsOverEvents
    NobodySleepsThroughShutdown
