\* Liveness: two clients, each with a watch of its own that it closes at will.
CONSTANTS
    Workers = {p1, p2}
    Wids = {w1, w2}
    Strays = {}
    Recs = {a}
    Points = {a}
    BadIds = {}
    DefaultLease = 2
    Requests <- OwnRequests
SPECIFICATION FairSpec
PROPERTIES RegistrySpec OpenOutlivesTicks ClosedIsCollected RequestsFinish
CHECK_DEADLOCK FALSE
