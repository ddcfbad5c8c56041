\* Two clients that keep to their own watches.
CONSTANTS
    Workers = {p1, p2}
    Wids = {w1, w2}
    Strays = {}
    Recs = {a, b}
    Points = {a}
    BadIds = {x}
    DefaultLease = 1
    Requests <- PoliteRequests
SPECIFICATION Spec
INVARIANT OnlyStaleIdsKill
CHECK_DEADLOCK FALSE
