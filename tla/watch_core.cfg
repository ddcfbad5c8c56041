\* Two clients on one watch, everything they may send.
CONSTANTS
    Workers = {p1, p2}
    Wids = {w1}
    Strays = {s1}
    Recs = {a}
    Points = {a}
    BadIds = {x}
    DefaultLease = 2
    Requests <- AnyRequests
SPECIFICATION Spec
SYMMETRY Symmetric
INVARIANTS TypeOK EraseFinds
PROPERTY RegistrySpec
CHECK_DEADLOCK FALSE
