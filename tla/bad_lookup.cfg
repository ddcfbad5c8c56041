\* An unsub of an unknown watch leaves a null entry behind.
CONSTANTS
    Workers = {p1}
    Wids = {w1}
    Strays = {s1}
    Recs = {a}
    Points = {a}
    BadIds = {}
    DefaultLease = 2
    Requests <- StrayUnsubs
SPECIFICATION Spec
INVARIANT ServerSurvives
CHECK_DEADLOCK FALSE
