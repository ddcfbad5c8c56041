\* Two workers that find nothing built, and a host name that may not be found.
CONSTANTS
    Threads = {t1, t2}
    OpNames <- MCOpNames
    Tags <- MCTags
    HostNameMayFail = TRUE
SPECIFICATION Spec
SYMMETRY Symmetric
INVARIANTS TypeOK TableSettles AboutAllOrNothing GridIsWhole KeptGridLives
CHECK_DEADLOCK FALSE
