\* Every subscription of up to 5 ids, every set of victims.
CONSTANTS
    Elems = {a, b, c}
    MaxLen = 5
SPECIFICATION EraseSpec
INVARIANTS LoopAgrees OneIdIsRemoved
CHECK_DEADLOCK FALSE
