\* Seven stretches of 25 days, ranges in a zone east of the machine's.
CONSTANTS
    Starts <- MCStarts
    Span = 600
    LocalOffset = 5
    ZoneOffset = 10
SPECIFICATION Spec
INVARIANTS RangesTile NowIsInRange
PROPERTY RangesAdvance
CHECK_DEADLOCK FALSE
