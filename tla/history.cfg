CONSTANTS
  Machines <- McMachines
  Instants <- McInstants
  Recs <- McRecs
  Forms <- McForms
SPECIFICATION FairSpec
INVARIANTS
  InsideRange
  KeptMillis
  QuarterHours
PROPERTY
  HistoryEnds
CHECK_DEADLOCK FALSE
