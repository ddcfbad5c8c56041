CONSTANTS
  Words <- McWords
  Order <- McOrder
  MetaVals <- McMetaVals
  Cells <- McCells
  Records <- McRecords
  Message <- McMessage
  Allowed <- McAllowed
  MaxCols = 2
  MaxRows = 2
SPECIFICATION Spec
INVARIANTS
  WireKeepsGrid
  CutIsPrefix
  NeverCrashes
  RowsAreRecords
  ColsByName
CHECK_DEADLOCK FALSE
