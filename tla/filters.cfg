CONSTANTS
  Words <- McWords
  Databases <- McDatabases
  Ascending <- McAscending
  Alphabetic <- McAlphabetic
  Paths <- McPaths
  Asked <- McAsked
  MaxAsked = 3
SPECIFICATION Spec
INVARIANTS
  PrintsBack
  SelectsMeant
  OrderDecides
CHECK_DEADLOCK FALSE
