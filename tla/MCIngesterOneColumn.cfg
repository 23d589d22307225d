SPECIFICATION Spec
CONSTANTS
  Source <- OneColumnQueries
  MaxRows = 2
  Null = Null
INVARIANTS
  EveryRowReachesEngine
CHECK_DEADLOCK FALSE
