SPECIFICATION Spec
CONSTANTS
  Source <- Sources
  MaxRows = 2
  Null = Null
INVARIANTS
  LoadsAllOrNothing
  CellsUnderTheirKeys
  WideRowsReachEngine
CHECK_DEADLOCK FALSE
