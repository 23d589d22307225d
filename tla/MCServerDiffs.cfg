SPECIFICATION Spec
CONSTANTS
  Char <- Chars
  Colon = ":"
  Table <- Tables
  Time <- Times
  Schema <- Schemas
  MaxSaves = 3
  ViolationTable = {1, 2}
  MaxItems = 4
  Parameter <- Parameters
  DefaultLimit = 2
  MaxLimit = 3
  SqlPath <- Paths
INVARIANT
  OnlyChangedTables
CHECK_DEADLOCK FALSE
