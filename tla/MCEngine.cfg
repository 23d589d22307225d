SPECIFICATION FairSpec
CONSTANTS
  Call = {c1, c2}
  Analyzing = {c2}
  MaxFound = 2
  BinIsAbsolute = TRUE
  MaxMsg = 1
  PoolSize = 1
  CsvPath <- CsvPaths
  RulesPath <- RulesPaths
PROPERTIES
  CheckerSpec
  EveryCallReturns
CHECK_DEADLOCK FALSE
