SPECIFICATION Spec
CONSTANTS
  Column = {"a"}
  Cell <- MCCells
  Blank <- MCBlank
  Number <- MCNumber
  Matching <- MCMatching
  RawRule <- AllRules
  MaxRows = 3
  MaxRules = 2
  Node <- MCNode
  Height <- MCHeight
  Script <- MCScripts
  Garbage <- MCGarbage
  Quoted = 6
  Lower <- MCLower
  ProfileCell <- MCProfileCells
  Value <- MCValue
  NaN = NaN
INVARIANTS
  TypeOK
  FindsAllViolations
  SourcesExact
  GraphExact
  ExcerptWhole
  ProfileExact
CHECK_DEADLOCK FALSE
