SPECIFICATION Spec
CONSTANTS
  p1 = p1
  p2 = p2
  Proc = {p1, p2}
  Flags <- MCFlags
  EngineFlags <- MCEngineFlags
  File <- MCFile
INVARIANTS
  PlaintextOptIn
  SourcesCovered
