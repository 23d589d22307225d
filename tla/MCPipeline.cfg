SPECIFICATION LoggedFairSpec
CONSTANTS
  Run = {r1, r2}
  MaxSources = 2
  MaxFound = 2
CONSTRAINT OneIsShort
INVARIANTS
  ResultsTruthful
  TempFileLifetime
  AlertsBacked
  RecordedAgrees
  CancelStopsIngest
PROPERTIES
  SavesLogged
  CancelledRunEnds
