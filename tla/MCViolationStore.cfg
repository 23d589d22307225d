SPECIFICATION FairSpec
CONSTANTS
  Call = {c1, c2}
  TxnBatchSize = 2
  MaxLen = 5
INVARIANTS
  BatchBounded
  CommittedIsDurable
  VerdictExact
PROPERTIES
  EveryCallReturns
  LogSpec
