SPECIFICATION FairSpec
CONSTANTS
  Source = {s1}
  MaxFires = 2
  OnDemand = 1
  MaxFound = 1
INVARIANTS
  ClosedAfterJobs
  CleanShutdown
  NoOverlap
  DrainedForGood
PROPERTIES
  SignalEndsDaemon
  EndsWithoutSchedule
  SkipOnlyWhileRunning
CHECK_DEADLOCK FALSE
