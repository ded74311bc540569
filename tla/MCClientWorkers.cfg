\* Two workers with two requests each have three descriptors.
CONSTANTS
  workerPoolSize = 2
  Requests = 2
  MaxFds = 3
  MaxPieces = 1
  NoThread = NoThread
SPECIFICATION FairSpec
INVARIANT StartTogether
INVARIANT SkippedOnlyAfterFailures
INVARIANT ReportIsComplete
PROPERTY ClientFinishes
