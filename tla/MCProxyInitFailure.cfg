\* pthread_create may fail for any worker.  The shortest way to the crash is
\* that it fails for the first one, and none exists when teardown joins them.
CONSTANTS
  Boss = Boss
  NumWorkers = 2
  Conns = {a}
  Pill = Pill
  Capacity = 2
  NoItem = NoItem
  NoThread = NoThread
SPECIFICATION Spec
INVARIANT InitFailureIsReported
