\* Two workers, two places in the queue and three connections, which need not
\* fit; no symmetry, for the liveness properties.
CONSTANTS
  Boss = Boss
  NumWorkers = 2
  Conns = {a, b, c}
  Pill = Pill
  Capacity = 2
  NoItem = NoItem
  NoThread = NoThread
SPECIFICATION FairSpec
INVARIANT PillPerWorker
INVARIANT QueueUsedAsPromised
PROPERTY ServedInOrder
PROPERTY ShutdownCompletes
PROPERTY AcceptedIsClosed
