\* Two workers, one place in the queue, two connections and any number of
\* failures of accept; every client finally speaks.  No symmetry, for the
\* liveness properties.
CONSTANTS
  Boss = Boss
  NumWorkers = 2
  Conns = {a, b}
  BadSocket = BadSocket
  Capacity = 1
  NoItem = NoItem
  NoThread = NoThread
SPECIFICATION SpeakingSpec
PROPERTY ServedInOrder
PROPERTY AcceptedIsServed
PROPERTY ShutDownCompletes
