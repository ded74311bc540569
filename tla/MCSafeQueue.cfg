\* A boss that puts and two workers that get contend for a ring of two slots.
\* No symmetry: the run checks liveness too.
CONSTANTS
  Producers = {boss}
  Consumers = {w1, w2}
  Items = {s1, s2}
  INITIAL_CAPACITY = 2
  NoItem = NoItem
  NoThread = NoThread
SPECIFICATION FairSpec
INVARIANT RingConsistent
INVARIANT NoLostWakeup
PROPERTY ImplementsFifo
PROPERTY ImplementsFairFifo
