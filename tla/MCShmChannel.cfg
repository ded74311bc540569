\* Blocks of two bytes: the content takes three pieces, the last one shorter.
CONSTANTS
  BlockSize = 2
  HeaderLength = 2
  ContentLength = 5
  MaxRequests = 2
SPECIFICATION FairSpec
INVARIANT InOrder
INVARIANT WholeWhenFinished
PROPERTY ReaderFinishes
PROPERTY WorkerReturns
