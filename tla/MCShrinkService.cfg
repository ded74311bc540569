\* Deadlock: there are no more calls, or the process has ended.
CONSTANTS
  Height = 2
  MaxCalls = 2
  MaxMarkers = 6
  RawSize = 5
  SizeLimit = 4
  Enlargement = 2
  MaxBytes = 2
SPECIFICATION Spec
INVARIANT NeverMisused
INVARIANT NothingHeld
INVARIANT FinalIsLength
PROPERTY CallEnds
CHECK_DEADLOCK FALSE
