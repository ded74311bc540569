\* HandlesDirectoryChanges fails: see README, findings.
CONSTANTS
  MAX_PORT = 100
  PORT_SIZE = 4
  OPTIMIZE = TRUE
  MaxRest = 1
  MaxUri = 1
  MaxUrl = 6
  RAND_MAX = 20
  MaxSegments = 1
  Intervals = 2
  MAX_LENGTH = 5
  HUFF_LOOKAHEAD = 3
  BYTE = 3
  DCTSIZE2 = 5
  RUN = 2
  Chosen = {"url"}
  total_iMCU_rows = 1
  MaxScans = 1
  MaxUnread = 1
  numrows = 1
  maxaccess = 1
  Values = {v}
  Zero = zero
  Junk = junk
  MaxAvailable = 1
  MaxOthers = 0
  MaxPasses = 1
SPECIFICATION Spec
INVARIANT HandlesDirectoryChanges
CHECK_DEADLOCK FALSE
