\* Deadlock: the behaviour ends when an input was chosen.
CONSTANTS
  MAX_PORT = 100
  PORT_SIZE = 4
  OPTIMIZE = TRUE
  MaxRest = 6
  MaxUri = 6
  MaxUrl = 8
  RAND_MAX = 200
  MaxSegments = 5
  Intervals = 12
  MAX_LENGTH = 5
  HUFF_LOOKAHEAD = 3
  BYTE = 3
  DCTSIZE2 = 5
  RUN = 2
  Chosen = {"parse", "jpeg", "url", "index", "blocks", "scan",
            "headers", "bands", "script", "coefficients", "smoothing", "array", "decompressor",
            "write rows", "read rows", "downsample", "upsample", "merged", "plan", "colors",
            "tables", "block", "frequency", "passes", "turn", "copy", "palette", "cube", "shade"}
  total_iMCU_rows = 3
  MaxScans = 2
  MaxUnread = 2
  numrows = 4
  maxaccess = 2
  Values = {v, w}
  Zero = zero
  Junk = junk
  MaxAvailable = 4
  MaxOthers = 1
  MaxPasses = 2
SPECIFICATION Spec
INVARIANT TextIsRead
INVARIANT ScanIsDecoded
INVARIANT StripIsCurrent
INVARIANT OutputArrives
INVARIANT HeadersComeThrough
INVARIANT ScriptIsCarriedOut
INVARIANT CoefficientsInPlace
INVARIANT RowsInPlace
INVARIANT SampledAsPlanned
INVARIANT SamplesComeBack
INVARIANT OptimalTable
INVARIANT TransformedImage
INVARIANT ColorsInPalette
CHECK_DEADLOCK FALSE
