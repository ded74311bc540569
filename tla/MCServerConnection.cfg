\* Two connections of up to two lines; the worker stops after the second.
CONSTANTS
  NumConns = 2
  MaxLines = 2
SPECIFICATION ConnectionSpec
CHECK_DEADLOCK FALSE
INVARIANT AnsweredForOwnLines
