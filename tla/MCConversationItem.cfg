SPECIFICATION Spec
CONSTANTS
  Window = 1
  Timeout <- MCTimeout
  MaxTurns = 2
  MaxSegments = 1
  MaxChunks = 1
  MaxLegs = 0
  Continuation = 1
  ToolHold = 1
  MaxUtterances = 2
PROPERTIES
  CallNamesItsItem
\* A session that has been closed stops.
CHECK_DEADLOCK FALSE
