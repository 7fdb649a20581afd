SPECIFICATION FairRouteSpec
CONSTANTS
  Window = 1
  Timeout <- MCTimeout
  MaxTurns = 2
  MaxSegments = 1
  MaxChunks = 1
  MaxLegs = 0
  Continuation = 1
  ToolHold = 1
  MaxUtterances = 3
  MaxStretches = 2
INVARIANTS
  RouteTypeOK
  WholeTurnIsTranscribed
  AdoptedAnswersItsTurn
PROPERTIES
  IsConversation
  TranscriptionEnds
\* A session that has been closed stops.
CHECK_DEADLOCK FALSE
