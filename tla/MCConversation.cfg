SPECIFICATION FairSpec
CONSTANTS
  Window = 1
  Timeout <- MCTimeout
  MaxTurns = 2
  MaxSegments = 2
  MaxChunks = 1
  MaxLegs = 1
  Continuation = 1
  ToolHold = 1
  MaxUtterances = 3
INVARIANTS
  CallsAreAnswered
  TurnsInOrder
  AnsweredOnce
  CallMatchesFloor
  WorkIsCurrent
  WaitedForIsUnderWay
PROPERTIES
  TakeBackIsExact
  EveryTurnEnds
  MergedTurnIsFinal
\* A session that has been closed stops.
CHECK_DEADLOCK FALSE
