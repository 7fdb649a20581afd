SPECIFICATION Spec
CONSTANTS
  Window = 1
  Timeout <- MCTimeout
  MaxTurns = 2
  MaxSegments = 3
  MaxChunks = 2
  MaxLegs = 2
INVARIANTS
  NeverWedged
  DeliveryInOrder
  ReplyBelongsToTurn
PROPERTIES
  StreamCannotExtendDeadline
  DoneMeansDelivered
  KeepsProtocol
\* A session that has been closed stops.
CHECK_DEADLOCK FALSE
