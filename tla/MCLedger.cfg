SPECIFICATION FairSpec
CONSTANTS
  a = a
  b = b
  c = c
  name = name
  Boxes = {a, b, c}
  Names = {name}
  Seeds <- Ring
  Uptime <- Apart
  Duration = 2
  MaxTime = 2
  MaxRestarts = 1
INVARIANT OwnDecisionStands
PROPERTY LedgersConverge
