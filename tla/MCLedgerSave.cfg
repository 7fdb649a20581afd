SPECIFICATION Spec
CONSTANTS
  a = a
  b = b
  c = c
  name = name
  Boxes = {a, b}
  Names = {name}
  Seeds <- Mutual
  Uptime <- Together
  Duration = 2
  MaxTime = 3
  MaxRestarts = 0
INVARIANT DecisionIsSaved
