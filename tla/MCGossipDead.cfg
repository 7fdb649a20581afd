SPECIFICATION FairSpec
CONSTANTS
  spark = spark
  thor = thor
  orin = orin
  Boxes = {spark, thor, orin}
  MissedMax = 2
  Seeds <- Star
  MaxChanges = 1

PROPERTY DeadIsForgotten
