SPECIFICATION Spec
CONSTANTS
  spark = spark
  thor = thor
  Requests = {"one", "two"}
  Boxes = {spark, thor}
  Here = spark
  Capacity <- Measured
  Refreshed = {thor}
  MaxOthers = 1
INVARIANT ServedOnce
