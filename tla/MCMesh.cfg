SPECIFICATION FairSpecFromOne
CONSTANTS
  spark = spark
  thor = thor
  Boxes = {spark, thor}
  MissedMax = 2
  Identities = {"one", "two"}
  Serves <- Some
  Threads = {"request"}
  MaxFaults = 1
PROPERTIES
  HealthyStays
  LiveIsRouted
  GoneIsNotRouted
