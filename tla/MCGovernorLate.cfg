SPECIFICATION FairSpec
CONSTANTS
  Temps <- MCTemps
  Steps <- MCSteps
  PauseAt = 4
  ResumeAt = 2
  ResumeCpus = 4
  MaxLate = 1
PROPERTIES
  EveryPauseIsLifted
