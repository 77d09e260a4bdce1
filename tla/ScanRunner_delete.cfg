SPECIFICATION FairSpec
CONSTANTS
  w1 = w1
  w2 = w2
  Workers <- MCWorkers
  NoWorker = NoWorker
  RacingStarts = FALSE
  LiveLapses = FALSE
  NumScans = 2
  NumModules = 1
  Inapplicable = {}
  MaxAged = 0
  Env = {"delete"}
PROPERTY
  ScanEnds
CHECK_DEADLOCK FALSE
