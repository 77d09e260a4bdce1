SPECIFICATION Spec
CONSTANTS
  w1 = w1
  w2 = w2
  Workers <- MCWorkers
  NoWorker = NoWorker
  RacingStarts = FALSE
  LiveLapses = FALSE
  NumScans = 1
  NumModules = 1
  Inapplicable = {}
  MaxAged = 0
  Env = {"crash"}
INVARIANT
  FindingsStoredOnce
CHECK_DEADLOCK FALSE
