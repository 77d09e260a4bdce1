SPECIFICATION Spec
CONSTANTS
  w1 = w1
  w2 = w2
  Workers <- MCWorkers
  NoWorker = NoWorker
  RacingStarts = FALSE
  LiveLapses = FALSE
  NumScans = 2
  NumModules = 1
  Inapplicable = {}
  MaxAged = 1
  Env = {"crash", "delete", "refuse"}
INVARIANTS
  TypeOK
  LockInv
  AtMostOneWorker
  ExecutesOwnClaim
  NoOrphanedScan
PROPERTIES
  FinishedStaysFinished
  ImplementsQueue
CHECK_DEADLOCK FALSE
