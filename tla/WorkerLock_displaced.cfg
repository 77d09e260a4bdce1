SPECIFICATION WitnessSpec
CONSTANTS
  w1 = w1
  w2 = w2
  w3 = w3
  w4 = w4
  Workers <- MCWorkers
  NoWorker = NoWorker
  RacingStarts = TRUE
  LiveLapses = TRUE
INVARIANT SecondWorkerNeedsAccident
PROPERTY DisplacedStaysDisplaced
CHECK_DEADLOCK FALSE
