SPECIFICATION Spec
CONSTANTS
  t1 = t1
  t2 = t2
  k1 = k1
  NoTask = NoTask
  Tasks <- MCTasks
  Keys <- MCKeys
  Limit = 2
  Window = 3
  MaxAttempts = 2
  DefaultTtl = 3
  NegativeTtl = 1
INVARIANTS
  WindowRespected
  CachedIsGenuine
PROPERTY
  LookupEnds
