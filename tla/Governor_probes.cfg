SPECIFICATION FairRateSpec
CONSTANTS
  t1 = t1
  t2 = t2
  t3 = t3
  h1 = h1
  h2 = h2
  NoTask = NoTask
  NoHost = NoHost
  Tasks <- MCTasks
  Hosts <- MCHosts
  GlobalConc = 2
  HostConc = 1
  Rate = 2
  ScanBudget = 2
  HostBudget = 2
  MaxBackoff = 2
INVARIANTS
  PermitsConserved
  ConcurrencyCeiling
  BudgetOverrunBounded
  BurstBounded
PROPERTY
  ProbeEnds
