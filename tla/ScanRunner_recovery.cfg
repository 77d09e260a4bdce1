SPECIFICATION ExportSpec
CONSTANTS
  w1 = w1
  w2 = w2
  Workers <- MCWorkers
  NoWorker = NoWorker
  RacingStarts = FALSE
  LiveLapses = FALSE
  NumScans = 1
  NumModules = 2
  Inapplicable = {2}
  MaxAged = 0
  Pages <- MCPages
  Env = {"crash", "delete", "untyped", "collide"}
INVARIANTS
  NoOrphanedModule
  VerdictMatchesModules
  DoneFindingsStored
  FinishedViewIsSettled
  PromisedFindingsShown
  ReasonIsExplained
PROPERTY
  QueuedCancelSticks
CHECK_DEADLOCK FALSE
