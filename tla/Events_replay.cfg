SPECIFICATION FairSpec
CONSTANTS
  scan = scan
  ticker = ticker
  browser = browser
  Publishers <- MCPublishers
  Cancellable <- MCTicker
  Clients <- MCClients
  MaxEvents = 3
  MaxDrops = 2
INVARIANTS
  ResumePointIsComplete
  DurableBeforeSent
  NumbersAreDense
PROPERTY
  EveryEventArrives
CHECK_DEADLOCK FALSE
