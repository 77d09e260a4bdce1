SPECIFICATION CancelSpec
CONSTANTS
  scope1 = scope1
  scan1 = scan1
  NoScope = NoScope
  NoScan = NoScan
  NoPort = NoPort
  ScopeIds <- MCScopes
  Scans <- MCScans
  Hosts = {}
  Addresses <- MCAddresses
  BaseRanges <- MCNets
  OptIns = {}
  OptInRanges <- MCOptInRanges
  Untouchable = {}
  SpecialClasses = {}
  LocalRanges <- MCNets
  MaxNetwork = 8
  Payloads <- MCPayloads
  Targets <- MCTargets
  Answers <- MCAnswers
  Ports = {1, 2, 3}
  TlsPorts = {1}
  IPv6Networks <- MCIPv6
  MaxChanges = 1
  Requested <- MCRequested
  WaveSize = 2
  MaxExpanded = 4
  Tried = {1, 2, 4, 5, 6, 7}
  Strays = {2, 4}
INVARIANTS
  ReportedWasProbed
  NoSilentGap
  NothingHeldBetweenModules
  CancelOverrunBounded
PROPERTIES
  ModulesUseTheGuard
CHECK_DEADLOCK FALSE
