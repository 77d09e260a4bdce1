SPECIFICATION Spec
CONSTANTS
  scope1 = scope1
  scan1 = scan1
  name1 = name1
  NoScope = NoScope
  NoScan = NoScan
  NoPort = NoPort
  ScopeIds <- MCScopes
  Scans <- MCScans
  Hosts <- MCHosts
  Addresses <- MCAddresses
  BaseRanges <- MCBase
  OptIns <- MCOptIns
  OptInRanges <- MCOptInRanges
  Untouchable <- MCUntouchable
  SpecialClasses <- MCSpecial
  LocalRanges <- MCLocal
  MaxNetwork = 4
  Payloads <- MCPayloads
  Targets <- MCTargets
  Answers <- MCAnswers
  Tried = {1, 4}
  Ports = {1}
  MaxChanges = 2
INVARIANTS
  TypeOK
  ScopeOfScanExists
  ValidatedMeansAdmitted
  AllowedWasAuthorised
  SocketsAuthorised
  HeldIsRecorded
CHECK_DEADLOCK FALSE
