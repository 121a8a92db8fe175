SPECIFICATION Spec
CONSTANTS
  Pages <- MCPages
  Estimated <- MCEstimated
  Versions <- MCVersions
  Fallbacks <- MCFallbacks
  Backends <- MCBackends
  RetryLimit = 2
  MaxFault = 2
  MaxVisit = 1
INVARIANTS TypeOK NeverLost InLibrary AcceptedOnly
PROPERTIES WriteOnce Rests
CHECK_DEADLOCK FALSE
