SPECIFICATION Spec
CONSTANTS
  Hosts <- MCHosts
  LOCALHOST <- MCLOCALHOST
  KnownClients <- MCKnownClients
  Configurations <- MCConfigurations
  kErrors = 3
  MaxSessions = 3
  MaxCalls = 5
  MaxErrors = 6
INVARIANTS
  LatestErrors
  RequestsBelong
  LoggingWhereGranted
  HandshakesReadable
CHECK_DEADLOCK FALSE
