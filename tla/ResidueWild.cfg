SPECIFICATION MCSpec
CONSTANTS
  Apps = {"a1"}
  Local = "local"
  UserHost = "remote"
  Reachable = {"local", "remote"}
  Calls = {"connect", "disconnect", "reconnect", "wait"}
  Disciplined = FALSE
  Faults = {"refuse", "resolve", "writeerr", "writetimeout", "eof", "readerr", "readtimeout"}
  ServerFaults = {"reject", "unreadable", "empty"}
  BulkSize = 2
  MaxLog = 2
  MaxCalls = 3
  MaxFaults = 2
  MaxAging = 2
INVARIANTS
  NeverPopsEmpty
  HandshakeExclusive
  RunningMeansThread
PROPERTIES
  KeepsPromise
CHECK_DEADLOCK FALSE
