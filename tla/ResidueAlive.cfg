SPECIFICATION MCSpec
CONSTANTS
  Apps = {"a1", "a2"}
  Local = "local"
  UserHost = "remote"
  Reachable = {"remote"}
  Calls = {"connect", "disconnect", "reconnect", "load"}
  Disciplined = TRUE
  Faults = {}
  ServerFaults = {"reject", "unreadable", "empty"}
  BulkSize = 2
  MaxLog = 3
  MaxCalls = 4
  MaxFaults = 1
  MaxAging = 0
INVARIANTS
  NoAbort
  FlushedOnDisconnect
PROPERTIES
  CallsReturn
