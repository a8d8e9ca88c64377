SPECIFICATION MCSpec
CONSTANTS
  Apps = {"a1", "a2"}
  Local = "local"
  UserHost = "remote"
  Reachable = {"local", "remote"}
  Calls = {"connect", "disconnect"}
  Disciplined = TRUE
  Faults = {"eof"}
  ServerFaults = {}
  BulkSize = 2
  MaxLog = 3
  MaxCalls = 2
  MaxFaults = 1
  MaxAging = 0
PROPERTIES
  OnlyUserReconnects
CHECK_DEADLOCK FALSE
