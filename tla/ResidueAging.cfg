SPECIFICATION MCSpec
CONSTANTS
  Apps = {"a1", "a2"}
  Local = "local"
  UserHost = "remote"
  Reachable = {"remote"}
  Calls = {"connect", "disconnect", "load"}
  Disciplined = TRUE
  Faults = {}
  ServerFaults = {}
  BulkSize = 2
  MaxLog = 3
  MaxCalls = 2
  MaxFaults = 0
  MaxAging = 4
PROPERTIES
  KeepsReliablePromise
