SPECIFICATION Spec
CONSTANTS
  t1 = t1
  t2 = t2
  Threads = {t1, t2}
  Loggers = {"default", "net", "off"}
  Default = "default"
  Disabled = {"off"}
  Files = {"main", "other"}
  FileOf <- MCFileOf
  Trackers = {"timed", "other timed"}
  TrackerOf <- MCTrackerOf
  Programs <- MCPrograms
  NoStmt = NoStmt
  Occasions <- MCOccasions
  kMaxLogPerCounter = 3
  Threshold = 2
  MaxSize = 2
INVARIANTS
  LinesIntact
  WrittenOnce
  FilesBounded
  Exclusive
  DeadlockNeedsNesting
  OccasionExact
PROPERTIES
  StatementsEnd
CHECK_DEADLOCK FALSE
