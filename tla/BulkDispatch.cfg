SPECIFICATION Spec
CONSTANTS
  Modulus = 16
  TOUCH_THRESHOLD = 3
  Policies <- MCPolicies
  Sizes = {0, 2}
  AutoBulkSize = 2
  Skew <- MCSkew
  Start = 1
  RoundTime = 1
  MaxTime = 6
  MaxLog = 2
  MaxSets = 2
  MaxFaults = 1
INVARIANTS
  WellFormed
  WithinLimit
  BulkOnlyWhereAllowed
  NeverSentExpired
PROPERTIES
  QueueDrains
CHECK_DEADLOCK FALSE
