SPECIFICATION MCSpec
CONSTANTS
  Faults = {"refuse", "resolve", "writeerr", "writetimeout", "eof", "readerr", "readtimeout"}
  MaxSends = 3
INVARIANTS
  RepeatedOnlyForThrowingHandler
  EndsAsPromised
PROPERTIES
  SendEnds
