SPECIFICATION Spec
CONSTANTS
  Global = "Global"
  Explicit = {"Info", "Debug"}
  OwnTypes = {"Enabled"}
  SharedTypes = {"SubsecondPrecision"}
  Values <- MCValues
  Factory <- MCFactory
  Remaining <- MCRemaining
  None = "none"
  Null = "null"
  MaxCalls = 4
INVARIANTS
  GlobalLeads
  LookupAgrees
  CopyFaithful
  WritesWhereItCan
