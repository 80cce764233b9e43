CONSTANTS
  Origins = {"foreign"}
  Inbound = {"rabbit"}
  Outbound = {"rabbit"}
  Forms = {"exact", "other"}
  AppNames = {"app"}
  AppValues = {"plain", "multiline"}
  Unfit = {"multiline"}
SPECIFICATION Journey
INVARIANTS
  StableLogicalId
CHECK_DEADLOCK FALSE
