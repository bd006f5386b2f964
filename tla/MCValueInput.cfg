SPECIFICATION Spec
CONSTANTS
  Adapters = {"json", "native"}
  MaxDepth = 2
  MaxNodes = 5
  MaxItems = 2
  MaxStringBytes = 4
  MaxCount = 3
  KeyBytes = 1
  TextBytes = 2
  Keys <- MCKeys
INVARIANTS
  WellFormed
  WithinLimits
  PathIsPosition
CHECK_DEADLOCK FALSE
