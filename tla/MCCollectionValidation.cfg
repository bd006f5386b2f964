SPECIFICATION IteratorSpec
CONSTANTS
  MaxErrors = 2
  MaxParts = 3
  MaxItems = 3
  Bounds <- MCBounds
  Alone <- MCAlone
  MaxFound = 3
  k1 = k1
  k2 = k2
  Unhashable = Unhashable
  Keys <- MCKeys
  Code <- MCCode
  Collections <- MCCollections
INVARIANTS
  ReportContract
  NoPartVanishes
  ValidOutput
  PullsAgree
PROPERTIES
  StreamKept
CHECK_DEADLOCK FALSE
