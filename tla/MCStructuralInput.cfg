SPECIFICATION MCSpec
CONSTANTS
  MaxDepth = 1
  MaxItems = 2
  MaxStringBytes = 2
  MaxCount = 4
  NameBytes = 1
  Fields <- MCFields
  Projections <- MCProjections
INVARIANTS
  ChildrenFirst
  WithinLimits
  OneHolder
  SetsAreSorted
CHECK_DEADLOCK FALSE
