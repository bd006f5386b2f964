SPECIFICATION Spec
CONSTANTS
  MaxDepth = 4
  MaxNodes = 20
  MaxItems = 4
  MaxStringBytes = 20
  MaxOutput = 24
  Dumps <- MCRepeated
  PlanOf <- SchemaPlan
  Structural <- DumpedValue
  JsonOf <- NativeJson
INVARIANTS
  NothingIsLost
CHECK_DEADLOCK FALSE
