SPECIFICATION Spec
CONSTANTS
  MaxDepth = 4
  MaxNodes = 20
  MaxItems = 4
  MaxStringBytes = 20
  MaxOutput = 24
  Dumps <- MCDumps
  PlanOf <- SchemaPlan
  Structural <- DumpedValue
  JsonOf <- NativeJson
INVARIANTS
  Agreement
  FailureIsDeserved
  OnlyProjectionsComplete
CHECK_DEADLOCK FALSE
