SPECIFICATION Spec
CONSTANTS
  MaxDepth = 4
  MaxNodes = 20
  MaxItems = 4
  MaxStringBytes = 20
  MaxOutput = 24
  Dumps <- MCRootModels
  PlanOf <- SchemaPlan
  Structural <- DumpedValue
  JsonOf <- NativeJson
INVARIANTS
  RootIsPublic
CHECK_DEADLOCK FALSE
