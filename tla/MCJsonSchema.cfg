SPECIFICATION Spec
CONSTANTS
  MaxDepth = 3
  MaxNodes = 12
  SafeInteger = 5
  Names = {"a", "b", "c", "tree", "unused"}
  Numerals <- MCNumerals
  Patterns <- MCPatterns
  Schemas <- MCSchemas
  Inputs <- MCInputs
INVARIANTS
  Closed
  Verdict
  DescribesInput
  
PROPERTIES
  WorklistKept
CHECK_DEADLOCK FALSE
