SPECIFICATION Spec
CONSTANTS
  MaxDepth = 3
  MaxNodes = 12
  SafeInteger = 5
  Names = {"a", "b", "c", "tree", "unused"}
  Numerals <- MCNumerals
  Patterns <- MCPatterns
  Schemas <- UnionSchemas
  Inputs <- MCInputs
INVARIANTS
  DescribesOutput
CHECK_DEADLOCK FALSE
