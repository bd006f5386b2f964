SPECIFICATION Spec
CONSTANTS
  MaxErrors = 2
  SafeInteger = 5
  Failing = "child"
  Code <- MCCode
  Unions <- MCUnions
  Samples <- MCSamples
  TypeOrder <- MCTypeOrder
  Numerals <- MCNumerals
  Patterns <- MCPatterns
INVARIANTS
  ReportContract
  Verdict
  BestWins
  ExactEndsTheLoop
  SmartKeepsStrict
  ValueTellsItsType
CHECK_DEADLOCK FALSE
