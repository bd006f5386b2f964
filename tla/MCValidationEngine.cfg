SPECIFICATION FairSpec
CONSTANTS
  MaxDepth = 8
  Graphs <- MCGraphs
  Inputs <- MCInputs
  Outputs <- MCOutputs
  Overrides = {"none", "strict", "lax"}
INVARIANTS
  BracketsMatch
  ReferencesSound
  OptionsInherited
  StackBounded
  ResultConforms
PROPERTIES
  Termination
CHECK_DEADLOCK FALSE
