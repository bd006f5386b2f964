SPECIFICATION Spec
CONSTANTS
  MaxErrors = 2
  Absent = Absent
  Name <- MCName
  Code <- MCCode
  Cases <- MCCases
INVARIANTS
  ReportContract
  ExtrasAreTheRest
  Verdict
  BuiltModel
CHECK_DEADLOCK FALSE
