SPECIFICATION MCSpec
CONSTANTS
  Arenas <- MCArenas
  Text <- MCText
  Capacity = 24
  Jobs <- MCJobs
  Slots = {1}
  Answers <- MCAnswers
INVARIANTS
  Expanded
  ScalarsAsDescribed
  HandedOver
  Outcome
CHECK_DEADLOCK FALSE
