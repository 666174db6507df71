SPECIFICATION Spec
CONSTANTS
  Flags <- MCFlags
  Contexts <- MCContexts
  FullWeight = 4
  ColumnMax = 7
  UintMod = 16
  IntMod = 64
INVARIANTS RolloutExact LeastPriorityWins AnswerKnown
\* A definition is submitted once.
CHECK_DEADLOCK FALSE
