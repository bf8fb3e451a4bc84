SPECIFICATION Spec
CONSTANTS
    Adapters <- MCAdapters
    MaxLines = 4
INVARIANTS
  RetryAlone
  SessionOfItsAnswer
  OnlyTheFinalAnswer
  InterruptionsAreReal
PROPERTIES
  TaskEnds
CHECK_DEADLOCK FALSE
