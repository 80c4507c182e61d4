SPECIFICATION ExampleLiveSpec
CONSTANTS
  m = m
  Tasks = {m}
  Calls <- ScriptCalls
  Answers <- ScriptAnswers
  MaxPending = 1
  MaxCalls = 4
  Faults = {"loss", "late", "io"}
  RetryHalf = 1
  OverflowChecks = TRUE
INVARIANTS
  ExampleTypeOK
  LoggedOkIsTrue
  MismatchSpoilsTheRest
PROPERTY ExampleEnds
CHECK_DEADLOCK FALSE
